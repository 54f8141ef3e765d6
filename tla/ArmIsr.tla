------------------------------- MODULE ArmIsr -------------------------------
(***************************************************************************)
(* The calls of firmware/src/arm_controller.cpp cut into the pieces between  *)
(* which another context may run.  As arm_controller.hpp:18-22 has it, frames *)
(* are taken in by the CAN interrupt and tick() runs from a timer or a task;  *)
(* everything else is called by the main loop, which both preempt.  A field  *)
(* of a joint's state is read and written where the source does so.         *)
(*                                                                         *)
(* Which of the two outranks the other the source does not say, so it is a   *)
(* constant: with TimerFirst the timer's interrupt preempts the CAN          *)
(* interrupt and is not preempted, otherwise it is the other way round (as   *)
(* it is for a tick() run from a task).                                     *)
(*                                                                         *)
(* ArmController.tla has the same calls in one step each, with the clock.    *)
(* A tick is late or not by choice here, and the PIDs' state is left out: a  *)
(* loop may ask for any torque.                                             *)
(***************************************************************************)
EXTENDS JointOps

CONSTANTS
    N,              \* joints, numbered from 0 (7 in the code)
    TimerFirst,     \* the timer's interrupt outranks the CAN interrupt
    Sides,          \* bound: where frames put a joint
    Torques         \* bound: what the loops may ask for

ASSUME JointCount == N \in Nat \ {0}

ASSUME Ranked == TimerFirst \in BOOLEAN

ASSUME Bounds == /\ Sides \subseteq Signs
                 /\ Torques \subseteq Signs /\ 0 \in Torques

Joints == 0 .. N - 1

VARIABLES
    faulted, side, mode, cmd,   \* the joints, as in JointOps; side is what
                                \* state_.position says, calibrated or not
    estopActive, watchdogExpired,
    can,        \* the frame the interrupt is unpacking and where it is
    tick,       \* where tick() is, the joint it is at and the torque it has
    main,       \* where the main loop's call is and the joint it is at
    tickOk,     \* what the last tick() returned
    truth,      \* history: where each joint is, by its last frame
    late,       \* history: the last tick() measured an overrun
    ill,        \* history: joints with a fault from that tick()'s start till now
    beyond,     \* history: the soft limit a joint has been past since then, or 0
    stuck       \* history: the same from the last release_estop()'s start

joint == <<faulted, side, mode, cmd>>
flags == <<estopActive, watchdogExpired>>
vars == <<joint, flags, can, tick, main, tickOk, truth, late, ill, beyond, stuck>>

NoFrame == [at |-> "idle", joint |-> 0, fault |-> FALSE, side |-> 0]
NoTick == [at |-> "idle", joint |-> 0, idle |-> FALSE, torque |-> 0]
NoCall == [at |-> "idle", joint |-> 0]

TypeOK ==
    /\ faulted \in [Joints -> BOOLEAN] /\ side \in [Joints -> Signs]
    /\ mode \in [Joints -> Modes] /\ cmd \in [Joints -> Signs]
    /\ estopActive \in BOOLEAN /\ watchdogExpired \in BOOLEAN
    /\ can \in [at : {"idle", "faults", "calibrate"}, joint : Joints,
                fault : BOOLEAN, side : Signs]
    /\ tick \in [at : {"idle", "stop", "test", "lower", "upper", "send"}, joint : Joints,
                 idle : BOOLEAN, torque : Signs]
    /\ main \in [at : {"idle", "scan", "release", "forget", "clear"}, joint : Joints]
    /\ tickOk \in BOOLEAN /\ late \in BOOLEAN
    /\ truth \in [Joints -> Signs] /\ beyond \in [Joints -> Signs]
    /\ ill \subseteq Joints /\ stuck \subseteq Joints

Init ==
    /\ faulted = [j \in Joints |-> FALSE] /\ side = [j \in Joints |-> 0]
    /\ mode = [j \in Joints |-> "IDLE"] /\ cmd = [j \in Joints |-> 0]
    /\ estopActive = FALSE /\ watchdogExpired = FALSE
    /\ can = NoFrame /\ tick = NoTick /\ main = NoCall
    /\ tickOk = TRUE /\ late = FALSE
    /\ truth = side /\ beyond = side /\ ill = {} /\ stuck = {}

-----------------------------------------------------------------------------
(* Who may run: an interrupt of higher rank waits for nobody, the other one  *)
(* does, and the main loop waits for both.  Mutants: tick() preempts the CAN *)
(* interrupt whatever its rank; the main loop preempts tick().              *)

CanMay == TimerFirst => tick.at = "idle"

TickMayAlways == TRUE

TickMay == TimerFirst \/ can.at = "idle"

MainMayInTick == can.at = "idle"

MainMay == can.at = "idle" /\ tick.at = "idle"

-----------------------------------------------------------------------------
(* ingest_can_frame, in the CAN interrupt *)

\* The position is written first, not calibrated yet.
CanPosition(j, raw, calibrated, fault) ==
    /\ CanMay /\ can.at = "idle"
    /\ can' = [at |-> "faults", joint |-> j, fault |-> fault, side |-> calibrated]
    /\ side' = [side EXCEPT ![j] = raw]
    /\ truth' = [truth EXCEPT ![j] = calibrated]
    /\ beyond' = [beyond EXCEPT ![j] = IF calibrated = @ THEN @ ELSE 0]
    /\ UNCHANGED <<faulted, mode, cmd, flags, tick, main, tickOk, late, ill, stuck>>

CanFaults ==
    /\ CanMay /\ can.at = "faults"
    /\ can' = [can EXCEPT !.at = "calibrate"]
    /\ faulted' = [faulted EXCEPT ![can.joint] = can.fault]
    /\ ill' = IF can.fault THEN ill ELSE ill \ {can.joint}
    /\ stuck' = IF can.fault THEN stuck ELSE stuck \ {can.joint}
    /\ UNCHANGED <<side, mode, cmd, flags, tick, main, tickOk, truth, late, beyond>>

\* Offset and direction.
CanCalibrate ==
    /\ CanMay /\ can.at = "calibrate"
    /\ can' = NoFrame
    /\ side' = [side EXCEPT ![can.joint] = can.side]
    /\ UNCHANGED <<faulted, mode, cmd, flags, tick, main, tickOk, truth, late, ill, beyond, stuck>>

-----------------------------------------------------------------------------
(* tick(), from the timer *)

FaultyNow == {j \in Joints : faulted[j]}

\* The elapsed time and the watchdog.
TickMeasure(overrun) ==
    /\ TickMay /\ tick.at = "idle"
    /\ tick' = [NoTick EXCEPT !.at = "stop"]
    /\ estopActive' = (estopActive \/ overrun)
    /\ watchdogExpired' = (watchdogExpired \/ overrun)
    /\ late' = overrun
    /\ ill' = FaultyNow /\ beyond' = truth
    /\ UNCHANGED <<joint, can, main, tickOk, truth, stuck>>

\* estop_active_ is read once for all joints.
TickStop ==
    /\ TickMay /\ tick.at = "stop"
    /\ tick' = [tick EXCEPT !.at = "test", !.idle = estopActive]
    /\ UNCHANGED <<joint, flags, can, main, tickOk, truth, late, ill, beyond, stuck>>

\* The next joint, or the end of tick().
NextJoint ==
    IF tick.joint + 1 < N
    THEN /\ tick' = [tick EXCEPT !.at = "test", !.joint = @ + 1, !.torque = 0]
         /\ UNCHANGED tickOk
    ELSE tick' = NoTick /\ tickOk' = ~tick.idle

\* Mutant of TickTest: the mode is asked instead of the faults.
TickTestByMode(m, torque) ==
    /\ TickMay /\ tick.at = "test"
    /\ tick.idle => m = "IDLE"
    /\ m \in RestModes => torque = 0
    /\ LET j == tick.joint IN
          IF mode[j] = "FAULT"
          THEN cmd' = [cmd EXCEPT ![j] = 0] /\ NextJoint /\ UNCHANGED mode
          ELSE /\ mode' = [mode EXCEPT ![j] = m]
               /\ tick' = [tick EXCEPT !.at = "lower", !.torque = torque]
               /\ UNCHANGED <<cmd, tickOk>>
    /\ UNCHANGED <<faulted, side, flags, can, main, truth, late, ill, beyond, stuck>>

\* The fault is tested, then the setpoint's mode and the loops give a torque.
TickTest(m, torque) ==
    /\ TickMay /\ tick.at = "test"
    /\ tick.idle => m = "IDLE"
    /\ m \in RestModes => torque = 0
    /\ LET j == tick.joint IN
          IF faulted[j]
          THEN /\ mode' = [mode EXCEPT ![j] = "FAULT"]
               /\ cmd' = [cmd EXCEPT ![j] = 0]
               /\ NextJoint
          ELSE /\ mode' = [mode EXCEPT ![j] = m]
               /\ tick' = [tick EXCEPT !.at = "lower", !.torque = torque]
               /\ UNCHANGED <<cmd, tickOk>>
    /\ UNCHANGED <<faulted, side, flags, can, main, truth, late, ill, beyond, stuck>>

\* The position is read again for the lower soft limit,
TickLower ==
    /\ TickMay /\ tick.at = "lower"
    /\ tick' = IF side[tick.joint] = -1
               THEN [tick EXCEPT !.at = "send", !.torque = Fabs(@)]
               ELSE [tick EXCEPT !.at = "upper"]
    /\ UNCHANGED <<joint, flags, can, main, tickOk, truth, late, ill, beyond, stuck>>

\* and once more for the upper one, if it was not below the lower.
TickUpper ==
    /\ TickMay /\ tick.at = "upper"
    /\ tick' = [tick EXCEPT !.at = "send",
                            !.torque = IF side[tick.joint] = 1 THEN -Fabs(@) ELSE @]
    /\ UNCHANGED <<joint, flags, can, main, tickOk, truth, late, ill, beyond, stuck>>

\* The torque goes out as it was worked out.
TickSend ==
    /\ TickMay /\ tick.at = "send"
    /\ cmd' = [cmd EXCEPT ![tick.joint] = tick.torque]
    /\ NextJoint
    /\ UNCHANGED <<faulted, side, mode, flags, can, main, truth, late, ill, beyond, stuck>>

-----------------------------------------------------------------------------
(* The main loop's calls *)

Estop ==
    /\ MainMay /\ main.at = "idle"
    /\ estopActive' = TRUE
    /\ UNCHANGED <<joint, watchdogExpired, can, tick, main, tickOk, truth, late, ill, beyond, stuck>>

BeginRelease ==
    /\ MainMay /\ main.at = "idle"
    /\ main' = [at |-> "scan", joint |-> 0]
    /\ stuck' = FaultyNow
    /\ UNCHANGED <<joint, flags, can, tick, tickOk, truth, late, ill, beyond>>

\* Mutant: the last joint is not looked at.
ScanJointShort ==
    /\ MainMay /\ main.at = "scan"
    /\ main' = IF faulted[main.joint] THEN NoCall
               ELSE IF main.joint + 2 < N THEN [main EXCEPT !.joint = @ + 1]
               ELSE [main EXCEPT !.at = "release"]
    /\ UNCHANGED <<joint, flags, can, tick, tickOk, truth, late, ill, beyond, stuck>>

\* One joint's faults are read; one with a fault ends the call.
ScanJoint ==
    /\ MainMay /\ main.at = "scan"
    /\ main' = IF faulted[main.joint] THEN NoCall
               ELSE IF main.joint + 1 < N THEN [main EXCEPT !.joint = @ + 1]
               ELSE [main EXCEPT !.at = "release"]
    /\ UNCHANGED <<joint, flags, can, tick, tickOk, truth, late, ill, beyond, stuck>>

Release ==
    /\ MainMay /\ main.at = "release"
    /\ main' = [main EXCEPT !.at = "forget"]
    /\ estopActive' = FALSE
    /\ UNCHANGED <<joint, watchdogExpired, can, tick, tickOk, truth, late, ill, beyond, stuck>>

ForgetWatchdog ==
    /\ MainMay /\ main.at = "forget"
    /\ main' = NoCall
    /\ watchdogExpired' = FALSE
    /\ UNCHANGED <<joint, estopActive, can, tick, tickOk, truth, late, ill, beyond, stuck>>

\* clear_joint_fault: the test of the faults, then the mode and the resets.
BeginClear(j) ==
    /\ MainMay /\ main.at = "idle" /\ ~faulted[j]
    /\ main' = [at |-> "clear", joint |-> j]
    /\ UNCHANGED <<joint, flags, can, tick, tickOk, truth, late, ill, beyond, stuck>>

Clear ==
    /\ MainMay /\ main.at = "clear"
    /\ main' = NoCall
    /\ mode' = [mode EXCEPT ![main.joint] = "IDLE"]
    /\ UNCHANGED <<faulted, side, cmd, flags, can, tick, tickOk, truth, late, ill, beyond, stuck>>

-----------------------------------------------------------------------------
Next ==
    \/ \E j \in Joints, raw \in Sides, calibrated \in Sides, fault \in BOOLEAN :
          CanPosition(j, raw, calibrated, fault)
    \/ CanFaults
    \/ CanCalibrate
    \/ \E overrun \in BOOLEAN : TickMeasure(overrun)
    \/ TickStop
    \/ \E m \in {"IDLE", "TORQUE"}, torque \in Torques : TickTest(m, torque)
    \/ TickLower \/ TickUpper \/ TickSend
    \/ Estop
    \/ BeginRelease \/ ScanJoint \/ Release \/ ForgetWatchdog
    \/ \E j \in Joints : BeginClear(j)
    \/ Clear

Spec == Init /\ [][Next]_vars

-----------------------------------------------------------------------------
(* Properties *)

Inward(limit, torque) == /\ limit = 1 => torque <= 0
                         /\ limit = -1 => torque >= 0

\* A joint that every frame since before the tick has put past the same soft
\* limit is not driven further out by it: however many frames come in between
\* the tick's reads of the position, no limit is judged by one that is only half
\* decoded.  A timer that outranks the CAN interrupt takes this away
\* (joint_controller.cpp:56-66, 120-126).
PushesInward == tick.at = "idle" => \A j \in Joints : Inward(beyond[j], cmd[j])

\* A tick that measured an overrun is refused and leaves the arm quiet, whatever
\* frames come in while it runs, as long as release_estop() cannot preempt it
\* (arm_controller.cpp:54-66).
LateIsRefused ==
    tick.at = "idle" /\ late => ~tickOk /\ \A j \in Joints : cmd[j] = 0

\* A joint that has had a fault since before the tick is without torque after
\* it: only a fault that came while the tick was at work can be missed, once
\* (joint_controller.cpp:75-81).
FaultHonoured == tick.at = "idle" => \A j \in ill : cmd[j] = 0

\* A release misses only faults that came while it was looking: no joint has had
\* one since before release_estop() was called (arm_controller.cpp:81-91).
ReleaseSeesOldFaults == [][estopActive /\ ~estopActive' => stuck = {}]_vars
=============================================================================
