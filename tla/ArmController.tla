--------------------------- MODULE ArmController ---------------------------
(***************************************************************************)
(* firmware/src/arm_controller.cpp: the orchestrator of the joints, its     *)
(* e-stop and its watchdog, over the joints of JointOps.                    *)
(*                                                                         *)
(* tick() runs from a timer at 1 kHz, the other calls come from elsewhere   *)
(* in between.  Every call is one step here.                                *)
(***************************************************************************)
EXTENDS JointOps

CONSTANTS
    Joints,         \* the joints the controller holds (0..6 in the code)
    UnknownId,      \* a CAN id that is no joint's feedback id
    WRAP,           \* micros() counts modulo this (2^32 in the code)
    WATCHDOG_US,    \* the longest time between two ticks (5000 in the code)
    SetpointModes,  \* the modes the caller of tick() asks for
    Torques,        \* the signs of the torques a running joint may be sent
    Sides           \* where the joints' positions may be

ASSUME ClockAssumption ==
    /\ WRAP \in Nat
    /\ WATCHDOG_US \in Nat
    /\ WATCHDOG_US < WRAP

ASSUME JointsAssumption ==
    /\ UnknownId \notin Joints
    /\ SetpointModes \subseteq Modes
    /\ Torques \subseteq Signs
    /\ Sides \subseteq Signs

VARIABLES
    joints,           \* joints_, one record of JointOps each
    estopActive,      \* estop_active_
    watchdogExpired,  \* watchdog_expired_
    lastTickUs,       \* last_tick_us_
    now,              \* what clock_.micros() returns
    tickOk,           \* what the last tick() returned; TRUE before the first
    lapsed            \* history: the time since the last tick, at most WRAP

vars == <<joints, estopActive, watchdogExpired, lastTickUs, now, tickOk, lapsed>>

TypeOK ==
    /\ joints \in [Joints -> Joint]
    /\ estopActive \in BOOLEAN
    /\ watchdogExpired \in BOOLEAN
    /\ lastTickUs \in 0 .. WRAP - 1
    /\ now \in 0 .. WRAP - 1
    /\ tickOk \in BOOLEAN
    /\ lapsed \in 0 .. WRAP

Init ==
    /\ joints \in [Joints -> {NewJoint(side) : side \in Sides}]
    /\ estopActive = FALSE
    /\ watchdogExpired = FALSE
    /\ now \in 0 .. WRAP - 1
    /\ lastTickUs = now
    /\ tickOk = TRUE
    /\ lapsed = 0

-----------------------------------------------------------------------------
(* The clock of hal.hpp: a free-running uint32_t.                            *)

NextMicros(t) == IF t + 1 = WRAP THEN 0 ELSE t + 1

\* One microsecond, or whatever the unit is, goes by.
TimePasses ==
    /\ now' = NextMicros(now)
    /\ lapsed' = IF lapsed = WRAP THEN WRAP ELSE lapsed + 1
    /\ UNCHANGED <<joints, estopActive, watchdogExpired, lastTickUs, tickOk>>

-----------------------------------------------------------------------------
(* tick() *)

\* uint32_t subtraction.  Mutant: signed subtraction.
SignedSub(a, b) == a - b

UintSub(a, b) == IF a >= b THEN a - b ELSE a - b + WRAP

ElapsedUs == UintSub(now, lastTickUs)

Overrun == ElapsedUs > WATCHDOG_US

\* estop_active_ as the second half of tick() reads it.  Mutant: the flag is
\* tested before the watchdog latches it.
StoppedBeforeWatchdog == estopActive

Stopped == estopActive \/ Overrun

\* The first half of tick(): the elapsed time and the watchdog.
Measure ==
    /\ lastTickUs' = now
    /\ lapsed' = 0
    /\ watchdogExpired' = (watchdogExpired \/ Overrun)
    /\ estopActive' = (estopActive \/ Overrun)
    /\ UNCHANGED now

\* Mutant of TickStopped: returns as soon as it knows it is stopped.
TickStoppedEarlyReturn ==
    /\ Stopped
    /\ Measure
    /\ tickOk' = FALSE
    /\ UNCHANGED joints

\* The e-stop path: every joint gets the default setpoint, mode IDLE.
TickStopped ==
    /\ Stopped
    /\ Measure
    /\ tickOk' = FALSE
    /\ joints' = [j \in Joints |-> AfterTick(joints[j], "IDLE", 0, ElapsedUs)]

\* The normal path: every joint gets its own setpoint.
TickRunning ==
    /\ ~Stopped
    /\ Measure
    /\ tickOk' = TRUE
    /\ \E mode \in [Joints -> SetpointModes], torque \in [Joints -> Torques] :
          joints' = [j \in Joints |->
                        AfterTick(joints[j], mode[j], torque[j], ElapsedUs)]

Tick == TickStopped \/ TickRunning

-----------------------------------------------------------------------------
(* The calls between two ticks *)

\* ingest_feedback takes a whole frame that carries the joint's own id.
Accepts(j, id, dlc) == id = j /\ dlc >= 8

\* ingest_can_frame: the first joint that accepts the frame takes it.
IngestCanFrame(id, dlc, faulted, side) ==
    /\ joints' = [j \in Joints |->
                     IF Accepts(j, id, dlc)
                     THEN AfterFeedback(joints[j], faulted, side)
                     ELSE joints[j]]
    /\ UNCHANGED <<estopActive, watchdogExpired, lastTickUs, now, tickOk, lapsed>>

Estop ==
    /\ estopActive' = TRUE
    /\ UNCHANGED <<joints, watchdogExpired, lastTickUs, now, tickOk, lapsed>>

\* Mutant: the watchdog's flag is forgotten.
ReleaseEstopKeepsWatchdog ==
    /\ \A j \in Joints : ~joints[j].faulted
    /\ estopActive' = FALSE
    /\ UNCHANGED <<joints, watchdogExpired, lastTickUs, now, tickOk, lapsed>>

ReleaseEstop ==
    /\ \A j \in Joints : ~joints[j].faulted
    /\ estopActive' = FALSE
    /\ watchdogExpired' = FALSE
    /\ UNCHANGED <<joints, lastTickUs, now, tickOk, lapsed>>

\* An id that is no joint's is ignored.
ClearJointFault(id) ==
    /\ id \in Joints
    /\ joints' = [joints EXCEPT ![id] = AfterClear(@)]
    /\ UNCHANGED <<estopActive, watchdogExpired, lastTickUs, now, tickOk, lapsed>>

-----------------------------------------------------------------------------
Next ==
    \/ TimePasses
    \/ TickStopped
    \/ TickRunning
    \/ \E id \in Joints \cup {UnknownId}, dlc \in {7, 8},
          faulted \in BOOLEAN, side \in Sides :
          IngestCanFrame(id, dlc, faulted, side)
    \/ Estop
    \/ ReleaseEstop
    \/ \E id \in Joints \cup {UnknownId} : ClearJointFault(id)

Spec == Init /\ [][Next]_vars

\* The timer goes on calling tick().
FairSpec == Spec /\ WF_vars(Tick)

-----------------------------------------------------------------------------
(* Properties *)

AllQuiet == \A j \in Joints : joints[j].cmd = 0

\* A tick() runs exactly when the history of the elapsed time starts anew; a
\* second tick within the same microsecond changes nothing it speaks of.
Ticked == lapsed > 0 /\ lapsed' = 0

\* Once tick() has returned false no joint is driven, and none is in a driving
\* mode, until a tick() returns true: whatever feedback arrives and whatever is
\* stopped, released or cleared in between (arm_controller.cpp:60-66).
QuietWhenStopped ==
    ~tickOk => \A j \in Joints : joints[j].cmd = 0 /\ joints[j].mode \in RestModes

\* A joint that reports IDLE starts its next closed loop from reset PIDs, by
\* whichever of tick() and clear_fault() it became idle
\* (joint_controller.cpp:106-113, 146-152).
IdleIsReset == \A j \in Joints : joints[j].mode = "IDLE" => ~joints[j].ran

\* The watchdog's flag is only ever shown together with the e-stop it latches
\* (arm_controller.cpp:55-58, 87-90): no release leaves one without the other.
WatchdogImpliesEstop == watchdogExpired => estopActive

\* While less than a whole wrap of the clock goes by, a tick is refused for
\* lateness exactly when more than WATCHDOG_US has gone by since the last one,
\* wherever the clock's wrap falls in between (arm_controller.cpp:47-58).
WatchdogExact ==
    [][Ticked /\ lapsed < WRAP /\ ~estopActive =>
          (tickOk' <=> lapsed <= WATCHDOG_US) /\ (estopActive' <=> ~tickOk')]_vars

\* A latched e-stop is followed by a silent arm unless it is released, because
\* the timer goes on ticking (arm_controller.cpp:60-66).
EstopQuiets == estopActive ~> (AllQuiet \/ ~estopActive)

\* A joint whose driver reports a fault is sent a zero torque, or the fault goes
\* away, whoever else is running (joint_controller.cpp:74-81).
FaultSilences ==
    \A j \in Joints :
        joints[j].faulted ~> (joints[j].cmd = 0 \/ ~joints[j].faulted)

FaultyJoints == {j \in Joints : joints[j].faulted}

MovingJoints == {j \in Joints : joints[j].cmd # 0}

\* The arm as its safety rules see it.
Safety == INSTANCE ArmSafety WITH
    stopped <- estopActive, faulty <- FaultyJoints, moving <- MovingJoints

\* Every step of the controller is a step the safety rules allow: torque starts
\* only while not stopped and only in joints without a fault, and a stop is
\* lifted only while no joint has one (arm_controller.hpp:14-16).
ImplementsArmSafety == Safety!Spec

-----------------------------------------------------------------------------
(* What the comments and tests say, where the code does otherwise *)

\* joint_state.hpp:42 "latched fault -- must be cleared before re-enabling": a
\* fault-free feedback frame is enough.
FaultIsLatched ==
    [][\A j \in Joints :
          joints[j].mode = "FAULT" => joints'[j].mode \in RestModes]_vars
=============================================================================
