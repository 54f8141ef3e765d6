-------------------------- MODULE JointController --------------------------
(***************************************************************************)
(* firmware/src/joint_controller.cpp with its numbers: decoding of the       *)
(* feedback, the cascade of PIDs, the limits and the command frame.          *)
(*                                                                         *)
(* Positions, velocities and torques are integers, WireScale of them to the  *)
(* unit of the CAN frames (a mrad, 0.01 rad/s, 0.01 Nm); an interval is a    *)
(* number of ticks.  pid_tor_ is constructed and reset but                  *)
(* never updated, so it holds nothing and is left out.  The temperature and *)
(* the measured torque are decoded and never read.                          *)
(***************************************************************************)
EXTENDS Pid, Wire

CONSTANTS
    Id,                  \* cfg_.id
    PosMin, PosMax,      \* cfg_: the soft limits
    TorqueMax,           \* cfg_: the joint's absolute torque limit
    EncoderOffset,       \* cfg_: subtracted from the measured position
    DirectionInverted,   \* cfg_: the motor's positive direction is reversed
    PosGains, VelGains,  \* the gains of pid_pos_ and pid_vel_
    WireScale,
    Setpoints,           \* what the arm controller may ask for
    IdleSetpoint,        \* a default-constructed JointSetpoint
    Frames,              \* what may arrive on the bus
    Dts                  \* intervals between two ticks, 0 among them

VARIABLES
    position, velocity,  \* state_
    faulted,             \* state_.faults # NONE
    mode,                \* state_.mode
    pidPos, pidVel,      \* pid_pos_ and pid_vel_
    tx,                  \* the last command frame, an idle one before the first
    sp,                  \* history: the setpoint of the last tick
    ran                  \* history: a PID was updated since their last reset

vars == <<position, velocity, faulted, mode, pidPos, pidVel, tx, sp, ran>>

state == <<position, velocity, faulted>>
loops == <<pidPos, pidVel, ran>>

Modes == {"IDLE", "POSITION", "VELOCITY", "TORQUE", "FAULT"}

ASSUME ConfigAssumption ==
    /\ PosMin \in Int /\ PosMax \in Int /\ PosMin <= PosMax
    /\ Id \in Nat /\ WireScale \in Nat \ {0}
    /\ TorqueMax \in 0 .. WireScale * (HalfWord - 1)
    /\ EncoderOffset \in Int /\ DirectionInverted \in BOOLEAN

ASSUME LoopAssumption ==
    /\ \A g \in {PosGains, VelGains} :
          /\ g.kp \in Int /\ g.ki \in Int /\ g.kd \in Int /\ g.tau \in Nat
          /\ g.outMin \in Int /\ g.outMax \in Int /\ g.outMin <= g.outMax
    /\ Dts \subseteq Nat

\* A negative limit would make std::clamp's bounds cross.
JointSetpoint ==
    [mode : Modes, position : Int, velocity : Int, torque : Int,
     velLimit : Nat, torqueLimit : Nat]

ASSUME SetpointAssumption == Setpoints \cup {IdleSetpoint} \subseteq JointSetpoint

CanFrame ==
    [id : Nat, dlc : 0 .. 8, position : Bytes \X Bytes, velocity : Bytes \X Bytes,
     faults : Bytes]

ASSUME FrameAssumption == Frames \subseteq CanFrame

PidState == [integral : Int, prevError : Int, dFiltered : Int, prevOutput : Int]

TypeOK ==
    /\ position \in Int /\ velocity \in Int
    /\ faulted \in BOOLEAN /\ mode \in Modes
    /\ pidPos \in PidState /\ pidVel \in PidState
    /\ tx \in [position : Int, velLimit : Bytes \X Bytes, torque : Bytes \X Bytes]
    /\ sp \in Setpoints \cup {IdleSetpoint}
    /\ ran \in BOOLEAN

Init ==
    /\ position = 0 /\ velocity = 0 /\ faulted = FALSE /\ mode = "IDLE"
    /\ pidPos = PidReset /\ pidVel = PidReset /\ ran = FALSE
    /\ tx = [position |-> 0, velLimit |-> PackI16(0), torque |-> PackI16(0)]
    /\ sp = IdleSetpoint

-----------------------------------------------------------------------------
(* ingest_feedback *)

Direction == IF DirectionInverted THEN -1 ELSE 1

\* The offset is in the encoder's coordinates, the direction comes after it.
Calibrate(raw) == Direction * (raw - EncoderOffset)

\* Of another joint's frame, or one too short, nothing is taken.
Accepts(frame) == frame.id = feedback_id(Id) /\ frame.dlc >= 8

IngestFeedback(frame) ==
    /\ Accepts(frame)
    /\ position' = Calibrate(WireScale * UnpackI16(frame.position))
    /\ velocity' = Direction * WireScale * UnpackI16(frame.velocity)
    /\ faulted' = (frame.faults # 0)
    /\ UNCHANGED <<mode, loops, tx, sp>>

-----------------------------------------------------------------------------
(* tick *)

Fabs(x) == IF x < 0 THEN -x ELSE x

Symmetric(v, limit) == Clamp(v, -limit, limit)

\* The output of the outer loop, as the middle loop gets it.
VelocityCommand(s, pos) == Symmetric(pos.prevOutput, s.velLimit)

\* Mutant: the limit is tested on the setpoint's position.
SoftLimitOnSetpoint(s, torque) ==
    IF s.position < PosMin THEN Fabs(torque)
    ELSE IF s.position > PosMax THEN -Fabs(torque)
    ELSE torque

SoftLimit(s, torque) ==
    IF position < PosMin THEN Fabs(torque)
    ELSE IF position > PosMax THEN -Fabs(torque)
    ELSE torque

\* Mutant: the setpoint's torque limit alone.
LimitedBySetpoint(s, torque) == SoftLimit(s, Symmetric(torque, s.torqueLimit))

\* The setpoint's limit, the joint's and the soft position limits, in order.
Limited(s, torque) ==
    SoftLimit(s, Symmetric(Symmetric(torque, s.torqueLimit), TorqueMax))

\* pack_command and transmit.
Send(s, torque) ==
    \E velLimit \in FirmwareI16(s.velLimit, WireScale),
       wireTorque \in FirmwareI16(torque, WireScale) :
        tx' = [position |-> s.position,
               velLimit |-> PackI16(velLimit), torque |-> PackI16(wireTorque)]

\* The early return: a zero torque, and the loops keep what they hold.
TickFaulted(s) ==
    /\ faulted
    /\ mode' = "FAULT"
    /\ sp' = s
    /\ Send(IdleSetpoint, 0)
    /\ UNCHANGED <<state, loops>>

TickPosition(s, dt) ==
    /\ ~faulted /\ s.mode = "POSITION"
    /\ mode' = s.mode /\ sp' = s
    /\ pidPos' = PidUpdate(PosGains, pidPos, s.position - position, dt)
    /\ pidVel' = PidUpdate(VelGains, pidVel, VelocityCommand(s, pidPos') - velocity, dt)
    /\ ran' = (ran \/ dt > 0)
    /\ Send(s, Limited(s, pidVel'.prevOutput))
    /\ UNCHANGED state

TickVelocity(s, dt) ==
    /\ ~faulted /\ s.mode = "VELOCITY"
    /\ mode' = s.mode /\ sp' = s
    /\ pidVel' = PidUpdate(VelGains, pidVel, s.velocity - velocity, dt)
    /\ ran' = (ran \/ dt > 0)
    /\ Send(s, Limited(s, pidVel'.prevOutput))
    /\ UNCHANGED <<state, pidPos>>

\* The loops are neither updated nor reset.
TickTorque(s) ==
    /\ ~faulted /\ s.mode = "TORQUE"
    /\ mode' = s.mode /\ sp' = s
    /\ Send(s, Limited(s, s.torque))
    /\ UNCHANGED <<state, loops>>

ResetLoops == pidPos' = PidReset /\ pidVel' = PidReset /\ ran' = FALSE

TickRest(s) ==
    /\ ~faulted /\ s.mode \in {"IDLE", "FAULT"}
    /\ mode' = s.mode /\ sp' = s
    /\ ResetLoops
    /\ Send(s, Limited(s, 0))
    /\ UNCHANGED state

-----------------------------------------------------------------------------
\* clear_fault: refuses while the last feedback carries a fault.
ClearFault ==
    /\ ~faulted
    /\ mode' = "IDLE"
    /\ ResetLoops
    /\ UNCHANGED <<state, tx, sp>>

Next ==
    \/ \E frame \in Frames : IngestFeedback(frame)
    \/ \E s \in Setpoints :
          TickFaulted(s) \/ TickTorque(s) \/ TickRest(s)
    \/ \E s \in Setpoints, dt \in Dts : TickPosition(s, dt) \/ TickVelocity(s, dt)
    \/ ClearFault

Spec == Init /\ [][Next]_vars

-----------------------------------------------------------------------------
(* Properties *)

\* The frame on the bus never asks for more torque than the setpoint and the
\* joint both allow, in whatever mode and after whatever the loops have wound up
\* (joint_controller.cpp:93, 99, 104, 117).
TorqueCeiling ==
    LET torque == WireScale * UnpackI16(tx.torque)
    IN Fabs(torque) <= sp.torqueLimit /\ Fabs(torque) <= TorqueMax

\* Both loops start afresh together: after any reset neither holds anything of
\* before, until one of them is updated (joint_controller.cpp:106-113, 146-152).
LoopsResetTogether == ~ran => pidPos = PidReset /\ pidVel = PidReset

Sign(x) == IF x < 0 THEN -1 ELSE IF x > 0 THEN 1 ELSE 0

Side == IF position < PosMin THEN -1 ELSE IF position > PosMax THEN 1 ELSE 0

\* The joint as the arm controller's model sees it.
Contract == INSTANCE JointContract WITH
    joint <- [faulted |-> faulted, mode |-> mode, side |-> Side,
              ran |-> ran, cmd |-> Sign(UnpackI16(tx.torque))]

\* What the numbers do is what JointOps says: no torque points out of the soft
\* limits, a faulted joint gets none and keeps its loops, a reset loop asked
\* without any time elapsed gives none (joint_controller.cpp:73-127).
ImplementsContract == Contract!Spec

-----------------------------------------------------------------------------
(* What the comments and docs say, where the code does otherwise *)

\* joint_controller.cpp:121 "force positive (away from limit)": the motor takes
\* the torque in the direction it reports its own in, and the command is not
\* turned back into it.
MotorTorqueRestores ==
    [][tx' # tx =>
          /\ position < PosMin => Direction * UnpackI16(tx'.torque) >= 0
          /\ position > PosMax => Direction * UnpackI16(tx'.torque) <= 0]_vars
=============================================================================
