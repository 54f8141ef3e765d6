---------------------------- MODULE ArmIsrProofs ----------------------------
(***************************************************************************)
(* What is left of the safety rules when the CAN interrupt and tick() preempt *)
(* the main loop and one of them the other, for any number of joints.       *)
(***************************************************************************)
EXTENDS ArmIsr, TLAPS

(* The inductive invariant: what each context may rely on where it is *)

\* tick() has a torque for the joint it is at, and is at a joint at all.
Limiting == {"lower", "upper", "send"}
Working == {"test"} \cup Limiting

\* Only the joint whose frame is being unpacked has a position that is not
\* calibrated, and the frame still knows the right one.
Calibrated ==
    /\ \A j \in Joints : side[j] = truth[j] \/ (can.at # "idle" /\ can.joint = j)
    /\ can.at # "idle" => can.side = truth[can.joint]

\* The joints of a tick that has been late are at rest up to where it is.
LateTick ==
    /\ tick.at = "stop" => tick.joint = 0
    /\ tick.at # "idle" /\ late => estopActive
    /\ tick.at \in Working /\ late =>
          tick.idle /\ \A j \in Joints : j < tick.joint => cmd[j] = 0
    /\ tick.at \in Limiting /\ tick.idle => tick.torque = 0

\* The joints with a fault from before the tick are at rest up to where it is,
\* and the joint whose torque is worked out is none of them.
FaultyTick ==
    /\ \A j \in ill : faulted[j]
    /\ tick.at \in Working => \A j \in ill : j < tick.joint => cmd[j] = 0
    /\ tick.at \in Limiting => tick.joint \notin ill

\* The joints that have been past a limit since before the tick are driven inwards
\* up to where it is, and so is the one it is at once its limits are judged.
LimitTick ==
    /\ \A j \in Joints : beyond[j] = 0 \/ beyond[j] = truth[j]
    /\ tick.at \in Working =>
          \A j \in Joints : j < tick.joint => Inward(beyond[j], cmd[j])
    /\ tick.at = "upper" => beyond[tick.joint] # -1
    /\ tick.at = "send" => Inward(beyond[tick.joint], tick.torque)

\* What release_estop() has looked at had no fault since before it was called.
Scanned ==
    /\ \A j \in stuck : faulted[j]
    /\ main.at = "scan" => \A j \in stuck : main.joint <= j
    /\ main.at = "release" => stuck = {}

Inv == TypeOK /\ Calibrated /\ LateTick /\ FaultyTick /\ Scanned
       /\ LateIsRefused /\ FaultHonoured

\* When the CAN interrupt outranks tick(), the tick may rely on more.
LimitInv == Inv /\ LimitTick /\ PushesInward

\* The invariant holds after the constructor.
LEMMA InitInv == Init => Inv
<1> SUFFICES ASSUME Init PROVE Inv
  OBVIOUS
<1>1. 0 \in Joints
  BY JointCount DEF Joints
<1>2. NoFrame \in [at : {"idle", "faults", "calibrate"}, joint : Joints,
                   fault : BOOLEAN, side : Signs]
  BY <1>1 DEF NoFrame, Signs
<1>3. NoTick \in [at : {"idle", "stop", "test", "lower", "upper", "send"}, joint : Joints,
                  idle : BOOLEAN, torque : Signs]
  BY <1>1 DEF NoTick, Signs
<1>4. NoCall \in [at : {"idle", "scan", "release", "forget", "clear"}, joint : Joints]
  BY <1>1 DEF NoCall
<1>5. TypeOK
  BY <1>2, <1>3, <1>4 DEF Init, TypeOK, Signs, Modes
<1>6. Calibrated /\ LateTick /\ FaultyTick /\ Scanned
  BY DEF Init, Calibrated, LateTick, FaultyTick, Scanned, NoFrame, NoTick, NoCall,
         Working, Limiting
<1>7. LateIsRefused /\ FaultHonoured
  BY DEF Init, LateIsRefused, FaultHonoured, NoTick
<1> QED
  BY <1>5, <1>6, <1>7 DEF Inv

-----------------------------------------------------------------------------
(* Types *)

\* What judging the limits leaves alone, and that a torque stays one.
LEMMA Judged ==
    ASSUME TypeOK, TickLower \/ TickUpper
    PROVE  /\ tick.at \in {"lower", "upper"} /\ tick'.at \in {"upper", "send"}
           /\ tick'.joint = tick.joint /\ tick'.idle = tick.idle
           /\ tick'.torque \in Signs
           /\ tick.torque = 0 => tick'.torque = 0
           /\ tick' \in [at : {"idle", "stop", "test", "lower", "upper", "send"},
                         joint : Joints, idle : BOOLEAN, torque : Signs]
<1> USE DEF TypeOK
<1>1. \A torque \in Signs :
         /\ Fabs(torque) \in Signs /\ -Fabs(torque) \in Signs
         /\ torque = 0 => Fabs(torque) = 0 /\ -Fabs(torque) = 0
  BY DEF Fabs, Signs
<1>2. tick.torque \in Signs
  OBVIOUS
<1>3. CASE TickLower
  BY <1>1, <1>2, <1>3 DEF TickLower
<1>4. CASE TickUpper
  BY <1>1, <1>2, <1>4 DEF TickUpper
<1> QED
  BY <1>3, <1>4

\* tick() goes on with the next joint or ends with the result it noted.
LEMMA NextJointType ==
    ASSUME TypeOK, NextJoint
    PROVE  /\ tick' \in [at : {"idle", "stop", "test", "lower", "upper", "send"}, joint : Joints,
                         idle : BOOLEAN, torque : Signs]
           /\ tickOk' \in BOOLEAN
<1>1. tick.joint \in 0 .. N - 1 /\ tick.idle \in BOOLEAN /\ N \in Nat \ {0}
  BY JointCount DEF TypeOK, Joints
<1>2. CASE tick.joint + 1 < N
  <2>1. tick' = [tick EXCEPT !.at = "test", !.joint = @ + 1, !.torque = 0]
        /\ tickOk' = tickOk
    BY <1>2 DEF NextJoint
  <2>2. tick.joint + 1 \in Joints
    BY <1>1, <1>2 DEF Joints
  <2> QED
    BY <2>1, <2>2 DEF TypeOK, Signs
<1>3. CASE ~(tick.joint + 1 < N)
  <2>1. tick' = NoTick /\ tickOk' = ~tick.idle
    BY <1>3 DEF NextJoint
  <2>2. 0 \in Joints
    BY <1>1 DEF Joints
  <2> QED
    BY <2>1, <2>2, <1>1 DEF NoTick, Signs
<1> QED
  BY <1>2, <1>3

\* Every piece of every call keeps the types.
LEMMA TypeStep == TypeOK /\ [Next]_vars => TypeOK'
<1> SUFFICES ASSUME TypeOK, [Next]_vars PROVE TypeOK'
  OBVIOUS
<1> USE DEF TypeOK, joint, flags
<1>0. 0 \in Joints
  BY JointCount DEF Joints
<1>1. ASSUME NEW j \in Joints, NEW raw \in Sides, NEW calibrated \in Sides,
             NEW fault \in BOOLEAN, CanPosition(j, raw, calibrated, fault)
      PROVE  TypeOK'
  <2>1. raw \in Signs /\ calibrated \in Signs /\ 0 \in Signs
    BY Bounds DEF Signs
  <2> QED
    BY <1>1, <2>1 DEF CanPosition
<1>2. CASE CanFaults
  BY <1>2 DEF CanFaults
<1>3. CASE CanCalibrate
  BY <1>3, <1>0 DEF CanCalibrate, NoFrame, Signs
<1>4. ASSUME NEW overrun \in BOOLEAN, TickMeasure(overrun) PROVE TypeOK'
  <2>2. (estopActive \/ overrun) \in BOOLEAN /\ (watchdogExpired \/ overrun) \in BOOLEAN
    BY Zenon
  <2> QED
    BY <1>4, <1>0, <2>2 DEF TickMeasure, NoTick, FaultyNow, Signs
<1>5. CASE TickStop
  BY <1>5 DEF TickStop
<1>6. ASSUME NEW m \in {"IDLE", "TORQUE"}, NEW torque \in Torques, TickTest(m, torque)
      PROVE  TypeOK'
  <2>1. CASE faulted[tick.joint]
    BY <1>6, <2>1, NextJointType DEF TickTest, Signs, Modes
  <2>2. CASE ~faulted[tick.joint]
    <3>1. /\ mode' = [mode EXCEPT ![tick.joint] = m]
          /\ tick' = [tick EXCEPT !.at = "lower", !.torque = torque]
          /\ UNCHANGED <<cmd, tickOk, faulted, side, flags, can, main, truth, late,
                         ill, beyond, stuck>>
      BY <1>6, <2>2 DEF TickTest
    <3>2. mode' \in [Joints -> Modes]
      BY <3>1 DEF Modes
    <3>3. torque \in Signs
      BY Bounds
    <3> QED
      BY <3>1, <3>2, <3>3
  <2> QED
    BY <2>1, <2>2
<1>7. CASE TickLower \/ TickUpper
  <2>1. UNCHANGED <<joint, flags, can, main, tickOk, truth, late, ill, beyond, stuck>>
    BY <1>7 DEF TickLower, TickUpper
  <2> QED
    BY <1>7, <2>1, Judged
<1>15. CASE TickSend
  BY <1>15, NextJointType DEF TickSend
<1>8. CASE Estop
  BY <1>8 DEF Estop
<1>9. CASE BeginRelease
  BY <1>9, <1>0 DEF BeginRelease, FaultyNow
<1>10. CASE ScanJoint
  <2>1. main.joint + 1 < N => main.joint + 1 \in Joints
    BY JointCount DEF Joints
  <2> QED
    BY <1>10, <1>0, <2>1 DEF ScanJoint, NoCall
<1>11. CASE Release
  BY <1>11 DEF Release
<1>12. CASE ForgetWatchdog
  BY <1>12, <1>0 DEF ForgetWatchdog, NoCall
<1>13. CASE Clear
  <2>1. [mode EXCEPT ![main.joint] = "IDLE"] \in [Joints -> Modes]
    BY DEF Modes
  <2> QED
    BY <1>13, <1>0, <2>1 DEF Clear, NoCall
<1>14. ASSUME NEW j \in Joints, BeginClear(j) PROVE TypeOK'
  BY <1>14 DEF BeginClear
<1>16. CASE UNCHANGED vars
  BY <1>16 DEF vars
<1> QED
  BY <1>1, <1>2, <1>3, <1>4, <1>5, <1>6, <1>7, <1>8, <1>9, <1>10, <1>11, <1>12,
     <1>13, <1>14, <1>15, <1>16 DEF Next

-----------------------------------------------------------------------------
(* The interrupt *)

\* Positions and frames are written by the interrupt alone.
LEMMA PositionsMove ==
    ASSUME [Next]_vars
    PROVE  \/ \E j \in Joints, raw \in Sides, calibrated \in Sides, fault \in BOOLEAN :
                 CanPosition(j, raw, calibrated, fault)
           \/ CanFaults
           \/ CanCalibrate
           \/ UNCHANGED <<side, truth, can>>
BY DEF Next, vars, joint, TickMeasure, TickStop, TickTest, TickLower, TickUpper, TickSend,
       Estop, BeginRelease, ScanJoint, Release, ForgetWatchdog, BeginClear, Clear

\* The interrupt leaves a position calibrated when it ends.
LEMMA CalibratedStep == TypeOK /\ Calibrated /\ [Next]_vars => Calibrated'
<1> SUFFICES ASSUME TypeOK, Calibrated, [Next]_vars PROVE Calibrated'
  OBVIOUS
<1> USE DEF TypeOK, Calibrated
<1>1. ASSUME NEW j \in Joints, NEW raw \in Sides, NEW calibrated \in Sides,
             NEW fault \in BOOLEAN, CanPosition(j, raw, calibrated, fault)
      PROVE  Calibrated'
  BY <1>1 DEF CanPosition
<1>2. CASE CanFaults
  BY <1>2 DEF CanFaults
<1>3. CASE CanCalibrate
  BY <1>3 DEF CanCalibrate, NoFrame
<1>4. CASE UNCHANGED <<side, truth, can>>
  BY <1>4
<1> QED
  BY <1>1, <1>2, <1>3, <1>4, PositionsMove

-----------------------------------------------------------------------------
(* The tick *)

\* What a tick works with changes by its own pieces; the main loop may set or
\* lift the e-stop between two ticks only, and only the interrupt ends a fault.
LEMMA TicksMove ==
    ASSUME [Next]_vars
    PROVE  \/ \E overrun \in BOOLEAN : TickMeasure(overrun)
           \/ TickStop
           \/ \E m \in {"IDLE", "TORQUE"}, torque \in Torques : TickTest(m, torque)
           \/ TickLower \/ TickUpper \/ TickSend
           \/ /\ UNCHANGED <<tick, late, cmd, tickOk>>
              /\ estopActive' = estopActive \/ tick.at = "idle"
              /\ CanFaults \/ UNCHANGED <<faulted, ill>>
<1>1. ASSUME NEW j \in Joints, NEW raw \in Sides, NEW calibrated \in Sides,
             NEW fault \in BOOLEAN, CanPosition(j, raw, calibrated, fault)
      PROVE  UNCHANGED <<tick, late, cmd, tickOk, estopActive, faulted, ill>>
  BY <1>1 DEF CanPosition, flags
<1>2. CASE CanFaults
  BY <1>2 DEF CanFaults, flags
<1>3. CASE CanCalibrate
  BY <1>3 DEF CanCalibrate, flags
<1>4. CASE Estop \/ Release
  BY <1>4 DEF Estop, Release, MainMay, joint
<1>5. CASE BeginRelease \/ ScanJoint \/ ForgetWatchdog
  BY <1>5 DEF BeginRelease, ScanJoint, ForgetWatchdog, joint, flags
<1>6. CASE Clear \/ \E j \in Joints : BeginClear(j)
  BY <1>6 DEF Clear, BeginClear, joint, flags
<1>7. CASE UNCHANGED vars
  BY <1>7 DEF vars, joint, flags
<1> QED
  BY <1>1, <1>2, <1>3, <1>4, <1>5, <1>6, <1>7 DEF Next

\* Once the command of a joint is 0 and the tick goes on to the next joint, the
\* joints before that one are those before this one and it.
LEMMA GoesOn ==
    ASSUME TypeOK, NextJoint
    PROVE  \/ /\ tick'.at = "test" /\ tick'.idle = tick.idle /\ UNCHANGED tickOk
              /\ \A j \in Joints : j < tick'.joint => j < tick.joint \/ j = tick.joint
           \/ /\ tick'.at = "idle" /\ tickOk' = ~tick.idle
              /\ \A j \in Joints : j < tick.joint \/ j = tick.joint
<1>1. tick.joint \in 0 .. N - 1 /\ N \in Nat \ {0} /\ Joints = 0 .. N - 1
  BY JointCount DEF TypeOK, Joints
<1>2. CASE tick.joint + 1 < N
  <2>1. tick' = [tick EXCEPT !.at = "test", !.joint = @ + 1, !.torque = 0]
        /\ tickOk' = tickOk
    BY <1>2 DEF NextJoint
  <2>2. tick'.at = "test" /\ tick'.idle = tick.idle /\ tick'.joint = tick.joint + 1
    BY <2>1 DEF TypeOK
  <2> QED
    BY <2>1, <2>2, <1>1
<1>3. CASE ~(tick.joint + 1 < N)
  <2>1. tick' = NoTick /\ tickOk' = ~tick.idle
    BY <1>3 DEF NextJoint
  <2> QED
    BY <2>1, <1>1, <1>3 DEF NoTick
<1> QED
  BY <1>2, <1>3

\* A tick that was late keeps the e-stop to its end and rests every joint.
LEMMA LateStep ==
    TypeOK /\ LateTick /\ LateIsRefused /\ [Next]_vars => LateTick' /\ LateIsRefused'
<1> SUFFICES ASSUME TypeOK, LateTick, LateIsRefused, [Next]_vars
             PROVE  LateTick' /\ LateIsRefused'
  OBVIOUS
<1> USE DEF LateTick, LateIsRefused, Working, Limiting
<1>1. ASSUME NEW overrun \in BOOLEAN, TickMeasure(overrun)
      PROVE  LateTick' /\ LateIsRefused'
  BY <1>1 DEF TickMeasure, NoTick
<1>2. CASE TickStop
  <2>1. tick' = [tick EXCEPT !.at = "test", !.idle = estopActive]
        /\ UNCHANGED <<late, estopActive, cmd>> /\ tick.at = "stop"
    BY <1>2 DEF TickStop, joint, flags
  <2>2. tick'.at = "test" /\ tick'.idle = estopActive /\ tick'.joint = tick.joint
    BY <2>1 DEF TypeOK
  <2>3. \A j \in Joints : ~(j < 0)
    BY JointCount DEF Joints
  <2> QED
    BY <2>1, <2>2, <2>3
<1>3. ASSUME NEW m \in {"IDLE", "TORQUE"}, NEW torque \in Torques, TickTest(m, torque)
      PROVE  LateTick' /\ LateIsRefused'
  <2>1. tick.at = "test" /\ UNCHANGED <<late, estopActive>>
    BY <1>3 DEF TickTest, flags
  <2>2. CASE faulted[tick.joint]
    <3>1. cmd' = [cmd EXCEPT ![tick.joint] = 0] /\ NextJoint
      BY <1>3, <2>2 DEF TickTest
    <3>2. \A j \in Joints : cmd'[j] = IF j = tick.joint THEN 0 ELSE cmd[j]
      BY <3>1 DEF TypeOK
    <3> QED
      BY <2>1, <3>1, <3>2, GoesOn
  <2>3. CASE ~faulted[tick.joint]
    <3>1. tick' = [tick EXCEPT !.at = "lower", !.torque = torque] /\ UNCHANGED cmd
      BY <1>3, <2>3 DEF TickTest
    <3>2. tick'.at = "lower" /\ tick'.idle = tick.idle /\ tick'.joint = tick.joint
          /\ tick'.torque = torque
      BY <3>1 DEF TypeOK
    <3>3. tick.idle => torque = 0
      BY <1>3 DEF TickTest, RestModes
    <3> QED
      BY <2>1, <3>1, <3>2, <3>3
  <2> QED
    BY <2>2, <2>3
<1>4. CASE TickLower \/ TickUpper
  <2>1. UNCHANGED <<late, estopActive, cmd, tickOk>>
    BY <1>4 DEF TickLower, TickUpper, joint, flags
  <2> QED
    BY <1>4, <2>1, Judged
<1>6. CASE TickSend
  <2>1. tick.at = "send" /\ UNCHANGED <<late, estopActive>> /\ NextJoint
        /\ cmd' = [cmd EXCEPT ![tick.joint] = tick.torque]
    BY <1>6 DEF TickSend, flags
  <2>2. \A j \in Joints : tick.idle =>
           cmd'[j] = IF j = tick.joint THEN 0 ELSE cmd[j]
    BY <2>1 DEF TypeOK
  <2> QED
    BY <2>1, <2>2, GoesOn
<1>5. CASE /\ UNCHANGED <<tick, late, cmd, tickOk>>
           /\ estopActive' = estopActive \/ tick.at = "idle"
  BY <1>5
<1> QED
  BY <1>1, <1>2, <1>3, <1>4, <1>5, <1>6, TicksMove

\* A joint with a fault since before the tick is never asked for a torque.
LEMMA FaultyStep ==
    TypeOK /\ LateTick /\ FaultyTick /\ FaultHonoured /\ [Next]_vars
        => FaultyTick' /\ FaultHonoured'
<1> SUFFICES ASSUME TypeOK, LateTick, FaultyTick, FaultHonoured, [Next]_vars
             PROVE  FaultyTick' /\ FaultHonoured'
  OBVIOUS
<1> USE DEF FaultyTick, FaultHonoured, Working, Limiting
<1>1. ASSUME NEW overrun \in BOOLEAN, TickMeasure(overrun)
      PROVE  FaultyTick' /\ FaultHonoured'
  BY <1>1 DEF TickMeasure, NoTick, FaultyNow, joint
<1>2. CASE TickStop
  <2>1. tick' = [tick EXCEPT !.at = "test", !.idle = estopActive]
        /\ UNCHANGED <<faulted, ill, cmd>> /\ tick.at = "stop"
    BY <1>2 DEF TickStop, joint
  <2>2. tick'.at = "test" /\ tick'.joint = tick.joint
    BY <2>1 DEF TypeOK
  <2>3. \A j \in ill : ~(j < tick.joint)
    BY <2>1, JointCount DEF LateTick, TypeOK, Joints
  <2> QED
    BY <2>1, <2>2, <2>3
<1>3. ASSUME NEW m \in {"IDLE", "TORQUE"}, NEW torque \in Torques, TickTest(m, torque)
      PROVE  FaultyTick' /\ FaultHonoured'
  <2>1. tick.at = "test" /\ UNCHANGED <<faulted, ill>>
    BY <1>3 DEF TickTest
  <2>2. CASE faulted[tick.joint]
    <3>1. cmd' = [cmd EXCEPT ![tick.joint] = 0] /\ NextJoint
      BY <1>3, <2>2 DEF TickTest
    <3>2. \A j \in ill : j \in Joints /\ cmd'[j] = IF j = tick.joint THEN 0 ELSE cmd[j]
      BY <3>1 DEF TypeOK
    <3> QED
      BY <2>1, <3>1, <3>2, GoesOn
  <2>3. CASE ~faulted[tick.joint]
    <3>1. tick' = [tick EXCEPT !.at = "lower", !.torque = torque] /\ UNCHANGED cmd
      BY <1>3, <2>3 DEF TickTest
    <3>2. tick'.at = "lower" /\ tick'.joint = tick.joint
      BY <3>1 DEF TypeOK
    <3> QED
      BY <2>1, <2>3, <3>1, <3>2
  <2> QED
    BY <2>2, <2>3
<1>4. CASE TickLower \/ TickUpper
  <2>1. UNCHANGED <<faulted, ill, cmd>>
    BY <1>4 DEF TickLower, TickUpper, joint
  <2> QED
    BY <1>4, <2>1, Judged
<1>7. CASE TickSend
  <2>1. tick.at = "send" /\ UNCHANGED <<faulted, ill>> /\ NextJoint
        /\ cmd' = [cmd EXCEPT ![tick.joint] = tick.torque]
    BY <1>7 DEF TickSend
  <2>2. \A j \in ill : j \in Joints /\ j # tick.joint /\ cmd'[j] = cmd[j]
    BY <2>1 DEF TypeOK
  <2> QED
    BY <2>1, <2>2, GoesOn
<1>5. CASE UNCHANGED <<tick, cmd>> /\ CanFaults
  BY <1>5 DEF CanFaults, TypeOK
<1>6. CASE UNCHANGED <<tick, cmd, faulted, ill>>
  BY <1>6
<1> QED
  BY <1>1, <1>2, <1>3, <1>4, <1>5, <1>6, <1>7, TicksMove

\* Where a joint is, and how long it has been there, changes with a frame and at
\* the start of a tick.
LEMMA PlacesMove ==
    ASSUME [Next]_vars
    PROVE  \/ \E j \in Joints, raw \in Sides, calibrated \in Sides, fault \in BOOLEAN :
                 CanPosition(j, raw, calibrated, fault)
           \/ \E overrun \in BOOLEAN : TickMeasure(overrun)
           \/ UNCHANGED <<truth, beyond>>
BY DEF Next, vars, CanFaults, CanCalibrate, TickStop, TickTest, TickLower, TickUpper,
       TickSend, Estop, BeginRelease, ScanJoint, Release, ForgetWatchdog, BeginClear, Clear

\* A tick that the CAN interrupt outranks reads positions that are calibrated,
\* so that a joint that has stayed past a limit is turned at that limit.
LEMMA LimitStep ==
    ASSUME ~TimerFirst, TypeOK, Calibrated, LateTick, LimitTick, PushesInward, [Next]_vars
    PROVE  LimitTick' /\ PushesInward'
<1> USE DEF LimitTick, PushesInward, Inward, Working, Limiting
<1>1. ASSUME NEW j \in Joints, NEW raw \in Sides, NEW calibrated \in Sides,
             NEW fault \in BOOLEAN, CanPosition(j, raw, calibrated, fault)
      PROVE  LimitTick' /\ PushesInward'
  <2>1. UNCHANGED <<tick, cmd>>
    BY <1>1 DEF CanPosition
  <2>2. \A k \in Joints : beyond'[k] = 0 \/ (beyond'[k] = beyond[k] /\ beyond'[k] = truth'[k])
    <3>1. truth' = [truth EXCEPT ![j] = calibrated]
          /\ beyond' = [beyond EXCEPT ![j] = IF calibrated = @ THEN @ ELSE 0]
      BY <1>1 DEF CanPosition
    <3>2. \A k \in Joints :
             /\ truth'[k] = IF k = j THEN calibrated ELSE truth[k]
             /\ beyond'[k] = IF k = j THEN (IF calibrated = beyond[j] THEN beyond[j] ELSE 0)
                             ELSE beyond[k]
      BY <3>1 DEF TypeOK
    <3> QED
      BY <3>2
  <2>3. tick.joint \in Joints
    BY DEF TypeOK
  <2> QED
    BY <2>1, <2>2, <2>3
<1>2. ASSUME NEW overrun \in BOOLEAN, TickMeasure(overrun)
      PROVE  LimitTick' /\ PushesInward'
  BY <1>2 DEF TickMeasure, NoTick
<1>3. CASE TickStop
  <2>1. tick.at = "stop" /\ tick'.at = "test" /\ tick'.joint = tick.joint
    BY <1>3 DEF TickStop, TypeOK
  <2>2. UNCHANGED <<truth, beyond, cmd>>
    BY <1>3 DEF TickStop, joint
  <2>3. \A j \in Joints : ~(j < tick.joint)
    BY <2>1, JointCount DEF LateTick, Joints
  <2> QED
    BY <2>1, <2>2, <2>3
<1>4. ASSUME NEW m \in {"IDLE", "TORQUE"}, NEW torque \in Torques, TickTest(m, torque)
      PROVE  LimitTick' /\ PushesInward'
  <2>1. tick.at = "test" /\ UNCHANGED <<truth, beyond>>
    BY <1>4 DEF TickTest
  <2>2. CASE faulted[tick.joint]
    <3>1. cmd' = [cmd EXCEPT ![tick.joint] = 0] /\ NextJoint
      BY <1>4, <2>2 DEF TickTest
    <3>2. \A j \in Joints : cmd'[j] = IF j = tick.joint THEN 0 ELSE cmd[j]
      BY <3>1 DEF TypeOK
    <3> QED
      BY <2>1, <3>1, <3>2, GoesOn
  <2>3. CASE ~faulted[tick.joint]
    <3>1. tick' = [tick EXCEPT !.at = "lower", !.torque = torque] /\ UNCHANGED cmd
      BY <1>4, <2>3 DEF TickTest
    <3>2. tick'.at = "lower" /\ tick'.joint = tick.joint
      BY <3>1 DEF TypeOK
    <3> QED
      BY <2>1, <3>1, <3>2
  <2> QED
    BY <2>2, <2>3
<1>5. CASE TickLower \/ TickUpper
  <2>1. UNCHANGED <<truth, beyond, cmd>>
    BY <1>5 DEF TickLower, TickUpper, joint
  <2>2. side[tick.joint] = truth[tick.joint] /\ tick.joint \in Joints
    BY <1>5 DEF TickLower, TickUpper, TickMay, Calibrated, TypeOK
  <2>3. tick.torque \in Signs /\ Fabs(tick.torque) >= 0 /\ -Fabs(tick.torque) <= 0
    BY DEF TypeOK, Fabs, Signs
  <2>4. CASE TickLower /\ side[tick.joint] = -1
    <3>1. tick' = [tick EXCEPT !.at = "send", !.torque = Fabs(@)]
      BY <2>4 DEF TickLower
    <3>2. tick'.at = "send" /\ tick'.torque = Fabs(tick.torque) /\ tick'.joint = tick.joint
      BY <3>1 DEF TypeOK
    <3>3. beyond[tick.joint] = 0 \/ beyond[tick.joint] = -1
      BY <2>2, <2>4
    <3> QED
      BY <1>5, <2>1, <2>2, <2>3, <3>2, <3>3, Judged
  <2>5. CASE TickLower /\ side[tick.joint] # -1
    <3>1. tick' = [tick EXCEPT !.at = "upper"]
      BY <2>5 DEF TickLower
    <3>2. tick'.at = "upper" /\ tick'.joint = tick.joint
      BY <3>1 DEF TypeOK
    <3> QED
      BY <1>5, <2>1, <2>2, <2>5, <3>2, Judged
  <2>6. CASE TickUpper
    <3>1. tick' = [tick EXCEPT !.at = "send",
                     !.torque = IF side[tick.joint] = 1 THEN -Fabs(@) ELSE @]
          /\ tick.at = "upper"
      BY <2>6 DEF TickUpper
    <3>2. tick'.at = "send" /\ tick'.joint = tick.joint
          /\ (side[tick.joint] = 1 => tick'.torque = -Fabs(tick.torque))
      BY <3>1 DEF TypeOK
    <3>3. beyond[tick.joint] # -1
      BY <3>1
    <3>4. beyond[tick.joint] = 1 => side[tick.joint] = 1
      BY <2>2
    <3> QED
      BY <1>5, <2>1, <2>2, <2>3, <3>2, <3>3, <3>4, Judged
  <2> QED
    BY <1>5, <2>4, <2>5, <2>6
<1>6. CASE TickSend
  <2>1. tick.at = "send" /\ UNCHANGED <<truth, beyond>> /\ NextJoint
        /\ cmd' = [cmd EXCEPT ![tick.joint] = tick.torque]
    BY <1>6 DEF TickSend
  <2>2. \A j \in Joints : cmd'[j] = IF j = tick.joint THEN tick.torque ELSE cmd[j]
    BY <2>1 DEF TypeOK
  <2> QED
    BY <2>1, <2>2, GoesOn
<1>7. CASE UNCHANGED <<tick, cmd, truth, beyond>>
  BY <1>7
<1> QED
  BY <1>1, <1>2, <1>3, <1>4, <1>5, <1>6, <1>7, TicksMove, PlacesMove

-----------------------------------------------------------------------------
(* The main loop *)

\* What a release goes by changes by its own pieces, and by a frame that ends a
\* fault.
LEMMA ReleasesMove ==
    ASSUME TypeOK, [Next]_vars
    PROVE  \/ BeginRelease
           \/ ScanJoint
           \/ /\ UNCHANGED main \/ main'.at \notin {"scan", "release"}
              /\ CanFaults \/ UNCHANGED <<faulted, stuck>>
<1>1. ASSUME NEW j \in Joints, NEW raw \in Sides, NEW calibrated \in Sides,
             NEW fault \in BOOLEAN, CanPosition(j, raw, calibrated, fault)
      PROVE  UNCHANGED <<main, faulted, stuck>>
  BY <1>1 DEF CanPosition
<1>2. CASE CanFaults
  BY <1>2 DEF CanFaults
<1>3. CASE CanCalibrate
  BY <1>3 DEF CanCalibrate
<1>4. ASSUME NEW overrun \in BOOLEAN, TickMeasure(overrun)
      PROVE  UNCHANGED <<main, faulted, stuck>>
  BY <1>4 DEF TickMeasure, joint
<1>5. CASE TickStop \/ TickLower \/ TickUpper \/ TickSend \/ Estop
  BY <1>5 DEF TickStop, TickLower, TickUpper, TickSend, Estop, joint
<1>6. ASSUME NEW m \in {"IDLE", "TORQUE"}, NEW torque \in Torques, TickTest(m, torque)
      PROVE  UNCHANGED <<main, faulted, stuck>>
  BY <1>6 DEF TickTest
<1>7. CASE Release \/ ForgetWatchdog \/ Clear
  BY <1>7 DEF Release, ForgetWatchdog, Clear, NoCall, TypeOK, joint
<1>8. ASSUME NEW j \in Joints, BeginClear(j)
      PROVE  main'.at = "clear" /\ UNCHANGED <<faulted, stuck>>
  BY <1>8 DEF BeginClear, joint
<1>9. CASE UNCHANGED vars
  BY <1>9 DEF vars, joint
<1> QED
  BY <1>1, <1>2, <1>3, <1>4, <1>5, <1>6, <1>7, <1>8, <1>9 DEF Next

\* A release looks at the joints in their order and goes on past a sound one.
LEMMA ScannedStep == TypeOK /\ Scanned /\ [Next]_vars => Scanned'
<1> SUFFICES ASSUME TypeOK, Scanned, [Next]_vars PROVE Scanned'
  OBVIOUS
<1> USE DEF Scanned
<1>1. CASE BeginRelease
  <2>1. \A j \in FaultyNow : faulted[j] /\ 0 <= j
    BY JointCount DEF FaultyNow, Joints
  <2> QED
    BY <1>1, <2>1 DEF BeginRelease, joint
<1>2. CASE ScanJoint
  <2>1. UNCHANGED <<faulted, stuck>> /\ main.at = "scan"
    BY <1>2 DEF ScanJoint, joint
  <2>2. CASE faulted[main.joint]
    BY <1>2, <2>1, <2>2 DEF ScanJoint, NoCall
  <2>3. CASE ~faulted[main.joint]
    <3>1. \A j \in stuck : j \in 0 .. N - 1 /\ main.joint + 1 <= j
      BY <2>1, <2>3, JointCount DEF TypeOK, Joints
    <3>2. CASE main.joint + 1 < N
      <4>1. main' = [main EXCEPT !.joint = @ + 1]
        BY <1>2, <2>3, <3>2 DEF ScanJoint
      <4>2. main'.at = "scan" /\ main'.joint = main.joint + 1
        BY <2>1, <4>1 DEF TypeOK
      <4> QED
        BY <2>1, <3>1, <4>2
    <3>3. CASE ~(main.joint + 1 < N)
      <4>1. main' = [main EXCEPT !.at = "release"]
        BY <1>2, <2>3, <3>3 DEF ScanJoint
      <4>2. main'.at = "release"
        BY <4>1 DEF TypeOK
      <4>3. stuck = {}
        BY <3>1, <3>3, JointCount DEF TypeOK, Joints
      <4> QED
        BY <2>1, <4>2, <4>3
    <3> QED
      BY <3>2, <3>3
  <2> QED
    BY <2>2, <2>3
<1>3. CASE CanFaults
  BY <1>3 DEF CanFaults, TypeOK
<1>4. CASE /\ UNCHANGED main \/ main'.at \notin {"scan", "release"}
           /\ UNCHANGED <<faulted, stuck>>
  BY <1>4
<1> QED
  BY <1>1, <1>2, <1>3, <1>4, ReleasesMove

-----------------------------------------------------------------------------
(* The theorems *)

\* Every piece of every call keeps the invariant.
LEMMA StepInv == Inv /\ [Next]_vars => Inv'
<1> SUFFICES ASSUME Inv, [Next]_vars PROVE Inv'
  OBVIOUS
<1>1. TypeOK' /\ Calibrated' /\ Scanned'
  BY TypeStep, CalibratedStep, ScannedStep DEF Inv
<1>2. LateTick' /\ LateIsRefused' /\ FaultyTick' /\ FaultHonoured'
  BY LateStep, FaultyStep DEF Inv
<1> QED
  BY <1>1, <1>2 DEF Inv

\* Whatever preempts what, the three contexts keep to the inductive invariant.
THEOREM InvHolds == Spec => []Inv
BY InitInv, StepInv, PTL DEF Spec

\* A tick that measured an overrun is refused and leaves every joint at rest,
\* whatever frames come in while it runs and however many joints there are
\* (arm_controller.cpp:54-66).
THEOREM LateIsRefusedTheorem == Spec => []LateIsRefused
<1>1. Inv => LateIsRefused
  BY DEF Inv
<1> QED
  BY <1>1, InvHolds, PTL

\* A joint with a fault since before the tick is without torque after it
\* (joint_controller.cpp:75-81).
THEOREM FaultHonouredTheorem == Spec => []FaultHonoured
<1>1. Inv => FaultHonoured
  BY DEF Inv
<1> QED
  BY <1>1, InvHolds, PTL

\* Where the CAN interrupt outranks tick(), what the soft limits rest on holds as
\* well.
LEMMA LimitInvHolds == ASSUME ~TimerFirst PROVE Spec => []LimitInv
<1>1. Init => LimitInv
  <2>1. ASSUME Init PROVE LimitTick /\ PushesInward
    BY <2>1 DEF Init, LimitTick, PushesInward, Inward, NoTick, Working, Limiting
  <2> QED
    BY <2>1, InitInv DEF LimitInv
<1>2. LimitInv /\ [Next]_vars => LimitInv'
  BY StepInv, LimitStep DEF LimitInv, Inv
<1> QED
  BY <1>1, <1>2, PTL DEF Spec

\* A joint that every frame since before the tick has put past the same soft
\* limit is not driven further out by it, where the CAN interrupt outranks
\* tick() (joint_controller.cpp:56-66, 120-126).
THEOREM PushesInwardTheorem == ASSUME ~TimerFirst PROVE Spec => []PushesInward
<1>1. LimitInv => PushesInward
  BY DEF LimitInv
<1> QED
  BY <1>1, LimitInvHolds, PTL

\* A release misses only faults that came while it was looking
\* (arm_controller.cpp:81-91).
THEOREM ReleaseSeesOldFaultsTheorem == Spec => ReleaseSeesOldFaults
<1> DEFINE Sees == estopActive /\ ~estopActive' => stuck = {}
<1>1. Inv /\ [Next]_vars => [Sees]_vars
  <2> SUFFICES ASSUME Inv, Next, estopActive, ~estopActive' PROVE stuck = {}
    OBVIOUS
  <2>1. Release
    BY DEF Next, joint, flags, CanPosition, CanFaults, CanCalibrate, TickMeasure, TickStop,
       TickTest, TickLower, TickUpper, TickSend, Estop, BeginRelease, ScanJoint,
       ForgetWatchdog, BeginClear, Clear
  <2> QED
    BY <2>1 DEF Release, Inv, Scanned
<1> QED
  BY <1>1, InvHolds, PTL DEF Spec, ReleaseSeesOldFaults
=============================================================================
