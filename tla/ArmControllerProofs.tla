------------------------ MODULE ArmControllerProofs ------------------------
(***************************************************************************)
(* The safety rules of the arm controller for any set of joints, any clock  *)
(* width and any watchdog limit.                                            *)
(***************************************************************************)
EXTENDS ArmController, TLAPS

(* Joints: what one call leaves in the record of the joint it is made on. *)

\* A tick keeps the record well formed, whatever mode and torque it is given.
LEMMA AfterTickType ==
    ASSUME NEW jt \in Joint, NEW mode \in Modes, NEW torque \in Signs, NEW dt \in Int
    PROVE  AfterTick(jt, mode, torque, dt) \in Joint
<1> DEFINE t == Requested(jt, mode, torque, dt)
<1>1. t \in Signs
  BY DEF Requested, Signs
<1>2. Restrain(jt.side, t) \in Signs
  BY <1>1 DEF Restrain, Fabs, Signs, Joint
<1>3. RanAfter(jt, mode, dt) \in BOOLEAN
  BY DEF RanAfter, Joint
<1>4. "FAULT" \in Modes /\ 0 \in Signs
  BY DEF Modes, Signs
<1> HIDE DEF t
<1> QED
  BY <1>2, <1>3, <1>4 DEF AfterTick, Joint, t

\* The default setpoint of the e-stop path leaves the joint unpowered.
LEMMA AfterIdleTick ==
    ASSUME NEW jt \in Joint, NEW dt \in Int
    PROVE  /\ AfterTick(jt, "IDLE", 0, dt).cmd = 0
           /\ AfterTick(jt, "IDLE", 0, dt).mode \in RestModes
<1>1. Requested(jt, "IDLE", 0, dt) = 0
  BY DEF Requested
<1>2. \A side \in Signs : Restrain(side, 0) = 0
  <2>1. Fabs(0) = 0
    BY DEF Fabs
  <2> QED
    BY <2>1 DEF Restrain
<1>3. Restrain(jt.side, Requested(jt, "IDLE", 0, dt)) = 0
  BY <1>1, <1>2 DEF Joint
<1> QED
  BY <1>3 DEF AfterTick, RestModes, Joint

\* A joint a tick leaves idle has reset PIDs.
LEMMA IdleTickResets ==
    ASSUME NEW jt \in Joint, NEW mode, NEW torque, NEW dt,
           AfterTick(jt, mode, torque, dt).mode = "IDLE"
    PROVE  ~AfterTick(jt, mode, torque, dt).ran
BY DEF AfterTick, RanAfter, RestModes, Joint

\* A tick does not change what the feedback said.
LEMMA TickKeepsFeedback ==
    ASSUME NEW jt \in Joint, NEW mode, NEW torque, NEW dt
    PROVE  /\ AfterTick(jt, mode, torque, dt).faulted = jt.faulted
           /\ jt.faulted => AfterTick(jt, mode, torque, dt).cmd = 0
BY DEF AfterTick, Joint

\* A feedback frame changes neither the command, the mode nor the PIDs.
LEMMA FeedbackKeepsCommand ==
    ASSUME NEW jt \in Joint, NEW faulted \in BOOLEAN, NEW side \in Signs
    PROVE  /\ AfterFeedback(jt, faulted, side) \in Joint
           /\ AfterFeedback(jt, faulted, side).faulted = faulted
           /\ AfterFeedback(jt, faulted, side).cmd = jt.cmd
           /\ AfterFeedback(jt, faulted, side).mode = jt.mode
           /\ AfterFeedback(jt, faulted, side).ran = jt.ran
BY DEF AfterFeedback, Joint

\* Clearing a fault leaves command and faults alone, and a mode it sets is IDLE
\* with reset PIDs.
LEMMA ClearKeepsCommand ==
    ASSUME NEW jt \in Joint
    PROVE  /\ AfterClear(jt) \in Joint
           /\ AfterClear(jt).faulted = jt.faulted
           /\ AfterClear(jt).cmd = jt.cmd
           /\ AfterClear(jt).mode \in {jt.mode, "IDLE"}
           /\ AfterClear(jt).mode = "IDLE" => ~AfterClear(jt).ran \/ AfterClear(jt) = jt
BY DEF AfterClear, Joint, Modes

-----------------------------------------------------------------------------
(* The inductive invariant *)

\* What tick() computes is the time since the last one, short of a whole wrap.
ClockInv == lapsed < WRAP => UintSub(now, lastTickUs) = lapsed

Inv ==
    /\ TypeOK
    /\ ClockInv
    /\ QuietWhenStopped
    /\ IdleIsReset
    /\ WatchdogImpliesEstop

\* The invariant holds after the constructor.
LEMMA InitInv == Init => Inv
<1> SUFFICES ASSUME Init PROVE Inv
  OBVIOUS
<1> USE ClockAssumption, JointsAssumption
<1>1. \A side \in Sides : NewJoint(side) \in Joint
  BY DEF NewJoint, Joint, Modes, Signs
<1>2. joints \in [Joints -> Joint]
  BY <1>1 DEF Init
<1>3. \A j \in Joints : ~joints[j].ran
  BY DEF Init, NewJoint
<1>4. TypeOK
  <2>1. estopActive \in BOOLEAN /\ watchdogExpired \in BOOLEAN /\ tickOk \in BOOLEAN
    BY Zenon DEF Init
  <2>2. lapsed \in 0 .. WRAP
    BY DEF Init
  <2>3. now \in 0 .. WRAP - 1 /\ lastTickUs \in 0 .. WRAP - 1
    BY DEF Init
  <2> QED
    BY <1>2, <2>1, <2>2, <2>3 DEF TypeOK
<1>5. ClockInv
  BY DEF Init, ClockInv, UintSub
<1>6. QuietWhenStopped /\ IdleIsReset /\ WatchdogImpliesEstop
  BY <1>3 DEF Init, QuietWhenStopped, IdleIsReset, WatchdogImpliesEstop
<1> QED
  BY <1>4, <1>5, <1>6 DEF Inv

\* The elapsed time is a number.
LEMMA ElapsedType == TypeOK => ElapsedUs \in Int
BY ClockAssumption DEF TypeOK, ElapsedUs, UintSub

\* The part of the invariant the first half of tick() is answerable for.
LEMMA MeasureInv ==
    ASSUME Inv, Measure
    PROVE  /\ estopActive' \in BOOLEAN /\ watchdogExpired' \in BOOLEAN
           /\ lastTickUs' \in 0 .. WRAP - 1 /\ now' \in 0 .. WRAP - 1
           /\ lapsed' \in 0 .. WRAP
           /\ ClockInv'
           /\ WatchdogImpliesEstop'
BY ClockAssumption
   DEF Inv, Measure, TypeOK, ClockInv, UintSub, WatchdogImpliesEstop, Overrun

\* Every call preserves the invariant: one step per action of Next.
LEMMA StepInv == Inv /\ [Next]_vars => Inv'
<1> SUFFICES ASSUME Inv, [Next]_vars PROVE Inv'
  OBVIOUS
<1> USE ClockAssumption, JointsAssumption
<1>1. CASE TimePasses
  BY <1>1 DEF TimePasses, NextMicros, Inv, TypeOK, ClockInv, UintSub,
     QuietWhenStopped, IdleIsReset, WatchdogImpliesEstop
<1>2. CASE TickStopped
  <2>1. \A j \in Joints : joints'[j] = AfterTick(joints[j], "IDLE", 0, ElapsedUs)
    BY <1>2 DEF TickStopped
  <2>2. joints' \in [Joints -> Joint]
    BY <1>2, AfterTickType, ElapsedType
       DEF TickStopped, Inv, TypeOK, Modes, Signs
  <2>3. QuietWhenStopped' /\ IdleIsReset'
    BY <2>1, AfterIdleTick, IdleTickResets, ElapsedType
       DEF QuietWhenStopped, IdleIsReset, Inv, TypeOK
  <2> QED
    BY <1>2, <2>2, <2>3, MeasureInv DEF TickStopped, Inv, TypeOK
<1>3. CASE TickRunning
  <2>1. PICK mode \in [Joints -> SetpointModes], torque \in [Joints -> Torques] :
          joints' = [j \in Joints |->
                        AfterTick(joints[j], mode[j], torque[j], ElapsedUs)]
    BY <1>3 DEF TickRunning
  <2>2. joints' \in [Joints -> Joint]
    BY <2>1, AfterTickType, ElapsedType DEF Inv, TypeOK
  <2>3. IdleIsReset'
    BY <2>1, IdleTickResets DEF IdleIsReset, Inv, TypeOK
  <2>4. QuietWhenStopped' /\ tickOk' \in BOOLEAN
    BY <1>3 DEF TickRunning, QuietWhenStopped
  <2> QED
    BY <1>3, <2>2, <2>3, <2>4, MeasureInv DEF TickRunning, Inv, TypeOK
<1>4. CASE \E id \in Joints \cup {UnknownId}, dlc \in {7, 8},
              faulted \in BOOLEAN, side \in Sides :
              IngestCanFrame(id, dlc, faulted, side)
  <2>1. PICK id \in Joints \cup {UnknownId}, dlc \in {7, 8},
             faulted \in BOOLEAN, side \in Sides :
             IngestCanFrame(id, dlc, faulted, side)
    BY <1>4
  <2>2. \A j \in Joints : joints'[j] \in {joints[j], AfterFeedback(joints[j], faulted, side)}
    BY <2>1 DEF IngestCanFrame
  <2>3. \A j \in Joints : /\ joints'[j] \in Joint
                          /\ joints'[j].cmd = joints[j].cmd
                          /\ joints'[j].mode = joints[j].mode
                          /\ joints'[j].ran = joints[j].ran
    BY <2>2, FeedbackKeepsCommand DEF Inv, TypeOK
  <2>4. joints' \in [Joints -> Joint]
    BY <2>1, <2>3 DEF IngestCanFrame
  <2> QED
    BY <2>1, <2>3, <2>4 DEF IngestCanFrame, Inv, TypeOK, ClockInv, UintSub,
       QuietWhenStopped, IdleIsReset, WatchdogImpliesEstop
<1>5. CASE Estop
  BY <1>5 DEF Estop, Inv, TypeOK, ClockInv, UintSub,
     QuietWhenStopped, IdleIsReset, WatchdogImpliesEstop
<1>6. CASE ReleaseEstop
  BY <1>6 DEF ReleaseEstop, Inv, TypeOK, ClockInv, UintSub,
     QuietWhenStopped, IdleIsReset, WatchdogImpliesEstop
<1>7. CASE \E id \in Joints \cup {UnknownId} : ClearJointFault(id)
  <2>1. PICK id \in Joints : ClearJointFault(id)
    BY <1>7 DEF ClearJointFault
  <2>2. \A j \in Joints : joints'[j] \in {joints[j], AfterClear(joints[j])}
    BY <2>1 DEF ClearJointFault, Inv, TypeOK
  <2>3. \A j \in Joints : /\ joints'[j] \in Joint
                          /\ joints'[j].cmd = joints[j].cmd
                          /\ joints'[j].mode \in {joints[j].mode, "IDLE"}
    BY <2>2, ClearKeepsCommand DEF Inv, TypeOK
  <2>4. joints' \in [Joints -> Joint]
    BY <2>1, <2>3 DEF ClearJointFault, Inv, TypeOK
  <2>5. IdleIsReset'
    BY <2>2, ClearKeepsCommand DEF IdleIsReset, Inv, TypeOK
  <2>6. QuietWhenStopped'
    BY <2>1, <2>3 DEF QuietWhenStopped, ClearJointFault, Inv, RestModes
  <2> QED
    BY <2>1, <2>4, <2>5, <2>6 DEF ClearJointFault, Inv, TypeOK, ClockInv, UintSub,
       WatchdogImpliesEstop
<1>8. CASE UNCHANGED vars
  BY <1>8 DEF vars, Inv, TypeOK, ClockInv, UintSub,
     QuietWhenStopped, IdleIsReset, WatchdogImpliesEstop
<1> QED
  BY <1>1, <1>2, <1>3, <1>4, <1>5, <1>6, <1>7, <1>8 DEF Next

\* The inductive invariant of the arm controller: types, the elapsed time and the
\* three rules that hold in every state (arm_controller.cpp:46-96).
THEOREM InvHolds == Spec => []Inv
BY InitInv, StepInv, PTL DEF Spec

\* Every variable keeps its type; in particular the clock and the time of the
\* last tick stay within the clock's width (arm_controller.cpp:46-52).
THEOREM TypeCorrect == Spec => []TypeOK
<1>1. Inv => TypeOK
  BY DEF Inv
<1> QED
  BY <1>1, InvHolds, PTL

\* After a tick() that returned false no joint is driven until one returns
\* true (arm_controller.cpp:60-66).
THEOREM QuietTheorem == Spec => []QuietWhenStopped
<1>1. Inv => QuietWhenStopped
  BY DEF Inv
<1> QED
  BY <1>1, InvHolds, PTL

\* An idle joint's PIDs are reset (joint_controller.cpp:106-113, 146-152).
THEOREM IdleResetTheorem == Spec => []IdleIsReset
<1>1. Inv => IdleIsReset
  BY DEF Inv
<1> QED
  BY <1>1, InvHolds, PTL

\* The watchdog's flag is shown with the e-stop (arm_controller.cpp:55-58).
THEOREM WatchdogTheorem == Spec => []WatchdogImpliesEstop
<1>1. Inv => WatchdogImpliesEstop
  BY DEF Inv
<1> QED
  BY <1>1, InvHolds, PTL

-----------------------------------------------------------------------------
(* What a single step may not do *)

\* Only tick() starts the history of the elapsed time anew.
LEMMA TickedMeasures ==
    ASSUME Inv, Next, Ticked
    PROVE  /\ Measure
           /\ tickOk' = ~Stopped
<1>1. lapsed \in 0 .. WRAP /\ WRAP \in Nat /\ WRAP > 0
  BY ClockAssumption DEF Inv, TypeOK
<1>2. ~TimePasses
  BY <1>1 DEF TimePasses, Ticked
<1>3. TickStopped \/ TickRunning
  BY <1>1, <1>2 DEF Next, Ticked, IngestCanFrame, Estop, ReleaseEstop, ClearJointFault
<1>4. CASE TickStopped
  <2>1. Measure /\ Stopped /\ tickOk' = FALSE
    BY <1>4 DEF TickStopped
  <2> QED
    BY <2>1
<1>5. CASE TickRunning
  <2>1. Measure /\ ~Stopped /\ tickOk' = TRUE
    BY <1>5 DEF TickRunning
  <2> QED
    BY <2>1
<1> QED
  BY <1>3, <1>4, <1>5

\* For every width of the clock and every limit below it the watchdog refuses
\* exactly the late ticks, as long as less than a whole wrap has gone by
\* (arm_controller.cpp:47-58).
THEOREM WatchdogExactTheorem == Spec => WatchdogExact
<1> DEFINE Exact == Ticked /\ lapsed < WRAP /\ ~estopActive =>
          (tickOk' <=> lapsed <= WATCHDOG_US) /\ (estopActive' <=> ~tickOk')
<1>1. Inv /\ [Next]_vars => [Exact]_vars
  <2> SUFFICES ASSUME Inv, Next, Ticked, lapsed < WRAP, ~estopActive
               PROVE  /\ tickOk' <=> lapsed <= WATCHDOG_US
                      /\ estopActive' <=> ~tickOk'
    OBVIOUS
  <2>1. Measure /\ tickOk' = ~Stopped
    BY TickedMeasures
  <2>2. ElapsedUs = lapsed
    BY DEF Inv, ClockInv, ElapsedUs
  <2>3. lapsed \in Int /\ WATCHDOG_US \in Int
    BY ClockAssumption DEF Inv, TypeOK
  <2>4. Overrun <=> ~(lapsed <= WATCHDOG_US)
    BY <2>2, <2>3 DEF Overrun
  <2>5. estopActive' <=> Overrun
    BY <2>1 DEF Measure
  <2>6. tickOk' <=> ~Overrun
    BY <2>1 DEF Stopped
  <2> QED
    BY <2>4, <2>5, <2>6
<1> QED
  BY <1>1, InvHolds, PTL DEF Spec, WatchdogExact

-----------------------------------------------------------------------------
(* The controller implements ArmSafety *)

\* Every step of the controller, whatever joints it has, is a step of the
\* safety rules or changes nothing they speak of (arm_controller.hpp:14-16).
THEOREM ImplementsArmSafetyTheorem == Spec => ImplementsArmSafety
<1>1. Init => Safety!Init
  BY DEF Init, NewJoint, Safety!Init, FaultyJoints, MovingJoints
<1>2. Inv /\ [Next]_vars => [Safety!Next]_Safety!vars
  <2> SUFFICES ASSUME Inv, [Next]_vars
               PROVE  Safety!Next \/ UNCHANGED Safety!vars
    OBVIOUS
  <2> USE DEF FaultyJoints, MovingJoints
  <2>1. joints \in [Joints -> Joint] /\ estopActive \in BOOLEAN
    BY DEF Inv, TypeOK
  <2>2. CASE TimePasses
    BY <2>2 DEF TimePasses, Safety!vars
  <2>3. CASE TickStopped
    <3>1. \A j \in Joints : joints'[j] = AfterTick(joints[j], "IDLE", 0, ElapsedUs)
      BY <2>3 DEF TickStopped
    <3>2. \A j \in Joints : joints'[j].cmd = 0 /\ joints'[j].faulted = joints[j].faulted
      BY <2>1, <3>1, AfterIdleTick, TickKeepsFeedback, ElapsedType DEF Inv
    <3>3. FaultyJoints' = FaultyJoints /\ MovingJoints' = {}
      BY <3>2
    <3>4. estopActive' = TRUE
      BY <2>3 DEF TickStopped, Measure, Stopped
    <3> QED
      BY <3>3, <3>4 DEF Safety!Next, Safety!Halt
  <2>4. CASE TickRunning
    <3>1. PICK mode \in [Joints -> SetpointModes], torque \in [Joints -> Torques] :
            joints' = [j \in Joints |->
                          AfterTick(joints[j], mode[j], torque[j], ElapsedUs)]
      BY <2>4 DEF TickRunning
    <3>2. \A j \in Joints : /\ joints'[j].faulted = joints[j].faulted
                            /\ joints[j].faulted => joints'[j].cmd = 0
      BY <2>1, <3>1, TickKeepsFeedback
    <3>3. FaultyJoints' = FaultyJoints /\ MovingJoints' \in SUBSET (Joints \ FaultyJoints)
      BY <3>2
    <3>4. ~estopActive /\ estopActive' = estopActive
      BY <2>1, <2>4 DEF TickRunning, Measure, Stopped
    <3> QED
      BY <3>3, <3>4 DEF Safety!Next, Safety!Drive
  <2>5. ASSUME NEW id \in Joints \cup {UnknownId}, NEW dlc \in {7, 8},
               NEW faulted \in BOOLEAN, NEW side \in Sides,
               IngestCanFrame(id, dlc, faulted, side)
        PROVE  Safety!Next \/ UNCHANGED Safety!vars
    <3>1. estopActive' = estopActive
      BY <2>5 DEF IngestCanFrame
    <3>2. \A j \in Joints : joints'[j] = IF Accepts(j, id, dlc)
                                         THEN AfterFeedback(joints[j], faulted, side)
                                         ELSE joints[j]
      BY <2>5 DEF IngestCanFrame
    <3>3. \A j \in Joints : /\ joints'[j].cmd = joints[j].cmd
                            /\ joints'[j].faulted = IF Accepts(j, id, dlc)
                                                    THEN faulted ELSE joints[j].faulted
      BY <2>1, <3>2, FeedbackKeepsCommand, JointsAssumption
    <3>4. MovingJoints' = MovingJoints
      BY <3>3
    <3>5. CASE id \in Joints /\ dlc >= 8
      <4>1. \A j \in Joints : joints'[j].faulted = IF j = id THEN faulted ELSE joints[j].faulted
        BY <3>3, <3>5 DEF Accepts
      <4>2. FaultyJoints' \in {FaultyJoints \cup {id}, FaultyJoints \ {id}}
        BY <3>5, <4>1
      <4> QED
        BY <3>1, <3>4, <3>5, <4>2 DEF Safety!Next, Safety!Report
    <3>6. CASE ~(id \in Joints /\ dlc >= 8)
      <4>1. \A j \in Joints : joints'[j].faulted = joints[j].faulted
        BY <3>3, <3>6 DEF Accepts
      <4>2. FaultyJoints' = FaultyJoints
        BY <4>1
      <4> QED
        BY <3>1, <3>4, <4>2 DEF Safety!vars
    <3> QED
      BY <3>5, <3>6
  <2>6. CASE Estop
    BY <2>6 DEF Estop, Safety!Next, Safety!Stop
  <2>7. CASE ReleaseEstop
    <3>1. FaultyJoints = {}
      BY <2>7 DEF ReleaseEstop
    <3> QED
      BY <2>7, <3>1 DEF ReleaseEstop, Safety!Next, Safety!Release
  <2>8. ASSUME NEW id \in Joints \cup {UnknownId}, ClearJointFault(id)
        PROVE  Safety!Next \/ UNCHANGED Safety!vars
    <3>1. \A j \in Joints : joints'[j] \in {joints[j], AfterClear(joints[j])}
      BY <2>1, <2>8 DEF ClearJointFault
    <3>2. \A j \in Joints : /\ joints'[j].cmd = joints[j].cmd
                            /\ joints'[j].faulted = joints[j].faulted
      BY <2>1, <3>1, ClearKeepsCommand
    <3>3. FaultyJoints' = FaultyJoints /\ MovingJoints' = MovingJoints
      BY <3>2
    <3> QED
      BY <2>8, <3>3 DEF ClearJointFault, Safety!vars
  <2>9. CASE UNCHANGED vars
    BY <2>9 DEF vars, Safety!vars
  <2> QED
    BY <2>2, <2>3, <2>4, <2>5, <2>6, <2>7, <2>8, <2>9 DEF Next
<1> QED
  BY <1>1, <1>2, InvHolds, PTL DEF Spec, ImplementsArmSafety, Safety!Spec
=============================================================================
