------------------------ MODULE JointControllerProofs ------------------------
(***************************************************************************)
(* A joint controller of any gains, limits, calibration, scale and setpoints *)
(* keeps its limits, and is what the arm controller's model takes it for.    *)
(***************************************************************************)
EXTENDS JointController, NumberProofs

(* The loops *)

\* A loop's numbers stay integers.
LEMMA PidType ==
    ASSUME NEW g \in {PosGains, VelGains}, NEW p \in PidState, NEW error \in Int, NEW dt \in Dts
    PROVE  /\ PidUpdate(g, p, error, dt) \in PidState
           /\ dt = 0 => PidUpdate(g, p, error, dt) = p
<1>1. /\ g.kp \in Int /\ g.ki \in Int /\ g.kd \in Int /\ g.tau \in Nat
      /\ g.outMin \in Int /\ g.outMax \in Int /\ g.outMin <= g.outMax
      /\ dt \in Nat
  BY LoopAssumption
<1>2. /\ p.integral \in Int /\ p.prevError \in Int /\ p.dFiltered \in Int
      /\ p.prevOutput \in Int
  BY DEF PidState
<1>3. CASE dt = 0
  BY <1>3 DEF PidUpdate
<1>4. CASE dt > 0
  <2>1. NewIntegral(g, p, error, dt) \in Int
    <3>1. p.integral + IntegralStep(g, error, dt) \in Int
      BY <1>1, <1>2 DEF IntegralStep
    <3> QED
      BY <1>1, <3>1, ClampBounds DEF NewIntegral
  <2>2. NewDerivative(g, p, error, dt) \in Int
    <3>1. Quotient(error - p.prevError, dt) \in Int
      <4>1. error - p.prevError \in Int /\ dt \in Nat \ {0}
        BY <1>1, <1>2, <1>4
      <4> QED
        BY <4>1, QuotientBrackets
    <3> DEFINE slope == Quotient(error - p.prevError, dt)
               mix == dt * slope + g.tau * p.dFiltered
    <3>2. mix \in Int /\ g.tau + dt \in Nat \ {0}
      <4>1. slope \in Int
        BY <3>1
      <4> HIDE DEF slope
      <4> QED
        BY <1>1, <1>2, <1>4, <4>1
    <3>3. NewDerivative(g, p, error, dt) = Quotient(mix, g.tau + dt)
      BY DEF NewDerivative
    <3> HIDE DEF mix
    <3> QED
      BY <3>2, <3>3, QuotientBrackets
  <2> DEFINE i == NewIntegral(g, p, error, dt)
             d == NewDerivative(g, p, error, dt)
  <2>3. PidUpdate(g, p, error, dt) =
          [integral |-> i, prevError |-> error, dFiltered |-> d,
           prevOutput |-> Clamp(g.kp * error + i + g.kd * d, g.outMin, g.outMax)]
    BY <1>1, <1>4 DEF PidUpdate
  <2> HIDE DEF i, d
  <2>4. g.kp * error + i + g.kd * d \in Int
    BY <1>1, <2>1, <2>2 DEF i, d
  <2>5. Clamp(g.kp * error + i + g.kd * d, g.outMin, g.outMax) \in Int
    BY <1>1, <2>4, ClampBounds
  <2> QED
    BY <1>4, <2>1, <2>2, <2>3, <2>5 DEF PidState, i, d
<1> QED
  BY <1>1, <1>3, <1>4

-----------------------------------------------------------------------------
(* The torque in the frame *)

\* The limits in order leave a torque within each, and turned inwards.
LEMMA LimitedBounds ==
    ASSUME NEW s \in JointSetpoint, NEW torque \in Int, position \in Int
    PROVE  /\ Limited(s, torque) \in Int
           /\ Fabs(Limited(s, torque)) <= s.torqueLimit
           /\ Fabs(Limited(s, torque)) <= TorqueMax
           /\ Side = -1 => Limited(s, torque) >= 0
           /\ Side = 1 => Limited(s, torque) <= 0
           /\ torque = 0 => Limited(s, torque) = 0
<1>1. s.torqueLimit \in Nat /\ TorqueMax \in Nat /\ PosMin \in Int /\ PosMax \in Int
  BY ConfigAssumption, HalfWordType DEF JointSetpoint
<1> DEFINE t == Symmetric(Symmetric(torque, s.torqueLimit), TorqueMax)
<1>2. /\ t \in Int
      /\ -s.torqueLimit <= t /\ t <= s.torqueLimit
      /\ -TorqueMax <= t /\ t <= TorqueMax
      /\ torque = 0 => t = 0
  BY <1>1 DEF Symmetric, Clamp
<1> HIDE DEF t
<1>3. Limited(s, torque) = SoftLimit(s, t)
  BY DEF Limited, t
<1> QED
  BY <1>1, <1>2, <1>3 DEF SoftLimit, Fabs, Side

\* What the other end reads of a torque within TorqueMax: never more than it,
\* and never of the other sign.
LEMMA SentTorque ==
    ASSUME NEW s \in JointSetpoint, NEW torque \in Int, Fabs(torque) <= TorqueMax,
           Send(s, torque)
    PROVE  LET read == UnpackI16(tx'.torque)
           IN /\ tx' \in [position : Int, velLimit : Bytes \X Bytes, torque : Bytes \X Bytes]
              /\ read \in Int
              /\ Fabs(WireScale * read) <= Fabs(torque)
              /\ torque >= 0 => read >= 0
              /\ torque <= 0 => read <= 0
<1>1. /\ WireScale \in Nat \ {0} /\ HalfWord \in Nat \ {0} /\ HalfWord - 1 \in Nat
      /\ TorqueMax \in Nat /\ TorqueMax <= WireScale * (HalfWord - 1)
  BY ConfigAssumption, HalfWordType
<1>2. -(HalfWord - 1) * WireScale <= torque /\ torque <= (HalfWord - 1) * WireScale
  BY <1>1 DEF Fabs
<1> DEFINE q == Quotient(torque, WireScale)
<1>3. q \in Int /\ -(HalfWord - 1) <= q /\ q <= HalfWord - 1
  BY <1>1, <1>2, QuotientBounds
<1>4. q \in Int16
  BY <1>1, <1>3 DEF Int16
<1>5. FirmwareI16(torque, WireScale) = {q}
  BY <1>4 DEF FirmwareI16
<1>6. PICK v \in FirmwareI16(s.velLimit, WireScale) :
        tx' = [position |-> s.position, velLimit |-> PackI16(v), torque |-> PackI16(q)]
  BY <1>5 DEF Send
<1>7. v \in Int16
  BY <1>6 DEF FirmwareI16
<1>8. UnpackI16(tx'.torque) = q /\ PackI16(q) \in Bytes \X Bytes /\ PackI16(v) \in Bytes \X Bytes
  BY <1>4, <1>6, <1>7, FrameKeepsNumber
<1>9. /\ torque >= 0 => WireScale * q <= torque /\ torque < WireScale * q + WireScale
      /\ torque < 0 => torque <= WireScale * q /\ WireScale * q < torque + WireScale
  BY <1>1, QuotientBrackets
<1>10. s.position \in Int
  BY DEF JointSetpoint
<1> HIDE DEF q
<1>11. /\ q < 0 => WireScale * q <= WireScale * (-1)
       /\ q > 0 => WireScale * 1 <= WireScale * q
  BY <1>1, <1>3, ProductOrder
<1>12. /\ torque >= 0 => q >= 0 /\ WireScale * q >= 0
       /\ torque < 0 => q <= 0 /\ WireScale * q <= 0
       /\ torque = 0 => q = 0
       /\ WireScale * q \in Int
  BY <1>1, <1>3, <1>9, <1>11
<1>13. Fabs(WireScale * q) <= Fabs(torque)
  BY <1>9, <1>12 DEF Fabs
<1>14. tx' \in [position : Int, velLimit : Bytes \X Bytes, torque : Bytes \X Bytes]
  BY <1>6, <1>8, <1>10
<1> QED
  BY <1>3, <1>8, <1>12, <1>13, <1>14

-----------------------------------------------------------------------------
(* The invariant *)

Inv == TypeOK /\ TorqueCeiling /\ LoopsResetTogether

\* The first frame asks for nothing.
LEMMA InitInv == Init => Inv
<1> SUFFICES ASSUME Init PROVE Inv
  OBVIOUS
<1>1. 0 \in Int16
  BY HalfWordType DEF Int16
<1>2. PackI16(0) \in Bytes \X Bytes /\ UnpackI16(PackI16(0)) = 0
  BY <1>1, FrameKeepsNumber
<1>3. IdleSetpoint.torqueLimit \in Nat /\ TorqueMax \in Nat /\ WireScale \in Nat
  BY SetpointAssumption, ConfigAssumption, HalfWordType DEF JointSetpoint
<1>4. TypeOK
  <2>1. tx \in [position : Int, velLimit : Bytes \X Bytes, torque : Bytes \X Bytes]
    <3>1. /\ tx = [position |-> 0, velLimit |-> PackI16(0), torque |-> PackI16(0)]
          /\ PackI16(0) \in Bytes \X Bytes
      BY <1>2 DEF Init
    <3> QED
      BY <3>1
  <2>2. PidReset \in PidState
    BY DEF PidReset, PidState
  <2> QED
    BY <2>1, <2>2 DEF Init, TypeOK, Modes
<1>5. TorqueCeiling
  BY <1>2, <1>3 DEF Init, TorqueCeiling, Fabs
<1> QED
  BY <1>4, <1>5 DEF Init, Inv, LoopsResetTogether

\* Two bytes are a number.
LEMMA UnpackType ==
    ASSUME NEW b \in Bytes \X Bytes
    PROVE  UnpackI16(b) \in Int
<1>1. Byte \in Nat /\ b[1] \in Int /\ b[2] \in Int /\ Byte * Byte \in Int
  BY ByteAssumption DEF Bytes
<1> DEFINE word == b[1] + Byte * b[2]
<1>2. word \in Int
  BY <1>1
<1>3. UnpackI16(b) = IF word < HalfWord THEN word ELSE word - Byte * Byte
  BY Zenon DEF UnpackI16
<1> HIDE DEF word
<1> QED
  BY <1>1, <1>2, <1>3

\* A frame taken in leaves numbers.
LEMMA FeedbackType ==
    ASSUME NEW frame \in Frames, IngestFeedback(frame)
    PROVE  position' \in Int /\ velocity' \in Int /\ faulted' \in BOOLEAN
<1>1. frame.position \in Bytes \X Bytes /\ frame.velocity \in Bytes \X Bytes
  BY FrameAssumption DEF CanFrame
<1> DEFINE p == UnpackI16(frame.position)
           v == UnpackI16(frame.velocity)
<1>2. p \in Int /\ v \in Int
  BY <1>1, UnpackType
<1>3. /\ position' = Direction * (WireScale * p - EncoderOffset)
      /\ velocity' = Direction * WireScale * v
      /\ faulted' \in BOOLEAN
  BY DEF IngestFeedback, Calibrate
<1>4. Direction \in {-1, 1} /\ WireScale \in Nat /\ EncoderOffset \in Int
  BY ConfigAssumption DEF Direction
<1> HIDE DEF p, v
<1> QED
  BY <1>2, <1>3, <1>4

\* A tick's frame keeps to the limits of the tick's setpoint.
LEMMA SentWithinLimits ==
    ASSUME NEW s \in JointSetpoint, NEW torque \in Int, position \in Int,
           Send(s, Limited(s, torque))
    PROVE  LET read == UnpackI16(tx'.torque)
           IN /\ tx' \in [position : Int, velLimit : Bytes \X Bytes, torque : Bytes \X Bytes]
              /\ read \in Int
              /\ Fabs(WireScale * read) <= s.torqueLimit
              /\ Fabs(WireScale * read) <= TorqueMax
              /\ Side = -1 => read >= 0
              /\ Side = 1 => read <= 0
              /\ torque = 0 => read = 0
<1> DEFINE t == Limited(s, torque)
           read == UnpackI16(tx'.torque)
<1>1. /\ t \in Int /\ Fabs(t) <= s.torqueLimit /\ Fabs(t) <= TorqueMax
      /\ Side = -1 => t >= 0
      /\ Side = 1 => t <= 0
      /\ torque = 0 => t = 0
  BY LimitedBounds
<1>2. /\ tx' \in [position : Int, velLimit : Bytes \X Bytes, torque : Bytes \X Bytes]
      /\ read \in Int /\ Fabs(WireScale * read) <= Fabs(t)
      /\ t >= 0 => read >= 0
      /\ t <= 0 => read <= 0
  BY <1>1, SentTorque
<1>3. s.torqueLimit \in Int /\ TorqueMax \in Int /\ WireScale \in Int
  BY ConfigAssumption, HalfWordType DEF JointSetpoint
<1> HIDE DEF t, read
<1>4. Fabs(WireScale * read) \in Int /\ Fabs(t) \in Int
  BY <1>1, <1>2, <1>3 DEF Fabs
<1>5. /\ Fabs(WireScale * read) <= s.torqueLimit /\ Fabs(WireScale * read) <= TorqueMax
  BY <1>1, <1>2, <1>3, <1>4
<1>6. /\ Side = -1 => read >= 0
      /\ Side = 1 => read <= 0
      /\ torque = 0 => read = 0
  BY <1>1, <1>2
<1> QED
  BY <1>2, <1>5, <1>6 DEF read

\* What the loops of a POSITION tick hold.
LEMMA PositionLoops ==
    ASSUME TypeOK, NEW s \in JointSetpoint, NEW dt \in Dts, TickPosition(s, dt)
    PROVE  /\ pidPos' \in PidState /\ pidVel' \in PidState
           /\ dt = 0 => pidPos' = pidPos /\ pidVel' = pidVel
<1>1. /\ position \in Int /\ velocity \in Int /\ s.position \in Int /\ s.velLimit \in Nat
      /\ pidPos \in PidState /\ pidVel \in PidState
  BY DEF TypeOK, JointSetpoint
<1>2. /\ pidPos' = PidUpdate(PosGains, pidPos, s.position - position, dt)
      /\ pidVel' = PidUpdate(VelGains, pidVel, VelocityCommand(s, pidPos') - velocity, dt)
  BY DEF TickPosition
<1>3. pidPos' \in PidState /\ (dt = 0 => pidPos' = pidPos)
  BY <1>1, <1>2, PidType
<1> DEFINE command == VelocityCommand(s, pidPos')
<1>4. command \in Int
  BY <1>1, <1>3 DEF VelocityCommand, Symmetric, Clamp, PidState
<1> HIDE DEF command
<1>5. pidVel' = PidUpdate(VelGains, pidVel, command - velocity, dt)
  BY <1>2 DEF command
<1>6. pidVel' \in PidState /\ (dt = 0 => pidVel' = pidVel)
  BY <1>1, <1>4, <1>5, PidType
<1> QED
  BY <1>3, <1>6

\* The same of a VELOCITY tick.
LEMMA VelocityLoop ==
    ASSUME TypeOK, NEW s \in JointSetpoint, NEW dt \in Dts, TickVelocity(s, dt)
    PROVE  pidVel' \in PidState /\ (dt = 0 => pidVel' = pidVel)
<1>1. velocity \in Int /\ s.velocity \in Int /\ pidVel \in PidState
  BY DEF TypeOK, JointSetpoint
<1> QED
  BY <1>1, PidType DEF TickVelocity

\* A tick that drives the joint keeps the invariant when its loops do.
LEMMA SendKeepsInv ==
    ASSUME Inv, NEW s \in Setpoints, NEW torque \in Int,
           Send(s, Limited(s, torque)), sp' = s, UNCHANGED state,
           mode' \in Modes, pidPos' \in PidState, pidVel' \in PidState, ran' \in BOOLEAN,
           LoopsResetTogether'
    PROVE  Inv'
<1>1. s \in JointSetpoint /\ position \in Int
  BY SetpointAssumption DEF Inv, TypeOK
<1> DEFINE read == UnpackI16(tx'.torque)
<1>2. /\ tx' \in [position : Int, velLimit : Bytes \X Bytes, torque : Bytes \X Bytes]
      /\ Fabs(WireScale * read) <= s.torqueLimit /\ Fabs(WireScale * read) <= TorqueMax
  BY <1>1, SentWithinLimits
<1>3. TypeOK'
  BY <1>2 DEF Inv, TypeOK, state
<1>4. TorqueCeiling'
  BY <1>2 DEF TorqueCeiling
<1> QED
  BY <1>3, <1>4 DEF Inv

\* A faulted joint's tick sends nothing to do.
LEMMA FaultedTick ==
    ASSUME Inv, NEW s \in Setpoints, TickFaulted(s)
    PROVE  Inv' /\ UnpackI16(tx'.torque) = 0
<1>1. /\ IdleSetpoint \in JointSetpoint /\ s \in JointSetpoint
      /\ TorqueMax \in Nat /\ s.torqueLimit \in Nat /\ WireScale \in Nat
  BY SetpointAssumption, ConfigAssumption, HalfWordType DEF JointSetpoint
<1>2. Fabs(0) <= TorqueMax
  BY <1>1 DEF Fabs
<1>3. /\ tx' \in [position : Int, velLimit : Bytes \X Bytes, torque : Bytes \X Bytes]
      /\ UnpackI16(tx'.torque) = 0
  <2>1. Send(IdleSetpoint, 0)
    BY DEF TickFaulted
  <2>2. /\ tx' \in [position : Int, velLimit : Bytes \X Bytes, torque : Bytes \X Bytes]
        /\ UnpackI16(tx'.torque) \in Int
        /\ UnpackI16(tx'.torque) >= 0 /\ UnpackI16(tx'.torque) <= 0
    BY <1>1, <1>2, <2>1, SentTorque
  <2> QED
    BY <2>2
<1>4. TypeOK'
  BY <1>3 DEF TickFaulted, Inv, TypeOK, state, loops, Modes
<1>5. TorqueCeiling'
  BY <1>1, <1>3 DEF TickFaulted, TorqueCeiling, Fabs
<1> QED
  BY <1>3, <1>4, <1>5 DEF TickFaulted, Inv, LoopsResetTogether, loops

\* Every step keeps the invariant.
LEMMA NextInv == Inv /\ [Next]_vars => Inv'
<1> SUFFICES ASSUME Inv, [Next]_vars PROVE Inv'
  OBVIOUS
<1>1. PidReset \in PidState
  BY DEF PidReset, PidState
<1>2. ASSUME NEW frame \in Frames, IngestFeedback(frame) PROVE Inv'
  <2>1. position' \in Int /\ velocity' \in Int /\ faulted' \in BOOLEAN
    BY <1>2, FeedbackType
  <2>2. UNCHANGED <<mode, pidPos, pidVel, ran, tx, sp>>
    BY <1>2 DEF IngestFeedback, loops
  <2> QED
    BY <2>1, <2>2 DEF Inv, TypeOK, TorqueCeiling, LoopsResetTogether
<1>3. ASSUME NEW s \in Setpoints, TickFaulted(s) PROVE Inv'
  BY <1>3, FaultedTick
<1>4. ASSUME NEW s \in Setpoints, TickTorque(s) PROVE Inv'
  <2>1. s.torque \in Int
    BY SetpointAssumption DEF JointSetpoint
  <2>2. /\ Send(s, Limited(s, s.torque)) /\ sp' = s /\ UNCHANGED state
        /\ mode' \in Modes /\ pidPos' \in PidState /\ pidVel' \in PidState
        /\ ran' \in BOOLEAN /\ LoopsResetTogether'
    BY <1>4 DEF TickTorque, Modes, Inv, TypeOK, loops, LoopsResetTogether
  <2> QED
    BY <2>1, <2>2, SendKeepsInv
<1>5. ASSUME NEW s \in Setpoints, TickRest(s) PROVE Inv'
  <2>1. /\ Send(s, Limited(s, 0)) /\ sp' = s /\ UNCHANGED state
        /\ mode' \in Modes /\ pidPos' \in PidState /\ pidVel' \in PidState
        /\ ran' \in BOOLEAN /\ LoopsResetTogether'
    BY <1>1, <1>5 DEF TickRest, ResetLoops, Modes, LoopsResetTogether
  <2> QED
    BY <2>1, SendKeepsInv
<1>6. ASSUME NEW s \in Setpoints, NEW dt \in Dts, TickPosition(s, dt) PROVE Inv'
  <2>1. s \in JointSetpoint /\ TypeOK /\ dt \in Nat
    BY SetpointAssumption, LoopAssumption DEF Inv
  <2>2. /\ pidPos' \in PidState /\ pidVel' \in PidState
        /\ dt = 0 => pidPos' = pidPos /\ pidVel' = pidVel
    BY <1>6, <2>1, PositionLoops
  <2>3. pidVel'.prevOutput \in Int
    BY <2>2 DEF PidState
  <2>4. /\ Send(s, Limited(s, pidVel'.prevOutput)) /\ sp' = s /\ UNCHANGED state
        /\ mode' \in Modes /\ ran' = (ran \/ dt > 0)
    BY <1>6 DEF TickPosition, Modes
  <2>5. ran' \in BOOLEAN /\ LoopsResetTogether'
    <3>1. CASE dt > 0
      <4>1. ran' = TRUE
        BY <2>4, <3>1, Zenon
      <4> QED
        BY <2>1, <2>4, <4>1 DEF LoopsResetTogether, Inv, TypeOK
    <3>2. CASE ~(dt > 0)
      <4>1. pidPos' = pidPos /\ pidVel' = pidVel
        BY <2>1, <2>2, <2>4, <3>2
      <4>2. ran \in BOOLEAN /\ pidPos \in PidState
        BY DEF Inv, TypeOK
      <4>3. ran' = ran
        BY <2>4, <3>2, <4>2, Zenon
      <4> QED
        BY <4>1, <4>2, <4>3 DEF Inv, LoopsResetTogether
    <3> QED
      BY <3>1, <3>2
  <2> QED
    BY <2>2, <2>3, <2>4, <2>5, SendKeepsInv
<1>7. ASSUME NEW s \in Setpoints, NEW dt \in Dts, TickVelocity(s, dt) PROVE Inv'
  <2>1. s \in JointSetpoint /\ TypeOK /\ dt \in Nat
    BY SetpointAssumption, LoopAssumption DEF Inv
  <2>2. pidVel' \in PidState /\ (dt = 0 => pidVel' = pidVel)
    BY <1>7, <2>1, VelocityLoop
  <2>3. pidVel'.prevOutput \in Int
    BY <2>2 DEF PidState
  <2>4. /\ Send(s, Limited(s, pidVel'.prevOutput)) /\ sp' = s /\ UNCHANGED state
        /\ mode' \in Modes /\ ran' = (ran \/ dt > 0) /\ pidPos' = pidPos
    BY <1>7 DEF TickVelocity, Modes
  <2>5. ran' \in BOOLEAN /\ pidPos' \in PidState /\ LoopsResetTogether'
    <3>1. CASE dt > 0
      <4>1. ran' = TRUE
        BY <2>4, <3>1, Zenon
      <4> QED
        BY <2>1, <2>4, <4>1 DEF LoopsResetTogether, Inv, TypeOK
    <3>2. CASE ~(dt > 0)
      <4>1. pidPos' = pidPos /\ pidVel' = pidVel
        BY <2>1, <2>2, <2>4, <3>2
      <4>2. ran \in BOOLEAN /\ pidPos \in PidState
        BY DEF Inv, TypeOK
      <4>3. ran' = ran
        BY <2>4, <3>2, <4>2, Zenon
      <4> QED
        BY <4>1, <4>2, <4>3 DEF Inv, LoopsResetTogether
    <3> QED
      BY <3>1, <3>2
  <2> QED
    BY <2>2, <2>3, <2>4, <2>5, SendKeepsInv
<1>8. ASSUME ClearFault PROVE Inv'
  BY <1>1, <1>8 DEF ClearFault, ResetLoops, state, Inv, TypeOK, TorqueCeiling,
                    LoopsResetTogether, Modes
<1>9. ASSUME UNCHANGED vars PROVE Inv'
  BY <1>9 DEF vars, Inv, TypeOK, TorqueCeiling, LoopsResetTogether
<1> QED
  BY <1>2, <1>3, <1>4, <1>5, <1>6, <1>7, <1>8, <1>9 DEF Next

\* What holds of every reachable state.
THEOREM InvHolds == Spec => []Inv
BY InitInv, NextInv, PTL DEF Spec

\* Numbers, modes and frames stay what they are (joint_controller.cpp:13-24, 131-142).
THEOREM TypeCorrect == Spec => []TypeOK
<1>1. Inv => TypeOK
  BY DEF Inv
<1> QED
  BY <1>1, InvHolds, PTL

\* Whatever the loops have wound up, at any gains, no frame asks for more torque
\* than the setpoint and the joint allow (joint_controller.cpp:93-117).
THEOREM TorqueCeilingTheorem == Spec => []TorqueCeiling
<1>1. Inv => TorqueCeiling
  BY DEF Inv
<1> QED
  BY <1>1, InvHolds, PTL

\* The loops are reset together (joint_controller.cpp:106-113, 146-152).
THEOREM LoopsResetTheorem == Spec => []LoopsResetTogether
<1>1. Inv => LoopsResetTogether
  BY DEF Inv
<1> QED
  BY <1>1, InvHolds, PTL

-----------------------------------------------------------------------------
(* The contract *)

\* The record the contract is about.
Seen == [faulted |-> faulted, mode |-> mode, side |-> Side,
         ran |-> ran, cmd |-> Sign(UnpackI16(tx.torque))]

\* What a joint shows is a joint of the contract.
LEMMA SeenType ==
    ASSUME TypeOK
    PROVE  Side \in {-1, 0, 1} /\ Sign(UnpackI16(tx.torque)) \in {-1, 0, 1}
BY DEF Side, Sign

\* What is seen when some of it changes.
LEMMA SeenFed ==
    ASSUME NEW f, NEW side
    PROVE  [Seen EXCEPT !.faulted = f, !.side = side] =
             [faulted |-> f, mode |-> mode, side |-> side, ran |-> ran,
              cmd |-> Sign(UnpackI16(tx.torque))]
<1>1. /\ Seen = [faulted |-> faulted, mode |-> mode, side |-> Side,
                 ran |-> ran, cmd |-> Sign(UnpackI16(tx.torque))]
      /\ DOMAIN Seen = {"faulted", "mode", "side", "ran", "cmd"}
  BY DEF Seen
<1>2. [Seen EXCEPT !.faulted = f, !.side = side] =
        [field \in DOMAIN Seen |-> IF field = "side" THEN side
                                     ELSE IF field = "faulted" THEN f ELSE Seen[field]]
  OBVIOUS
<1> QED
  BY <1>1, <1>2

LEMMA SeenStopped ==
    ASSUME NEW m, NEW c
    PROVE  [Seen EXCEPT !.mode = m, !.cmd = c] =
             [faulted |-> faulted, mode |-> m, side |-> Side, ran |-> ran, cmd |-> c]
<1>1. /\ Seen = [faulted |-> faulted, mode |-> mode, side |-> Side,
                 ran |-> ran, cmd |-> Sign(UnpackI16(tx.torque))]
      /\ DOMAIN Seen = {"faulted", "mode", "side", "ran", "cmd"}
  BY DEF Seen
<1>2. [Seen EXCEPT !.mode = m, !.cmd = c] =
        [field \in DOMAIN Seen |-> IF field = "cmd" THEN c
                                     ELSE IF field = "mode" THEN m ELSE Seen[field]]
  OBVIOUS
<1> QED
  BY <1>1, <1>2

LEMMA SeenReset ==
    ASSUME NEW m, NEW r
    PROVE  [Seen EXCEPT !.mode = m, !.ran = r] =
             [faulted |-> faulted, mode |-> m, side |-> Side, ran |-> r,
              cmd |-> Sign(UnpackI16(tx.torque))]
<1>1. /\ Seen = [faulted |-> faulted, mode |-> mode, side |-> Side,
                 ran |-> ran, cmd |-> Sign(UnpackI16(tx.torque))]
      /\ DOMAIN Seen = {"faulted", "mode", "side", "ran", "cmd"}
  BY DEF Seen
<1>2. [Seen EXCEPT !.mode = m, !.ran = r] =
        [field \in DOMAIN Seen |-> IF field = "ran" THEN r
                                     ELSE IF field = "mode" THEN m ELSE Seen[field]]
  OBVIOUS
<1> QED
  BY <1>1, <1>2

\* A tick that drives the joint is a tick of the contract, if a loop that was
\* reset and has not run since asks for nothing.
LEMMA TickIsAllowed ==
    ASSUME Inv, NEW s \in Setpoints, NEW torque \in Int, NEW dt \in Nat,
           Send(s, Limited(s, torque)), ~faulted, mode' = s.mode, UNCHANGED state,
           s.mode \in {"IDLE", "FAULT"} => torque = 0 /\ ran' = FALSE,
           s.mode \in {"POSITION", "VELOCITY"} =>
              /\ dt = 0 /\ ~ran => torque = 0
              /\ ran' = (ran \/ dt > 0),
           s.mode = "TORQUE" => ran' = ran
    PROVE  Contract!Tick
<1> DEFINE read == UnpackI16(tx'.torque)
           sign == Sign(read)
           d == IF dt > 0 THEN 1 ELSE 0
<1>1. /\ s \in JointSetpoint /\ s.mode \in Modes /\ position \in Int
      /\ faulted = FALSE /\ ran \in BOOLEAN
  BY SetpointAssumption DEF Inv, TypeOK, JointSetpoint
<1>2. /\ read \in Int
      /\ Side = -1 => read >= 0
      /\ Side = 1 => read <= 0
      /\ torque = 0 => read = 0
  BY <1>1, SentWithinLimits
<1> HIDE DEF read
<1>3. /\ sign \in {-1, 0, 1}
      /\ Side = -1 => sign >= 0
      /\ Side = 1 => sign <= 0
      /\ torque = 0 => sign = 0
  BY <1>2 DEF Sign
<1> HIDE DEF sign
<1>4. Seen' = [Seen EXCEPT !.mode = s.mode, !.ran = ran', !.cmd = sign]
  <2>1. Side' = Side /\ faulted' = faulted
    BY DEF state, Side
  <2>2. Sign(UnpackI16(tx'.torque)) = sign
    BY DEF sign, read
  <2>3. Seen' = [faulted |-> faulted, mode |-> s.mode, side |-> Side,
                 ran |-> ran', cmd |-> sign]
    BY <2>1, <2>2 DEF Seen
  <2> DEFINE asked == s.mode
             ranNow == ran'
  <2> HIDE DEF asked, ranNow
  <2>4. [Seen EXCEPT !.mode = asked, !.ran = ranNow, !.cmd = sign] =
          [faulted |-> faulted, mode |-> asked, side |-> Side, ran |-> ranNow, cmd |-> sign]
    <3>1. /\ Seen = [faulted |-> faulted, mode |-> mode, side |-> Side,
                     ran |-> ran, cmd |-> Sign(UnpackI16(tx.torque))]
          /\ DOMAIN Seen = {"faulted", "mode", "side", "ran", "cmd"}
      BY DEF Seen
    <3>2. [Seen EXCEPT !.mode = asked, !.ran = ranNow, !.cmd = sign] =
            [field \in DOMAIN Seen |->
               IF field = "cmd" THEN sign ELSE IF field = "ran" THEN ranNow
               ELSE IF field = "mode" THEN asked ELSE Seen[field]]
      OBVIOUS
    <3> QED
      BY <3>1, <3>2
  <2>5. [Seen EXCEPT !.mode = s.mode, !.ran = ran', !.cmd = sign] =
          [faulted |-> faulted, mode |-> s.mode, side |-> Side, ran |-> ran', cmd |-> sign]
    BY <2>4, Zenon DEF asked, ranNow
  <2> QED
    BY <2>3, <2>5
<1>5. Contract!Restrain(Side, sign) = sign
  <2>1. CASE Side = -1
    BY <1>3, <2>1 DEF Contract!Restrain, Contract!Fabs
  <2>2. CASE Side = 1
    BY <1>3, <2>2 DEF Contract!Restrain, Contract!Fabs
  <2>3. CASE Side \notin {-1, 1}
    BY <2>3 DEF Contract!Restrain
  <2> QED
    BY <2>1, <2>2, <2>3
<1>6. Contract!Requested(Seen, s.mode, sign, d) = sign
  <2>1. CASE s.mode \in {"IDLE", "FAULT"}
    BY <1>3, <2>1 DEF Contract!Requested, Contract!RestModes
  <2>2. CASE s.mode \in {"POSITION", "VELOCITY"} /\ dt = 0 /\ ~ran
    BY <1>3, <2>2 DEF Contract!Requested
  <2>3. CASE s.mode \in {"POSITION", "VELOCITY"} /\ ~(dt = 0 /\ ~ran)
    <3>1. ~(d = 0 /\ ~Seen.ran)
      BY <2>3 DEF Seen
    <3> QED
      BY <2>3, <3>1 DEF Contract!Requested, Contract!RestModes
  <2>4. CASE s.mode = "TORQUE"
    BY <2>4 DEF Contract!Requested, Contract!RestModes, Contract!PidModes
  <2> QED
    BY <1>1, <2>1, <2>2, <2>3, <2>4 DEF Modes
<1>7. Contract!RanAfter(Seen, s.mode, d) = ran'
  <2>1. Seen.ran = ran /\ (d > 0 <=> dt > 0)
    BY DEF Seen
  <2> HIDE DEF d
  <2>2. CASE s.mode \in {"IDLE", "FAULT"}
    BY <2>2 DEF Contract!RanAfter, Contract!RestModes
  <2>3. CASE s.mode \in {"POSITION", "VELOCITY"}
    BY <1>1, <2>1, <2>3, Zenon DEF Contract!RanAfter, Contract!RestModes, Contract!PidModes
  <2>4. CASE s.mode = "TORQUE"
    BY <1>1, <2>1, <2>4, Zenon DEF Contract!RanAfter, Contract!RestModes, Contract!PidModes
  <2> QED
    BY <1>1, <2>2, <2>3, <2>4 DEF Modes
<1>8. Seen.faulted = FALSE /\ Seen.side = Side
  BY <1>1 DEF Seen
<1>9. Contract!AfterTick(Seen, s.mode, sign, d) = Seen'
  BY <1>4, <1>5, <1>6, <1>7, <1>8 DEF Contract!AfterTick
<1>10. s.mode \in Contract!Modes /\ sign \in Contract!Signs /\ d \in {0, 1}
  BY <1>1, <1>3 DEF Contract!Modes, Contract!Signs, Modes
<1> HIDE DEF d
<1> QED
  BY <1>9, <1>10 DEF Contract!Tick, Seen

\* The numeric controller implements the contract the arm controller's model rests
\* on, for any gains, limits, calibration and scale (joint_controller.cpp:42-154).
THEOREM ImplementsContractTheorem == Spec => ImplementsContract
<1>1. Init => Contract!Init
  <2> SUFFICES ASSUME Init PROVE Contract!Init
    OBVIOUS
  <2>1. 0 \in Int16
    BY HalfWordType DEF Int16
  <2>2. UnpackI16(tx.torque) = 0
    BY <2>1, FrameKeepsNumber DEF Init
  <2>3. Sign(UnpackI16(tx.torque)) = 0
    BY <2>2 DEF Sign
  <2>4. Seen = Contract!NewJoint(Side)
    BY <2>3, Zenon DEF Seen, Init, Contract!NewJoint
  <2>5. Side \in Contract!Signs
    BY DEF Side, Contract!Signs
  <2> QED
    BY <2>4, <2>5 DEF Contract!Init, Seen
<1>2. Inv /\ [Next]_vars => [Contract!Next]_Seen
  <2> SUFFICES ASSUME Inv, [Next]_vars PROVE Contract!Next \/ UNCHANGED Seen
    OBVIOUS
  <2>1. ASSUME NEW frame \in Frames, IngestFeedback(frame) PROVE Contract!Feedback
    <3>1. faulted' \in BOOLEAN /\ Side' \in Contract!Signs
      BY <2>1, FeedbackType DEF Side, Contract!Signs
    <3>2. UNCHANGED <<mode, pidPos, pidVel, ran, tx, sp>>
      BY <2>1 DEF IngestFeedback, loops
    <3>3. Seen' = [faulted |-> faulted', mode |-> mode, side |-> Side',
                   ran |-> ran, cmd |-> Sign(UnpackI16(tx.torque))]
      BY <3>2 DEF Seen
    <3>4. [Seen EXCEPT !.faulted = faulted', !.side = Side'] =
            [faulted |-> faulted', mode |-> mode, side |-> Side',
             ran |-> ran, cmd |-> Sign(UnpackI16(tx.torque))]
      BY SeenFed, Zenon
    <3>5. Seen' = Contract!AfterFeedback(Seen, faulted', Side')
      BY <3>3, <3>4 DEF Contract!AfterFeedback
    <3> QED
      BY <3>1, <3>5 DEF Contract!Feedback, Seen
  <2>2. ASSUME NEW s \in Setpoints, TickFaulted(s) PROVE Contract!Tick
    <3>1. UnpackI16(tx'.torque) = 0
      BY <2>2, FaultedTick
    <3>2. /\ faulted = TRUE /\ faulted' = faulted /\ ran' = ran /\ mode' = "FAULT"
          /\ Side' = Side
      BY <2>2 DEF TickFaulted, state, loops, Side, Inv, TypeOK
    <3>3. Seen' = [faulted |-> faulted, mode |-> "FAULT", side |-> Side,
                   ran |-> ran, cmd |-> 0]
      BY <3>1, <3>2 DEF Seen, Sign
    <3>4. [Seen EXCEPT !.mode = "FAULT", !.cmd = 0] =
            [faulted |-> faulted, mode |-> "FAULT", side |-> Side, ran |-> ran, cmd |-> 0]
      BY SeenStopped, Zenon
    <3>5. Seen.faulted = TRUE
      BY <3>2 DEF Seen
    <3>6. Seen' = Contract!AfterTick(Seen, "FAULT", 0, 0)
      BY <3>3, <3>4, <3>5 DEF Contract!AfterTick
    <3>7. "FAULT" \in Contract!Modes /\ 0 \in Contract!Signs
      BY DEF Contract!Modes, Contract!Signs
    <3> QED
      BY <3>6, <3>7 DEF Contract!Tick, Seen
  <2>3. ASSUME NEW s \in Setpoints, TickTorque(s) PROVE Contract!Tick
    <3>1. s.torque \in Int
      BY SetpointAssumption DEF JointSetpoint
    <3>2. /\ Send(s, Limited(s, s.torque)) /\ ~faulted /\ mode' = s.mode
          /\ UNCHANGED state /\ s.mode = "TORQUE" /\ ran' = ran
      BY <2>3 DEF TickTorque, loops
    <3> QED
      BY <3>1, <3>2, TickIsAllowed
  <2>4. ASSUME NEW s \in Setpoints, TickRest(s) PROVE Contract!Tick
    <3>1. /\ Send(s, Limited(s, 0)) /\ ~faulted /\ mode' = s.mode
          /\ UNCHANGED state /\ s.mode \in {"IDLE", "FAULT"} /\ ran' = FALSE
      BY <2>4 DEF TickRest, ResetLoops
    <3>2. s.mode \notin {"POSITION", "VELOCITY", "TORQUE"} /\ 0 \in Int /\ 0 \in Nat
      BY <3>1
    <3> QED
      BY <3>1, <3>2, TickIsAllowed
  <2>5. ASSUME NEW s \in Setpoints, NEW dt \in Dts, TickPosition(s, dt) PROVE Contract!Tick
    <3>1. s \in JointSetpoint /\ TypeOK /\ LoopsResetTogether /\ dt \in Nat
      BY SetpointAssumption, LoopAssumption DEF Inv
    <3>2. pidVel' \in PidState /\ (dt = 0 => pidVel' = pidVel)
      BY <2>5, <3>1, PositionLoops
    <3>3. pidVel'.prevOutput \in Int
      BY <3>2 DEF PidState
    <3>4. dt = 0 /\ ~ran => pidVel'.prevOutput = 0
      BY <3>1, <3>2 DEF LoopsResetTogether, PidReset
    <3>5. /\ Send(s, Limited(s, pidVel'.prevOutput)) /\ ~faulted /\ mode' = s.mode
          /\ UNCHANGED state /\ s.mode = "POSITION" /\ ran' = (ran \/ dt > 0)
      BY <2>5 DEF TickPosition
    <3> QED
      BY <3>1, <3>3, <3>4, <3>5, TickIsAllowed
  <2>6. ASSUME NEW s \in Setpoints, NEW dt \in Dts, TickVelocity(s, dt) PROVE Contract!Tick
    <3>1. s \in JointSetpoint /\ TypeOK /\ LoopsResetTogether /\ dt \in Nat
      BY SetpointAssumption, LoopAssumption DEF Inv
    <3>2. pidVel' \in PidState /\ (dt = 0 => pidVel' = pidVel)
      BY <2>6, <3>1, VelocityLoop
    <3>3. pidVel'.prevOutput \in Int
      BY <3>2 DEF PidState
    <3>4. dt = 0 /\ ~ran => pidVel'.prevOutput = 0
      BY <3>1, <3>2 DEF LoopsResetTogether, PidReset
    <3>5. /\ Send(s, Limited(s, pidVel'.prevOutput)) /\ ~faulted /\ mode' = s.mode
          /\ UNCHANGED state /\ s.mode = "VELOCITY" /\ ran' = (ran \/ dt > 0)
      BY <2>6 DEF TickVelocity
    <3> QED
      BY <3>1, <3>3, <3>4, <3>5, TickIsAllowed
  <2>7. ASSUME ClearFault PROVE Contract!Clear
    <3>1. /\ Side' = Side /\ faulted' = faulted /\ faulted = FALSE
          /\ mode' = "IDLE" /\ ran' = FALSE /\ tx' = tx
      BY <2>7 DEF ClearFault, ResetLoops, state, Side, Inv, TypeOK
    <3>2. Seen' = [faulted |-> faulted, mode |-> "IDLE", side |-> Side,
                   ran |-> FALSE, cmd |-> Sign(UnpackI16(tx.torque))]
      BY <3>1 DEF Seen
    <3>3. [Seen EXCEPT !.mode = "IDLE", !.ran = FALSE] =
            [faulted |-> faulted, mode |-> "IDLE", side |-> Side,
             ran |-> FALSE, cmd |-> Sign(UnpackI16(tx.torque))]
      BY SeenReset, Zenon
    <3>4. Seen.faulted = FALSE
      BY <3>1 DEF Seen
    <3> QED
      BY <3>2, <3>3, <3>4 DEF Contract!Clear, Contract!AfterClear, Seen
  <2>8. ASSUME UNCHANGED vars PROVE UNCHANGED Seen
    BY <2>8 DEF vars, Seen, Side
  <2> QED
    BY <2>1, <2>2, <2>3, <2>4, <2>5, <2>6, <2>7, <2>8 DEF Next, Contract!Next
<1> QED
  BY <1>1, <1>2, InvHolds, PTL DEF Spec, ImplementsContract, Contract!Spec, Seen
=============================================================================
