---------------------------- MODULE BenchProofs ----------------------------
(***************************************************************************)
(* The dry run keeps its promises for every trajectory and every pair of    *)
(* limits; and so do the scripts on the bench, which implement it, with the *)
(* log and the figure for every file.                                       *)
(***************************************************************************)
EXTENDS Bench, NumberProofs

(* The numbers on the wire *)

\* What the check sees is out of a limit exactly when the rounded number is.
LEMMA SeenOutside ==
    ASSUME NEW a \in Int, NEW n \in Nat \ {0}, NEW limit \in Nat, limit < HalfWord - 1
    PROVE  Outside(UnpackI16(PackI16(HostI16(a, n))), limit)
              <=> Rounded(a, n) > limit \/ Rounded(a, n) < -limit
BY HostKeepsLimit DEF Outside

-----------------------------------------------------------------------------
(* The joints *)

\* The interval of the simulation is a positive number of milliseconds.
LEMMA IntervalType == dt \in Nat \ {0} /\ Tau + dt \in Nat \ {0}
BY DryRunAssumption DEF dt

\* What a command leaves of a joint's way is on the way.
LEMMA FollowedBetween ==
    ASSUME NEW p \in Int, NEW s \in Int
    PROVE  /\ Followed(p, s) \in Int
           /\ p <= s => p <= Followed(p, s) /\ Followed(p, s) <= s
           /\ s <= p => s <= Followed(p, s) /\ Followed(p, s) <= p
<1>1. dt <= Tau + dt /\ dt \in Nat
  BY IntervalType, DryRunAssumption
<1> QED
  BY <1>1, IntervalType, TowardsBetween DEF Followed

\* The rows are rows, whatever file they come from.
LEMMA RowType ==
    ASSUME TypeOK, NEW i \in 1 .. Len(trajectory)
    PROVE  trajectory[i] \in Row /\ \A j \in Joints : trajectory[i][j] \in Int
<1>1. trajectory \in Seq(Row)
  BY DryRunAssumption DEF TypeOK
<1> QED
  BY <1>1 DEF Row

\* The idle command asks for 0.
LEMMA IdleRow == Moving({}, 0) \in Row /\ \A j \in Joints : Moving({}, 0)[j] = 0
BY DEF Moving, Row

\* Commands leave every joint between where it was and its setpoint.
LEMMA SendMoves ==
    ASSUME TypeOK, NEW s \in Row, NEW js, Send(js, s)
    PROVE  /\ pos' \in Row /\ lag' \in Row
           /\ \A j \in Joints :
                 /\ pos[j] \in Int /\ s[j] \in Int /\ pos'[j] \in Int
                 /\ \/ lag'[j] = s[j] - pos'[j]
                    \/ lag'[j] = lag[j] /\ pos'[j] = pos[j]
                 /\ pos[j] <= s[j] => pos[j] <= pos'[j] /\ pos'[j] <= s[j]
                 /\ s[j] <= pos[j] => s[j] <= pos'[j] /\ pos'[j] <= pos[j]
<1>1. \A j \in Joints : pos[j] \in Int /\ s[j] \in Int /\ lag[j] \in Int
  BY DEF TypeOK, Row
<1>2. \A j \in Joints : pos'[j] = Followed(pos[j], s[j]) \/ pos'[j] = pos[j]
  BY DEF Send
<1>3. \A j \in Joints :
         \/ lag'[j] = s[j] - pos'[j]
         \/ lag'[j] = lag[j] /\ pos'[j] = pos[j]
  BY DEF Send
<1>4. pos' = [j \in Joints |-> pos'[j]] /\ lag' = [j \in Joints |-> lag'[j]]
  BY DEF Send
<1>5. \A j \in Joints :
         /\ pos'[j] \in Int
         /\ pos[j] <= s[j] => pos[j] <= pos'[j] /\ pos'[j] <= s[j]
         /\ s[j] <= pos[j] => s[j] <= pos'[j] /\ pos'[j] <= pos[j]
  <2> TAKE j \in Joints
  <2>1. CASE pos'[j] = Followed(pos[j], s[j])
    BY <1>1, <2>1, FollowedBetween
  <2>2. CASE pos'[j] = pos[j]
    BY <1>1, <2>2
  <2> QED
    BY <1>2, <2>1, <2>2
<1>6. \A j \in Joints : lag'[j] \in Int
  BY <1>1, <1>3, <1>5
<1>7. pos' \in Row /\ lag' \in Row
  BY <1>4, <1>5, <1>6 DEF Row
<1> QED
  BY <1>1, <1>3, <1>5, <1>7

-----------------------------------------------------------------------------
(* The inductive invariant of the dry run *)

\* The two limits a gentle setpoint keeps.
Slow(s) == /\ -(MaxPosition * PosScale) <= s /\ s <= MaxPosition * PosScale
           /\ -(MaxVelocity * (PosScale * Tau)) <= 200 * s
           /\ 200 * s <= MaxVelocity * (PosScale * Tau)

\* Where a gentle trajectory takes the joints: each keeps both limits.
StaysGentle ==
    Gentle => \A j \in Joints :
        /\ Slow(pos[j])
        /\ -(MaxVelocity * (PosScale * Tau)) <= 100 * lag[j]
        /\ 100 * lag[j] <= MaxVelocity * (PosScale * Tau)

\* A joint that goes one way is behind the row run() is at.
Behind ==
    pc \in {"send", "check"} =>
        \A j \in Joints : OneWay(j) => Between(pos[j], trajectory[row][j])

\* Before the first row the joints are at rest.
AtRest == pc = "load" => \A j \in Joints : pos[j] = 0

\* The inductive invariant.
Inv == /\ TypeOK /\ WithinSetpoints /\ FenceHolds
       /\ StaysGentle /\ NoFalseAlarm /\ Behind /\ AtRest

\* A joint without a setpoint yet is at 0, which is within everything.
LEMMA InitInv == Init => Inv
<1> SUFFICES ASSUME Init PROVE Inv
  OBVIOUS
<1>1. pc = "load" /\ row = 1 /\ abort = "none"
  BY DEF Init
<1>2. pos \in Row /\ lag \in Row /\ \A j \in Joints : pos[j] = 0 /\ lag[j] = 0
  BY IdleRow DEF Init
<1>3. TypeOK
  BY <1>1, <1>2 DEF TypeOK, Init
<1>4. StaysGentle
  <2>1. /\ MaxPosition * PosScale \in Nat
        /\ MaxVelocity * (PosScale * Tau) \in Nat
    BY DryRunAssumption
  <2> QED
    BY <1>2, <2>1 DEF StaysGentle, Slow
<1> QED
  BY <1>1, <1>2, <1>3, <1>4
     DEF Inv, WithinSetpoints, FenceHolds, NoFalseAlarm, Behind, AtRest

\* No breach is seen of joints that keep both limits.
LEMMA GentleIsNoBreach ==
    ASSUME TypeOK, StaysGentle, Gentle
    PROVE  ~Breach
<1> DEFINE fb(j) == decode_feedback(Feedback(j))
<1> SUFFICES ASSUME NEW j \in Joints
             PROVE  /\ ~Outside(fb(j).position, MaxPosition)
                    /\ ~Outside(fb(j).velocity, MaxVelocity)
  BY DEF Breach, Breaches
<1>1. pos[j] \in Int /\ lag[j] \in Int
  BY DEF TypeOK, Row
<1>2. PosScale \in Nat \ {0} /\ PosScale * Tau \in Nat \ {0} /\ 100 * lag[j] \in Int
  BY <1>1, DryRunAssumption
<1>3. /\ Rounded(pos[j], PosScale) \in Int
      /\ -MaxPosition <= Rounded(pos[j], PosScale)
      /\ Rounded(pos[j], PosScale) <= MaxPosition
  BY <1>1, <1>2, DryRunAssumption, RoundedBounds DEF StaysGentle, Slow
<1>4. /\ Rounded(100 * lag[j], PosScale * Tau) \in Int
      /\ -MaxVelocity <= Rounded(100 * lag[j], PosScale * Tau)
      /\ Rounded(100 * lag[j], PosScale * Tau) <= MaxVelocity
  BY <1>1, <1>2, DryRunAssumption, RoundedBounds DEF StaysGentle
<1>5. /\ fb(j).position = UnpackI16(PackI16(HostI16(pos[j], PosScale)))
      /\ fb(j).velocity = UnpackI16(PackI16(HostI16(100 * lag[j], PosScale * Tau)))
  BY DEF decode_feedback, Feedback
<1> HIDE DEF fb
<1>6. ~Outside(fb(j).position, MaxPosition)
  BY <1>1, <1>2, <1>3, <1>5, SeenOutside, DryRunAssumption
<1>7. ~Outside(fb(j).velocity, MaxVelocity)
  BY <1>2, <1>4, <1>5, SeenOutside, DryRunAssumption
<1> QED
  BY <1>6, <1>7

\* Joints that pass the check are within the fence.
LEMMA PassedIsWithinFence ==
    ASSUME TypeOK, ~Breach, NEW j \in Joints
    PROVE  /\ 2 * pos[j] <= (2 * MaxPosition + 1) * PosScale
           /\ -(2 * MaxPosition + 1) * PosScale <= 2 * pos[j]
<1>1. pos[j] \in Int /\ PosScale \in Nat \ {0}
  BY DryRunAssumption DEF TypeOK, Row
<1>2. Rounded(pos[j], PosScale) \in Int
  BY <1>1, RoundedBrackets
<1>3. ~Outside(UnpackI16(PackI16(HostI16(pos[j], PosScale))), MaxPosition)
  BY DEF Breach, Breaches, decode_feedback, Feedback
<1>4. ~(Rounded(pos[j], PosScale) > MaxPosition \/ Rounded(pos[j], PosScale) < -MaxPosition)
  BY <1>1, <1>3, SeenOutside, DryRunAssumption
<1> QED
  BY <1>1, <1>2, <1>4, RoundedReports, DryRunAssumption

\* Between two slow positions there are slow positions only, and from one to the
\* other it is no further than the limit allows.
LEMMA SlowBetween ==
    ASSUME NEW p \in Int, NEW s \in Int, NEW q \in Int, Slow(p), Slow(s),
           (p <= q /\ q <= s) \/ (s <= q /\ q <= p)
    PROVE  /\ Slow(q)
           /\ -(MaxVelocity * (PosScale * Tau)) <= 100 * (s - q)
           /\ 100 * (s - q) <= MaxVelocity * (PosScale * Tau)
<1> DEFINE P == MaxPosition * PosScale
           V == MaxVelocity * (PosScale * Tau)
<1>1. P \in Nat /\ V \in Nat
  BY DryRunAssumption
<1>2. /\ -P <= p /\ p <= P /\ -V <= 200 * p /\ 200 * p <= V
      /\ -P <= s /\ s <= P /\ -V <= 200 * s /\ 200 * s <= V
  BY DEF Slow
<1> HIDE DEF P, V
<1>3. -P <= q /\ q <= P /\ -V <= 200 * q /\ 200 * q <= V
  BY <1>1, <1>2
<1>4. -V <= 100 * (s - q) /\ 100 * (s - q) <= V
  BY <1>1, <1>2, <1>3
<1> QED
  BY <1>3, <1>4 DEF Slow, P, V

\* Every setpoint of a gentle trajectory is slow.
LEMMA GentleIsSlow ==
    ASSUME Gentle, NEW i \in 1 .. Len(trajectory), NEW j \in Joints,
           trajectory[i][j] \in Int
    PROVE  Slow(trajectory[i][j])
<1>1. /\ -MaxPosition * PosScale = -(MaxPosition * PosScale)
      /\ -MaxVelocity * PosScale * Tau = -(MaxVelocity * (PosScale * Tau))
      /\ MaxVelocity * PosScale * Tau = MaxVelocity * (PosScale * Tau)
  BY DryRunAssumption
<1> QED
  BY <1>1 DEF Gentle, Slow

\* A command leaves the joints within what their setpoints have spanned, and with
\* slow setpoints it leaves them slow.
LEMMA SendKeeps ==
    ASSUME Inv, NEW s \in Row, NEW js, Send(js, s), UNCHANGED <<trajectory, row>>,
           abort' \in {abort, "operator"}, pc' \notin {"load", "send"},
           row \in 1 .. Len(trajectory),
           \A j \in Joints : s[j] = 0 \/ s[j] = trajectory[row][j]
    PROVE  WithinSetpoints' /\ FenceHolds' /\ StaysGentle' /\ NoFalseAlarm'
<1>1. \A j \in Joints :
         /\ pos[j] \in Int /\ s[j] \in Int /\ pos'[j] \in Int
         /\ \/ lag'[j] = s[j] - pos'[j]
            \/ lag'[j] = lag[j] /\ pos'[j] = pos[j]
         /\ (pos[j] <= pos'[j] /\ pos'[j] <= s[j]) \/ (s[j] <= pos'[j] /\ pos'[j] <= pos[j])
  BY SendMoves DEF Inv
<1>2. WithinSetpoints'
  <2> SUFFICES ASSUME NEW j \in Joints
               PROVE  \/ pos'[j] = 0
                      \/ \E i \in 1 .. row : Between(pos'[j], trajectory[i][j])
    BY DEF WithinSetpoints
  <2>1. Between(pos'[j], s[j]) \/ Between(pos'[j], pos[j])
    BY <1>1 DEF Between
  <2>2. CASE Between(pos'[j], s[j])
    <3>1. CASE s[j] = 0
      BY <1>1, <2>2, <3>1 DEF Between
    <3>2. CASE s[j] = trajectory[row][j]
      BY <2>2, <3>2
    <3> QED
      BY <3>1, <3>2
  <2>3. CASE Between(pos'[j], pos[j])
    <3>1. pos[j] = 0 \/ \E i \in 1 .. row : Between(pos[j], trajectory[i][j])
      BY DEF Inv, WithinSetpoints
    <3>2. CASE pos[j] = 0
      BY <1>1, <2>3, <3>2 DEF Between
    <3>3. ASSUME NEW i \in 1 .. row, Between(pos[j], trajectory[i][j])
          PROVE  Between(pos'[j], trajectory[i][j])
      <4>1. trajectory[i][j] \in Int
        BY RowType DEF Inv, TypeOK
      <4> QED
        BY <1>1, <2>3, <3>3, <4>1 DEF Between
    <3> QED
      BY <3>1, <3>2, <3>3
  <2> QED
    BY <2>1, <2>2, <2>3
<1>3. StaysGentle'
  <2> SUFFICES ASSUME Gentle, NEW j \in Joints
               PROVE  /\ Slow(pos'[j])
                      /\ -(MaxVelocity * (PosScale * Tau)) <= 100 * lag'[j]
                      /\ 100 * lag'[j] <= MaxVelocity * (PosScale * Tau)
    BY DEF StaysGentle, Slow, Gentle
  <2>1. Slow(pos[j])
    BY DEF Inv, StaysGentle
  <2>2. Slow(s[j])
    <3>1. CASE s[j] = 0
      <4>1. MaxPosition * PosScale \in Nat /\ MaxVelocity * (PosScale * Tau) \in Nat
        BY DryRunAssumption
      <4> QED
        BY <3>1, <4>1 DEF Slow
    <3>2. CASE s[j] = trajectory[row][j]
      BY <1>1, <3>2, GentleIsSlow
    <3> QED
      BY <3>1, <3>2
  <2>3. CASE lag'[j] = s[j] - pos'[j]
    <3>1. /\ Slow(pos'[j])
          /\ -(MaxVelocity * (PosScale * Tau)) <= 100 * (s[j] - pos'[j])
          /\ 100 * (s[j] - pos'[j]) <= MaxVelocity * (PosScale * Tau)
      BY <1>1, <2>1, <2>2, SlowBetween
    <3> QED
      BY <2>3, <3>1
  <2>4. CASE lag'[j] = lag[j] /\ pos'[j] = pos[j]
    BY <2>1, <2>4 DEF Inv, StaysGentle
  <2> QED
    BY <1>1, <2>3, <2>4
<1> QED
  BY <1>2, <1>3 DEF Inv, FenceHolds, NoFalseAlarm, Gentle

\* A joint that goes one way is taken towards its setpoint and not beyond it.
LEMMA SendFollows ==
    ASSUME Inv, pc = "send", NEW js, Send(js, trajectory[row]), NEW j \in Joints, OneWay(j)
    PROVE  Between(pos'[j], trajectory[row][j]) /\ Between(pos[j], pos'[j])
<1>1. row \in 1 .. Len(trajectory) /\ trajectory[row] \in Row
  BY RowType DEF Inv, TypeOK
<1>2. /\ pos[j] \in Int /\ trajectory[row][j] \in Int /\ pos'[j] \in Int
      /\ pos[j] <= trajectory[row][j] => pos[j] <= pos'[j] /\ pos'[j] <= trajectory[row][j]
      /\ trajectory[row][j] <= pos[j] => trajectory[row][j] <= pos'[j] /\ pos'[j] <= pos[j]
  BY <1>1, SendMoves DEF Inv
<1>3. Between(pos[j], trajectory[row][j])
  BY DEF Inv, Behind
<1> QED
  BY <1>2, <1>3 DEF Between

-----------------------------------------------------------------------------
(* One step per action *)

\* Loading an empty file ends the program; otherwise the joints are at rest.
LEMMA LoadKeeps ==
    ASSUME Inv, Load
    PROVE  Inv'
<1> USE DEF Load
<1>1. TypeOK'
  <2>1. trajectory \in Seq(Row)
    BY DryRunAssumption DEF Inv, TypeOK
  <2>2. trajectory # <<>> => 1 <= Len(trajectory)
    BY <2>1
  <2> QED
    BY <2>2 DEF Inv, TypeOK
<1>2. \A j \in Joints : pos[j] = 0
  BY DEF Inv, AtRest
<1>3. FenceHolds'
  <2>1. (2 * MaxPosition + 1) * PosScale \in Nat /\ -(2 * MaxPosition + 1) * PosScale <= 0
    BY DryRunAssumption
  <2> QED
    BY <1>2, <2>1 DEF FenceHolds
<1>4. Behind'
  <2> SUFFICES ASSUME NEW j \in Joints, pc' = "send"
               PROVE  Between(pos[j], trajectory[row][j])
    BY DEF Behind, OneWay
  <2>1. trajectory[row][j] \in Int
    BY <1>1, RowType DEF Inv, TypeOK
  <2> QED
    BY <1>2, <2>1 DEF Between
<1> QED
  BY <1>1, <1>2, <1>3, <1>4
     DEF Inv, WithinSetpoints, StaysGentle, NoFalseAlarm, Gentle, AtRest

\* A row's commands keep the invariant.
LEMMA SendRowKeeps ==
    ASSUME Inv, SendRow
    PROVE  Inv'
<1> USE DEF SendRow
<1>1. row \in 1 .. Len(trajectory) /\ trajectory[row] \in Row
  BY RowType DEF Inv, TypeOK
<1>2. pos' \in Row /\ lag' \in Row
  BY <1>1, SendMoves DEF Inv
<1>3. TypeOK'
  BY <1>2 DEF Inv, TypeOK
<1>4. WithinSetpoints' /\ FenceHolds' /\ StaysGentle' /\ NoFalseAlarm'
  BY <1>1, SendKeeps
<1>5. Behind'
  BY SendFollows DEF Behind, OneWay
<1> QED
  BY <1>3, <1>4, <1>5 DEF Inv, AtRest

\* Only a breach or the last row leaves the loop over the rows, and the next row
\* of a joint that goes one way is further in that direction.
LEMMA CheckKeeps ==
    ASSUME Inv, CheckFeedback
    PROVE  Inv'
<1> USE DEF CheckFeedback
<1>1. TypeOK'
  BY DEF Inv, TypeOK
<1>2. WithinSetpoints'
  BY DEF Inv, WithinSetpoints, TypeOK
<1>3. FenceHolds'
  BY PassedIsWithinFence DEF Inv, FenceHolds
<1>4. NoFalseAlarm'
  BY GentleIsNoBreach DEF Inv, NoFalseAlarm, Gentle
<1>5. Behind'
  <2> SUFFICES ASSUME pc' = "send", NEW j \in Joints, OneWay(j)
               PROVE  Between(pos[j], trajectory[row'][j])
    BY DEF Behind, OneWay
  <2>1. row' = row + 1 /\ row \in 1 .. Len(trajectory) /\ row' \in 1 .. Len(trajectory)
    BY DEF Inv, TypeOK
  <2>2. /\ pos[j] \in Int
        /\ trajectory[row][j] \in Int /\ trajectory[row'][j] \in Int
    BY <2>1, RowType DEF Inv, TypeOK, Row
  <2>3. Between(pos[j], trajectory[row][j])
    BY DEF Inv, Behind
  <2>4. \/ 0 <= trajectory[row][j] /\ trajectory[row][j] <= trajectory[row'][j]
        \/ trajectory[row'][j] <= trajectory[row][j] /\ trajectory[row][j] <= 0
    BY <2>1 DEF OneWay
  <2> QED
    BY <2>2, <2>3, <2>4 DEF Between
<1> QED
  BY <1>1, <1>2, <1>3, <1>4, <1>5 DEF Inv, StaysGentle, Gentle, AtRest

\* Ctrl-C, whatever joints the row has been sent to.
LEMMA InterruptKeeps ==
    ASSUME Inv, Interrupt
    PROVE  Inv'
<1> USE DEF Interrupt
<1>1. row \in 1 .. Len(trajectory) /\ trajectory[row] \in Row
  BY RowType DEF Inv, TypeOK
<1>2. CASE pc = "send"
  <2>1. PICK j \in Joints : Send(0 .. j - 1, trajectory[row])
    BY <1>2
  <2>2. pos' \in Row /\ lag' \in Row
    BY <1>1, <2>1, SendMoves DEF Inv
  <2>3. TypeOK'
    BY <1>2, <2>2 DEF Inv, TypeOK
  <2>4. WithinSetpoints' /\ FenceHolds' /\ StaysGentle' /\ NoFalseAlarm'
    BY <1>1, <2>1, SendKeeps
  <2> QED
    BY <2>3, <2>4 DEF Inv, Behind, AtRest
<1>3. CASE pc = "check"
  BY <1>3 DEF Inv, TypeOK, WithinSetpoints, FenceHolds, StaysGentle, Gentle,
              NoFalseAlarm, Behind, AtRest
<1> QED
  BY <1>2, <1>3

\* The idle commands take the joints back towards 0.
LEMMA SendIdleKeeps ==
    ASSUME Inv, SendIdle
    PROVE  Inv'
<1> USE DEF SendIdle
<1>1. row \in 1 .. Len(trajectory)
  BY DEF Inv, TypeOK
<1>2. Moving({}, 0) \in Row /\ \A j \in Joints : Moving({}, 0)[j] = 0
  BY IdleRow
<1>3. PICK n \in 0 .. NUM_JOINTS : Send(0 .. n - 1, Moving({}, 0))
  OBVIOUS
<1>4. pos' \in Row /\ lag' \in Row
  BY <1>2, <1>3, SendMoves DEF Inv
<1>5. TypeOK'
  BY <1>4 DEF Inv, TypeOK
<1>6. WithinSetpoints' /\ FenceHolds' /\ StaysGentle' /\ NoFalseAlarm'
  BY <1>1, <1>2, <1>3, SendKeeps
<1> QED
  BY <1>5, <1>6 DEF Inv, Behind, AtRest

\* Every step keeps the invariant.
LEMMA StepInv == Inv /\ [Next]_vars => Inv'
<1> SUFFICES ASSUME Inv, [Next]_vars PROVE Inv'
  OBVIOUS
<1>1. CASE Load
  BY <1>1, LoadKeeps
<1>2. CASE SendRow
  BY <1>2, SendRowKeeps
<1>3. CASE CheckFeedback
  BY <1>3, CheckKeeps
<1>4. CASE Interrupt
  BY <1>4, InterruptKeeps
<1>5. CASE SendIdle
  BY <1>5, SendIdleKeeps
<1>6. CASE PackageMissing
  BY <1>6 DEF PackageMissing, Inv, TypeOK, WithinSetpoints, FenceHolds, StaysGentle,
              Gentle, NoFalseAlarm, Behind, AtRest
<1>7. CASE UNCHANGED vars
  BY <1>7 DEF vars, Inv, TypeOK, WithinSetpoints, FenceHolds, StaysGentle, Gentle,
              NoFalseAlarm, Behind, OneWay, AtRest
<1> QED
  BY <1>1, <1>2, <1>3, <1>4, <1>5, <1>6, <1>7 DEF Next, Exited, Ended

\* The invariant holds in every state of a dry run.
THEOREM Invariance == Spec => []Inv
BY InitInv, StepInv, PTL DEF Spec

-----------------------------------------------------------------------------
(* The theorems of the dry run *)

\* Whatever the trajectory, no joint leaves the range its setpoints have spanned
\* with its rest position (hil_runner.py:87-97).
THEOREM WithinSetpointsTheorem == Spec => []WithinSetpoints
<1>1. Inv => WithinSetpoints
  BY DEF Inv
<1> QED
  BY <1>1, Invariance, PTL

\* A trajectory within the fence and half of what the time constant makes of the
\* velocity limit never aborts a dry run, for any limits, interval and time
\* constant (hil_runner.py:95-97, 150-161).
THEOREM NoFalseAlarmTheorem == Spec => []NoFalseAlarm
<1>1. Inv => NoFalseAlarm
  BY DEF Inv
<1> QED
  BY <1>1, Invariance, PTL

\* No row is sent while a joint is further out than the fence and half a step of
\* the frame (hil_runner.py:105-108, 150-161).
THEOREM FenceTheorem == Spec => []FenceHolds
<1>1. Inv => FenceHolds
  BY DEF Inv
<1> QED
  BY <1>1, Invariance, PTL

\* On trajectories that go one way the simulated joints follow without overtaking
\* their setpoint or turning back (hil_runner.py:92-97).
THEOREM NoOvershootTheorem == Spec => NoOvershoot
<1> DEFINE Follows == pc = "send" => \A j \in Joints : OneWay(j) =>
                          /\ Between(pos'[j], trajectory[row][j])
                          /\ Between(pos[j], pos'[j])
<1>1. Inv /\ [Next]_vars => [Follows]_vars
  <2> SUFFICES ASSUME Inv, Next, pc = "send", NEW j \in Joints, OneWay(j)
               PROVE  Between(pos'[j], trajectory[row][j]) /\ Between(pos[j], pos'[j])
    OBVIOUS
  <2>1. CASE SendRow
    BY <2>1, SendFollows DEF SendRow
  <2>2. CASE Interrupt
    <3>1. PICK k \in Joints : Send(0 .. k - 1, trajectory[row])
      BY <2>2 DEF Interrupt
    <3> QED
      BY <3>1, SendFollows
  <2>3. CASE PackageMissing
    <3>1. pos' = pos /\ pos[j] \in Int
      BY <2>3 DEF PackageMissing, Inv, TypeOK, Row
    <3>2. Between(pos[j], trajectory[row][j])
      BY DEF Inv, Behind
    <3> QED
      BY <3>1, <3>2 DEF Between
  <2> QED
    BY <2>1, <2>2, <2>3 DEF Next, Load, CheckFeedback, SendIdle, Exited, Ended
<1> QED
  BY <1>1, Invariance, PTL DEF Spec, NoOvershoot

-----------------------------------------------------------------------------
(* The scripts replay as the dry run does *)

\* Writing a log and reading a file change nothing of the replay.
LEMMA BenchSteps == [BenchNext]_benchVars => [Next]_vars
BY DEF BenchNext, benchVars, Next, CheckAndLog, InterruptAndLog

\* The scripts one after the other replay as DryRun says, so that all of its
\* theorems hold of them (hil_runner.py:170-291).
THEOREM BenchImplementsDryRun == BenchSpec => Spec
<1>1. BenchInit => Init
  BY DEF BenchInit
<1> QED
  BY <1>1, BenchSteps, PTL DEF BenchSpec, Spec

\* The invariant of the replay, with the file it is of.
BenchInv == /\ Inv
            /\ file \in Files /\ trajectory = load_trajectory(file)
            /\ pc \in {"load", "send", "check"} => abort = "none"

LEMMA BenchInvariance == BenchSpec => []BenchInv
<1>1. BenchInit => BenchInv
  BY InitInv DEF BenchInit, BenchInv, Init
<1>2. BenchInv /\ [BenchNext]_benchVars => BenchInv'
  <2> SUFFICES ASSUME BenchInv, [BenchNext]_benchVars PROVE BenchInv'
    OBVIOUS
  <2>1. Inv'
    BY BenchSteps, StepInv DEF BenchInv
  <2>2. file' = file /\ trajectory' = trajectory
    BY DEF BenchNext, benchVars, vars, CheckAndLog, InterruptAndLog, CheckFeedback,
           Interrupt, Load, SendRow, PackageMissing, SendIdle, Exited
  <2>3. pc' \in {"load", "send", "check"} => abort' = "none"
    BY DEF BenchInv, BenchNext, benchVars, vars, CheckAndLog, InterruptAndLog,
           CheckFeedback, Interrupt, Load, SendRow, PackageMissing, SendIdle, Exited
  <2>4. load_trajectory(file)' = load_trajectory(file)
    BY <2>2 DEF load_trajectory
  <2> QED
    BY <2>1, <2>2, <2>3, <2>4 DEF BenchInv
<1> QED
  BY <1>1, <1>2, PTL DEF BenchSpec

-----------------------------------------------------------------------------
(* The log *)

\* The numbers of a line.
LogLine == [row : Nat, joint : Nat, position : Int, velocity : Int]

\* A line in its turn, of a frame within the limits.
GoodLine(i, line) ==
    /\ i = NUM_JOINTS * (line.row - 1) + line.joint + 1
    /\ line.joint \in Joints
    /\ ~Outside(line.position, MaxPosition)
    /\ ~Outside(line.velocity, MaxVelocity)

\* How much is logged before the row that is next, and when the replay has ended.
LogLength ==
    /\ pc \in {"load", "send", "check"} => Len(log) = NUM_JOINTS * (row - 1)
    /\ pc = "idle" /\ abort = "none" => Len(log) = NUM_JOINTS * Len(trajectory)
    /\ pc = "idle" /\ abort = "breach" =>
          \E j \in Joints : Len(log) = NUM_JOINTS * (row - 1) + j /\ Breaches(j)

LogInv == /\ log \in Seq(LogLine)
          /\ \A i \in 1 .. Len(log) : GoodLine(i, log[i])
          /\ LogLength

\* A frame holds numbers.
LEMMA LineType ==
    ASSUME TypeOK, NEW j \in Joints
    PROVE  Line(j) \in LogLine
<1>1. pos[j] \in Int /\ lag[j] \in Int /\ row \in Nat /\ j \in Nat
  BY JointsAssumption DEF TypeOK, Row, Joints
<1>2. PosScale \in Nat \ {0} /\ PosScale * Tau \in Nat \ {0} /\ 100 * lag[j] \in Int
  BY <1>1, DryRunAssumption
<1>3. \A a \in Int, n \in Nat \ {0} : UnpackI16(PackI16(HostI16(a, n))) \in Int
  <2> TAKE a \in Int, n \in Nat \ {0}
  <2>1. HostI16(a, n) \in Int16
    BY HostFits
  <2>2. UnpackI16(PackI16(HostI16(a, n))) = HostI16(a, n)
    BY <2>1, FrameKeepsNumber
  <2> QED
    BY <2>1, <2>2, HalfWordType DEF Int16
<1> QED
  BY <1>1, <1>2, <1>3 DEF Line, LogLine, decode_feedback, Feedback

\* What is where in a log with more lines after it.
LEMMA Appended ==
    \A s, t \in Seq(LogLine) :
        /\ s \o t \in Seq(LogLine) /\ Len(s \o t) = Len(s) + Len(t)
        /\ \A i \in 1 .. Len(s) : (s \o t)[i] = s[i]
        /\ \A i \in 1 .. Len(t) : (s \o t)[Len(s) + i] = t[i]
OBVIOUS

\* The lines of the frames that pass, in the state they are read in.
LEMMA LinesAreGood ==
    ASSUME BenchInv, LogInv, pc = "check", NEW n \in 0 .. NUM_JOINTS, Pass(n), WriteLines(n)
    PROVE  /\ log' \in Seq(LogLine)
           /\ \A i \in 1 .. Len(log') : GoodLine(i, log'[i])
           /\ Len(log') = NUM_JOINTS * (row - 1) + n
<1> DEFINE lines == [i \in 1 .. n |-> Line(i - 1)]
<1>1. NUM_JOINTS \in Nat /\ n \in Nat /\ row \in Nat
  BY JointsAssumption DEF BenchInv, Inv, TypeOK
<1>2. \A i \in 1 .. n : i - 1 \in Joints
  BY <1>1 DEF Joints
<1>3. lines \in Seq(LogLine) /\ Len(lines) = n /\ \A i \in 1 .. n : lines[i] = Line(i - 1)
  <2>1. \A i \in 1 .. n : Line(i - 1) \in LogLine
    BY <1>2, LineType DEF BenchInv, Inv
  <2> QED
    BY <1>1, <2>1
<1>4. log' = log \o lines
  BY DEF WriteLines
<1>5. log \in Seq(LogLine) /\ Len(log) = NUM_JOINTS * (row - 1)
  BY DEF LogInv, LogLength
<1> HIDE DEF lines
<1>6. /\ log' \in Seq(LogLine) /\ Len(log') = Len(log) + n
      /\ \A i \in 1 .. Len(log) : log'[i] = log[i]
      /\ \A i \in 1 .. n : log'[Len(log) + i] = lines[i]
  <2>1. log \in Seq(LogLine) /\ lines \in Seq(LogLine) /\ Len(lines) = n
    BY <1>3, <1>5
  <2>2. /\ log \o lines \in Seq(LogLine) /\ Len(log \o lines) = Len(log) + Len(lines)
        /\ \A i \in 1 .. Len(log) : (log \o lines)[i] = log[i]
        /\ \A i \in 1 .. Len(lines) : (log \o lines)[Len(log) + i] = lines[i]
    BY <2>1, Appended, Zenon
  <2>3. /\ Len(log') = Len(log) + n
        /\ \A i \in 1 .. n : log'[Len(log) + i] = lines[i]
    BY <1>4, <2>1, <2>2, Zenon
  <2> QED
    BY <1>4, <2>2, <2>3, Zenon
<1>7. Len(log) \in Nat
  BY <1>5
<1>8. ASSUME NEW i \in 1 .. n PROVE GoodLine(Len(log) + i, Line(i - 1))
  <2>1. ~Breaches(i - 1)
    BY <1>1, <1>8 DEF Pass
  <2>2. /\ ~Outside(Line(i - 1).position, MaxPosition)
        /\ ~Outside(Line(i - 1).velocity, MaxVelocity)
    BY <2>1 DEF Breaches, Line
  <2>3. Line(i - 1).row = row /\ Line(i - 1).joint = i - 1
    BY DEF Line
  <2>4. Len(log) + i = NUM_JOINTS * (row - 1) + (i - 1) + 1
    <3> DEFINE before == NUM_JOINTS * (row - 1)
    <3>1. Len(log) = before /\ before \in Int
      BY <1>5, <1>7
    <3> HIDE DEF before
    <3>2. Len(log) + i = before + (i - 1) + 1
      BY <1>1, <3>1
    <3> QED
      BY <3>2 DEF before
  <2> QED
    BY <1>2, <1>8, <2>2, <2>3, <2>4 DEF GoodLine
<1>9. ASSUME NEW i \in 1 .. Len(log') PROVE GoodLine(i, log'[i])
  <2>1. CASE i \in 1 .. Len(log)
    BY <1>6, <2>1 DEF LogInv
  <2>2. CASE i \notin 1 .. Len(log)
    <3>1. i - Len(log) \in 1 .. n /\ Len(log) + (i - Len(log)) = i
      BY <1>1, <1>6, <1>7, <2>2
    <3>2. log'[i] = Line((i - Len(log)) - 1)
      BY <1>3, <1>6, <3>1
    <3> QED
      BY <1>8, <3>1, <3>2
  <2> QED
    BY <2>1, <2>2
<1> QED
  BY <1>5, <1>6, <1>9

\* Every step leaves the log complete, in order and free of breaches.
LEMMA LogKeeps ==
    ASSUME BenchInv, LogInv, BenchNext
    PROVE  LogInv'
<1>1. NUM_JOINTS \in Nat \ {0} /\ row \in Nat \ {0} /\ NUM_JOINTS * (row - 1) \in Nat
  BY JointsAssumption DEF BenchInv, Inv, TypeOK
<1>2. CASE CheckAndLog
  <2>1. PICK n \in 0 .. NUM_JOINTS : Logged(n) /\ WriteLines(n)
    BY <1>2 DEF CheckAndLog
  <2>2. pc = "check" /\ row <= Len(trajectory) /\ Len(trajectory) \in Nat
    BY <1>2, DryRunAssumption DEF CheckAndLog, CheckFeedback, BenchInv, Inv, TypeOK
  <2>3. /\ log' \in Seq(LogLine)
        /\ \A i \in 1 .. Len(log') : GoodLine(i, log'[i])
        /\ Len(log') = NUM_JOINTS * (row - 1) + n
    BY <2>1, <2>2, LinesAreGood DEF Logged
  <2>4. trajectory' = trajectory /\ pos' = pos /\ lag' = lag /\ abort = "none"
    BY <1>2, <2>2 DEF CheckAndLog, CheckFeedback, BenchInv
  <2>5. CASE Breach
    <3>1. n \in Joints /\ Breaches(n)
      BY <1>1, <2>1, <2>5 DEF Breach, Logged, Pass, Joints
    <3>2. pc' = "idle" /\ abort' = "breach" /\ row' = row
      BY <1>2, <2>5 DEF CheckAndLog, CheckFeedback
    <3>3. Breaches(n)'
      BY <2>4, <3>1 DEF Breaches, Feedback
    <3> QED
      BY <2>3, <3>1, <3>2, <3>3 DEF LogInv, LogLength, GoodLine
  <2>6. CASE ~Breach
    <3>1. n = NUM_JOINTS
      BY <1>1, <2>1, <2>6 DEF Breach, Logged, Joints
    <3>2. Len(log') = NUM_JOINTS * row
      BY <1>1, <2>3, <3>1
    <3>3. abort' = "none"
      BY <1>2, <2>4, <2>6 DEF CheckAndLog, CheckFeedback
    <3>4. \/ pc' = "send" /\ row' = row + 1
          \/ pc' = "idle" /\ row = Len(trajectory')
      BY <1>1, <1>2, <2>2, <2>4, <2>6 DEF CheckAndLog, CheckFeedback
    <3>5. LogLength'
      <4>1. CASE pc' = "send" /\ row' = row + 1
        <5>1. row' - 1 = row
          BY <1>1, <4>1
        <5> QED
          BY <3>2, <4>1, <5>1 DEF LogLength
      <4>2. CASE pc' = "idle" /\ row = Len(trajectory')
        BY <3>2, <3>3, <4>2 DEF LogLength
      <4> QED
        BY <3>4, <4>1, <4>2
    <3> QED
      BY <2>3, <3>5 DEF LogInv, GoodLine
  <2> QED
    BY <2>5, <2>6
<1>3. CASE InterruptAndLog
  <2>1. pc' = "idle" /\ abort' = "operator"
    BY <1>3 DEF InterruptAndLog, Interrupt
  <2>2. LogLength'
    BY <2>1 DEF LogLength
  <2>3. CASE pc = "send" /\ UNCHANGED log
    BY <2>2, <2>3 DEF LogInv, GoodLine
  <2>4. CASE pc = "check" /\ \E n \in 0 .. NUM_JOINTS : Pass(n) /\ WriteLines(n)
    <3>1. PICK n \in 0 .. NUM_JOINTS : Pass(n) /\ WriteLines(n)
      BY <2>4
    <3> QED
      BY <2>2, <2>4, <3>1, LinesAreGood DEF LogInv, GoodLine
  <2> QED
    BY <1>3, <2>3, <2>4 DEF InterruptAndLog
<1>4. CASE (Load \/ SendRow \/ PackageMissing) /\ UNCHANGED <<file, log>>
  <2>1. /\ row' = row /\ trajectory' = trajectory
        /\ pc \in {"load", "send"} /\ pc' \in {"empty", "send", "check", "crashed"}
    BY <1>4 DEF Load, SendRow, PackageMissing
  <2> QED
    BY <1>4, <2>1 DEF LogInv, LogLength, GoodLine
<1>5. CASE (SendIdle \/ Exited) /\ UNCHANGED <<file, log>>
  <2>1. pc' \in {"done", "empty", "crashed"}
    BY <1>5 DEF SendIdle, Exited, Ended, vars
  <2> QED
    BY <1>5, <2>1 DEF LogInv, LogLength, GoodLine
<1> QED
  BY <1>2, <1>3, <1>4, <1>5 DEF BenchNext

\* Of any file, with any limits, the log is the check's own record
\* (hil_runner.py:246-259, can_protocol.py:124-135).
THEOREM LogIsWhatPassedTheorem == BenchSpec => []LogIsWhatPassed
<1>1. BenchInit => LogInv
  <2> SUFFICES ASSUME BenchInit PROVE LogInv
    OBVIOUS
  <2>1. pc = "load" /\ row = 1 /\ log = <<>> /\ NUM_JOINTS * (1 - 1) = 0
    BY JointsAssumption DEF BenchInit, Init
  <2> QED
    BY <2>1 DEF LogInv, LogLength
<1>2. BenchInv /\ LogInv /\ [BenchNext]_benchVars => LogInv'
  <2>1. ASSUME LogInv, UNCHANGED benchVars PROVE LogInv'
    BY <2>1 DEF benchVars, vars, LogInv, LogLength, GoodLine, Breaches, Feedback
  <2> QED
    BY <2>1, LogKeeps
<1>3. LogInv => LogIsWhatPassed
  BY DEF LogInv, LogLength, GoodLine, LogIsWhatPassed
<1> QED
  BY <1>1, <1>2, <1>3, BenchInvariance, PTL DEF BenchSpec

-----------------------------------------------------------------------------
(* The figure *)

\* Of any table of numbers in the joints' columns, with whatever other columns, the
\* figure shows what was sent, or there is none because a column has text
\* (hil_runner.py:130-141, plot_trajectory.py:28-38, 153-188).
THEOREM FigureShowsCommandsTheorem == BenchSpec => []FigureShowsCommands
<1>1. BenchInv => FigureShowsCommands
  <2> SUFFICES ASSUME BenchInv, pc \notin {"load", "empty"}, NEW asked \in SUBSET Joints
               PROVE  LET figure == PlotTrajectory(file, asked)
                          commands(j) == [i \in 1 .. Len(trajectory) |-> trajectory[i][j]]
                      IN /\ figure.end = "crash" <=> file.text
                         /\ figure.end # "crash" =>
                               \A j \in asked :
                                  IF j \in DOMAIN figure.curves
                                  THEN figure.curves[j] = commands(j)
                                  ELSE commands(j) = [i \in 1 .. Len(trajectory) |-> 0]
    BY DEF FigureShowsCommands
  <2> DEFINE figure == PlotTrajectory(file, asked)
             commands(j) == [i \in 1 .. Len(trajectory) |-> trajectory[i][j]]
             available == asked \cap file.columns
             shown == \A j \in asked :
                         IF j \in DOMAIN figure.curves
                         THEN figure.curves[j] = commands(j)
                         ELSE commands(j) = [i \in 1 .. Len(trajectory) |-> 0]
  <2>1. /\ file.rows \in Seq([file.columns -> Int]) /\ file.columns \subseteq Joints
        /\ ~file.exists => file.rows = <<>>
    BY BenchAssumption DEF BenchInv
  <2>2. trajectory \in Seq(Row) /\ row \in Nat \ {0} /\ row <= Len(trajectory)
    BY DryRunAssumption DEF BenchInv, Inv, TypeOK
  <2>3. trajectory = load_trajectory(file)
    BY DEF BenchInv
  <2>4. /\ Len(trajectory) = Len(file.rows)
        /\ \A i \in 1 .. Len(trajectory), j \in Joints :
              trajectory[i][j] = IF j \in file.columns THEN file.rows[i][j] ELSE 0
    <3>1. Len(file.rows) \in Nat
      BY <2>1
    <3> QED
      BY <2>3, <3>1 DEF load_trajectory
  <2>5. file.rows # <<>> /\ file.exists
    BY <2>1, <2>2, <2>4
\* The three ways a plot of a file with rows may end.
  <2>6. /\ file.text => figure = Ends("crash")
        /\ ~file.text /\ available = {} => figure = Ends("exit")
        /\ ~file.text /\ available # {} =>
              figure = [end |-> "figure", curves |-> [j \in available |-> Curves(file)[j]]]
    BY <2>5 DEF PlotTrajectory, PlotTrajectoryOnly, Draws, Loads, EndsEarly
  <2>7. \A j \in available : Curves(file)[j] = commands(j)
    <3> TAKE j \in available
    <3>1. Curves(file)[j] = [i \in 1 .. Len(file.rows) |-> file.rows[i][j]]
      BY DEF Curves
    <3>2. \A i \in 1 .. Len(trajectory) : trajectory[i][j] = file.rows[i][j]
      BY <2>1, <2>4
    <3> QED
      BY <2>4, <3>1, <3>2
  <2>8. \A j \in asked \ available : commands(j) = [i \in 1 .. Len(trajectory) |-> 0]
    <3> TAKE j \in asked \ available
    <3>1. \A i \in 1 .. Len(trajectory) : trajectory[i][j] = 0
      BY <2>4
    <3> QED
      BY <3>1
  <2>9. CASE file.text
    BY <2>6, <2>9 DEF Ends
  <2>10. CASE ~file.text /\ available = {}
    <3>1. DOMAIN figure.curves = {} /\ figure.end = "exit"
      <4>1. DOMAIN (<<>>) = {}
        OBVIOUS
      <4> QED
        BY <2>6, <2>10, <4>1 DEF Ends
    <3>2. shown
      <4> HIDE DEF figure, commands
      <4> QED
        BY <2>8, <2>10, <3>1
    <3> QED
      BY <2>10, <3>1, <3>2, Zenon
  <2>11. CASE ~file.text /\ available # {}
    <3>1. /\ DOMAIN figure.curves = available /\ figure.end = "figure"
          /\ \A j \in available : figure.curves[j] = Curves(file)[j]
      BY <2>6, <2>11
    <3>2. shown
      <4> HIDE DEF figure, commands
      <4> QED
        BY <2>7, <2>8, <3>1
    <3> QED
      BY <2>11, <3>1, <3>2, Zenon
  <2> QED
    BY <2>9, <2>10, <2>11
<1> QED
  BY <1>1, BenchInvariance, PTL
=============================================================================
