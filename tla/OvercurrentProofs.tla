------------------------- MODULE OvercurrentProofs -------------------------
(***************************************************************************)
(* What holds of the bus protection for every load profile, threshold and  *)
(* time constant.                                                           *)
(***************************************************************************)
EXTENDS Overcurrent, NumberProofs, WellFoundedInduction

\* Of two lags towards a target below both, the one behind does not overtake.
LEMMA LagsKeepOrder ==
    ASSUME NEW t \in Int, NEW p \in Int, NEW g \in Int, t <= p, p <= g,
           NEW n \in Nat \ {0}
    PROVE  Towards(p, t, 1, n) <= Towards(g, t, 1, n)
<1> DEFINE x == p - t
           d == g - p
           q == x \div n
           r == (x + d) \div n
<1>1. x \in Nat /\ d \in Nat
  OBVIOUS
<1> HIDE DEF x, d
<1>2. q \in Int /\ x < n * q + n
  BY <1>1, Z3
<1>3. r \in Int /\ n * r <= x + d
  BY <1>1, Z3
<1> HIDE DEF q, r
<1>4. r <= q + d
  <2> SUFFICES ASSUME q + 1 + d <= r PROVE FALSE
    BY <1>1, <1>2, <1>3
  <2>1. n * (q + 1 + d) <= n * r
    BY <1>1, <1>2, <1>3, ProductOrder
  <2>2. n * (q + 1 + d) = n * q + n + n * d
    BY <1>1, <1>2
  <2>3. d <= n * d
    BY <1>1
  <2>4. n * q \in Int /\ n * r \in Int /\ n * d \in Int
    BY <1>1, <1>2, <1>3
  <2> QED
    BY <1>1, <1>2, <1>3, <2>1, <2>2, <2>3, <2>4
<1>5. Quotient(1 * (t - p), n) = -q
  <2>1. CASE x = 0
    <3>1. 0 \div n = 0
      BY NaturalQuotient
    <3> QED
      BY <2>1, <3>1 DEF Quotient, q, x
  <2>2. CASE x > 0
    <3>1. t - p < 0 /\ -(1 * (t - p)) = x
      BY <2>2 DEF x
    <3> QED
      BY <3>1 DEF Quotient, q
  <2> QED
    BY <1>1, <2>1, <2>2
<1>6. Quotient(1 * (t - g), n) = -r
  <2>1. CASE x + d = 0
    <3>1. 0 \div n = 0
      BY NaturalQuotient
    <3> QED
      BY <2>1, <3>1 DEF Quotient, r, x, d
  <2>2. CASE x + d > 0
    <3>1. t - g < 0 /\ -(1 * (t - g)) = x + d
      BY <2>2 DEF x, d
    <3> QED
      BY <3>1 DEF Quotient, r
  <2> QED
    BY <1>1, <2>1, <2>2
<1>7. Towards(p, t, 1, n) = p - q /\ Towards(g, t, 1, n) = g - r
  BY <1>2, <1>3, <1>5, <1>6 DEF Towards
<1> QED
  BY <1>2, <1>3, <1>4, <1>7 DEF d

-----------------------------------------------------------------------------
(* The inductive invariant *)

\* Until the load has been above the trip current nothing moves the gate: the
\* current cannot have exceeded it either.
Calm == ~faulty => /\ load <= TripCurrent /\ demand <= TripCurrent
                   /\ closed /\ ~opened /\ gate = VHigh

\* The switch has opened if it is open.
OpenIsOpened == ~closed => opened

\* A sample below vth is of a fault, and the switch does not open without one.
FoundInTime ==
    /\ below > 0 => faulty
    /\ below = 1 => gate < VTh
    /\ opened => below > 0
    /\ faulty /\ gate < VTh => below > 0

Inv == TypeOK /\ Calm /\ OpenIsOpened /\ FoundInTime

\* The circuit starts with the gate charged.
LEMMA InitInv == Init => Inv
<1> SUFFICES ASSUME Init PROVE Inv
  OBVIOUS
<1>1. TypeOK
  <2>1. load \in 0 .. MaxLoad /\ load <= TripCurrent /\ demand \in Nat
    BY CircuitAssumption DEF Init
  <2>2. VHigh \in VLow .. VHigh /\ VHigh \in PredictLow .. VHigh
        /\ PredictDelay \in 0 .. PredictDelay /\ 0 \in 0 .. MaxChanges
        /\ 0 \in 0 .. MaxOver /\ 0 \in 0 .. BusVoltage
    BY CircuitAssumption
  <2>3. closed \in BOOLEAN /\ {faulty, opened} \subseteq BOOLEAN
    BY Zenon DEF Init
  <2>4. /\ sag = 0 /\ below = 0 /\ over = 0 /\ changes = 0 /\ due = PredictDelay
        /\ gate = VHigh /\ predicted = VHigh
    BY DEF Init
  <2> QED
    BY <2>1, <2>2, <2>3, <2>4 DEF TypeOK
<1> QED
  BY <1>1, CircuitAssumption
     DEF Init, Inv, Calm, OpenIsOpened, FoundInTime

\* A trip needs a fault.
LEMMA TripIsFault ==
    ASSUME Inv
    PROVE  Trips \in BOOLEAN /\ (Trips => faulty)
<1>1. TripCurrent \in Nat
  BY CircuitAssumption
<1> QED
  BY <1>1 DEF Inv, TypeOK, Calm, Trips, Sensed

\* The gate keeps within its two voltages, and at the higher one until a fault;
\* the analysis's keeps within its own.
LEMMA GateMoves ==
    ASSUME Inv, Step
    PROVE  /\ gate' \in VLow .. VHigh /\ predicted' \in PredictLow .. VHigh
           /\ ~faulty => gate' = VHigh
<1>1. /\ VLow \in Int /\ VHigh \in Int /\ VLow <= VHigh
      /\ PredictLow \in Int /\ PredictLow <= VHigh
      /\ GateTau \in Nat \ {0} /\ 1 \in Nat /\ 1 <= GateTau
      /\ PredictTau \in Nat \ {0} /\ 1 <= PredictTau
  BY CircuitAssumption
<1>2. gate \in VLow .. VHigh /\ predicted \in PredictLow .. VHigh
  BY DEF Inv, TypeOK
<1>3. gate' = Towards(gate, IF Trips THEN VLow ELSE VHigh, 1, GateTau)
  BY DEF Step, GateAfter
<1>4. predicted' = IF faulty /\ due = 0
                   THEN Towards(predicted, PredictLow, 1, PredictTau) ELSE predicted
  BY DEF Step, PredictedAfter
<1>5. PredictLow <= predicted' /\ predicted' <= predicted /\ predicted' \in Int
  BY <1>1, <1>2, <1>4, TowardsBetween
<1>6. CASE Trips
  <2>1. gate' = Towards(gate, VLow, 1, GateTau)
    BY <1>3, <1>6
  <2>2. VLow <= gate' /\ gate' <= gate /\ gate' \in Int
    BY <1>1, <1>2, <2>1, TowardsBetween
  <2> QED
    BY <1>1, <1>2, <1>5, <1>6, <2>2, TripIsFault
<1>7. CASE ~Trips
  <2>1. gate' = Towards(gate, VHigh, 1, GateTau)
    BY <1>3, <1>7
  <2>2. gate <= gate' /\ gate' <= VHigh /\ gate' \in Int
    BY <1>1, <1>2, <2>1, TowardsBetween
  <2>3. ~faulty => gate = VHigh
    BY DEF Inv, Calm
  <2> QED
    BY <1>1, <1>2, <1>5, <2>2, <2>3
<1> QED
  BY <1>6, <1>7

\* The current follows the load while the switch is closed and grows while it
\* is open.
LEMMA DemandMoves ==
    ASSUME Inv, Step
    PROVE  demand' \in Nat /\ (~faulty => demand' <= TripCurrent)
<1>1. load \in Nat /\ demand \in Nat /\ BusTau \in Nat \ {0} /\ TripCurrent \in Nat
  BY CircuitAssumption DEF Inv, TypeOK
<1>2. demand' = demand + Quotient(load - Sensed, BusTau)
  BY DEF Step, DemandAfter
<1>3. CASE closed
  <2>1. demand' = Towards(demand, load, 1, BusTau)
    BY <1>1, <1>2, <1>3 DEF Towards, Sensed
  <2>2. /\ demand' \in Int
        /\ demand <= load => demand <= demand' /\ demand' <= load
        /\ load <= demand => load <= demand' /\ demand' <= demand
    <3>1. 1 \in Nat /\ 1 <= BusTau /\ load \in Int /\ demand \in Int
      BY <1>1
    <3> QED
      BY <1>1, <2>1, <3>1, TowardsBetween
  <2>3. ~faulty => load <= TripCurrent /\ demand <= TripCurrent
    BY DEF Inv, Calm
  <2> QED
    BY <1>1, <2>2, <2>3
<1>4. CASE ~closed
  <2>1. load - Sensed = load
    BY <1>1, <1>4 DEF Sensed
  <2>2. Quotient(load, BusTau) \in Nat
    <3>1. load <= load * BusTau
      BY <1>1
    <3>2. load \div BusTau \in Nat
      BY <1>1, <3>1, NaturalQuotient
    <3> QED
      BY <1>1, <3>2 DEF Quotient
  <2>3. faulty
    BY <1>4 DEF Inv, Calm
  <2> QED
    BY <1>1, <1>2, <2>1, <2>2, <2>3
<1> QED
  BY <1>3, <1>4

\* The analysis's bus falls to 0 V and no further.
LEMMA SagMoves ==
    ASSUME Inv, Step
    PROVE  sag' \in 0 .. BusVoltage
<1> DEFINE q == Quotient(MaxLoad, BusTau)
<1>1. /\ MaxLoad \in Nat /\ BusTau \in Nat \ {0} /\ BusVoltage \in Nat
      /\ sag \in Nat /\ sag <= BusVoltage
  BY CircuitAssumption DEF Inv, TypeOK
<1>2. q \in Nat
  BY <1>1, Z3 DEF Quotient
<1>3. sag' = IF predicted >= VTh THEN sag
             ELSE IF sag + q < BusVoltage THEN sag + q ELSE BusVoltage
  BY DEF Step, SagAfter
<1> HIDE DEF q
<1> QED
  BY <1>1, <1>2, <1>3

-----------------------------------------------------------------------------
(* The steps *)

\* A step of the circuit: no gate falls before a fault, and a gate that opens the
\* switch is below the threshold of find_trip_time.
LEMMA StepKeeps ==
    ASSUME Inv, Step
    PROVE  Inv'
<1>1. TypeOK'
  <2>1. /\ load' = load /\ changes' = changes /\ faulty' = faulty
        /\ over' = IF ~Trips THEN 0 ELSE IF over < MaxOver THEN over + 1 ELSE over
    BY DEF Step
  <2>2. over' \in 0 .. MaxOver
    BY <2>1, CircuitAssumption DEF Inv, TypeOK
  <2>3. closed' \in BOOLEAN
    BY DEF Step, ClosedAfter, Inv, TypeOK
  <2>4. below' \in 0 .. 2 /\ opened' \in BOOLEAN
    BY DEF Step, BelowAfter, Inv, TypeOK
  <2>5. due' \in 0 .. PredictDelay
    BY CircuitAssumption DEF Step, Inv, TypeOK
  <2> QED
    BY <2>1, <2>2, <2>3, <2>4, <2>5, GateMoves, DemandMoves, SagMoves DEF Inv, TypeOK
<1>2. gate' \in Int /\ (~faulty => gate' = VHigh)
  BY GateMoves, CircuitAssumption
<1>3. VOff <= VTh /\ VOff < VHigh /\ VOff \in Int /\ VTh \in Int /\ VHigh \in Int
  BY CircuitAssumption
<1>4. Calm'
  <2> SUFFICES ASSUME ~faulty
               PROVE  /\ load' <= TripCurrent /\ demand' <= TripCurrent
                      /\ closed' /\ ~opened' /\ gate' = VHigh
    BY DEF Calm, Step
  <2>1. load <= TripCurrent /\ closed /\ ~opened /\ gate' = VHigh
    BY <1>2 DEF Inv, Calm
  <2>2. demand' <= TripCurrent
    BY DemandMoves
  <2>3. closed'
    <3>1. closed' = ClosedAfter(gate')
      BY DEF Step
    <3>2. ~(gate' < VOff)
      BY <1>3, <2>1
    <3> QED
      BY <2>1, <3>1, <3>2 DEF ClosedAfter
  <2> QED
    BY <2>1, <2>2, <2>3 DEF Step
<1>5. OpenIsOpened'
  BY DEF OpenIsOpened, Step
<1>6. FoundInTime'
  <2>1. /\ below' = BelowAfter(gate') /\ faulty' = faulty
        /\ opened' = (opened \/ ~closed') /\ closed' = ClosedAfter(gate')
    BY DEF Step
  <2>2. below' > 0 => faulty'
    BY <2>1 DEF BelowAfter, Inv, TypeOK, FoundInTime
  <2>3. faulty' /\ gate' < VTh => below' > 0
    BY <2>1 DEF BelowAfter
  <2>4. below' = 1 => gate' < VTh
    BY <2>1 DEF BelowAfter
  <2>5. ASSUME opened' PROVE below' > 0
    <3>1. CASE ~closed \/ opened
      BY <2>1, <3>1 DEF BelowAfter, Inv, TypeOK, OpenIsOpened, FoundInTime
    <3>2. CASE closed /\ ~opened
      <4>1. gate' < VOff
        BY <2>1, <2>5, <3>2 DEF ClosedAfter
      <4>2. faulty /\ gate' < VTh
        BY <1>2, <1>3, <4>1
      <4> QED
        BY <2>1, <4>2 DEF BelowAfter, Inv, TypeOK
    <3> QED
      BY <3>1, <3>2 DEF Inv, TypeOK
  <2> QED
    BY <2>2, <2>3, <2>4, <2>5 DEF FoundInTime
<1> QED
  BY <1>1, <1>4, <1>5, <1>6 DEF Inv

\* A change of the load alone moves nothing, and a load above the trip current is
\* a fault.
LEMMA LoadKeeps ==
    ASSUME Inv, NEW i \in Loads, LoadChanges(i)
    PROVE  Inv'
<1> USE DEF LoadChanges
<1>1. i \in Nat /\ i \in 0 .. MaxLoad /\ TripCurrent \in Nat /\ MaxChanges \in Nat
  BY CircuitAssumption
<1>2. TypeOK'
  BY <1>1 DEF Inv, TypeOK
<1>3. Calm'
  BY <1>1 DEF Inv, Calm, TypeOK
\* A fault that begins with this load has found the gate charged.
<1>4. FoundInTime'
  <2>1. VTh <= VHigh /\ VTh \in Int /\ VHigh \in Int
    BY CircuitAssumption
  <2>2. ~faulty => gate = VHigh
    BY DEF Inv, Calm
  <2>3. faulty \in BOOLEAN /\ gate \in Int
    BY CircuitAssumption DEF Inv, TypeOK
  <2> QED
    BY <2>1, <2>2, <2>3 DEF Inv, FoundInTime
<1> QED
  BY <1>2, <1>3, <1>4 DEF Inv, OpenIsOpened

LEMMA InvStep == Inv /\ [Next]_vars => Inv'
<1> SUFFICES ASSUME Inv, [Next]_vars PROVE Inv'
  OBVIOUS
<1>1. CASE Step
  BY <1>1, StepKeeps
<1>2. CASE \E i \in Loads : LoadChanges(i)
  BY <1>2, LoadKeeps
<1>3. CASE UNCHANGED vars
  BY <1>3 DEF vars, circuit, history, Inv, TypeOK, Calm, OpenIsOpened, FoundInTime
<1> QED
  BY <1>1, <1>2, <1>3 DEF Next

\* The invariant holds in every state of the circuit.
THEOREM Invariance == Spec => []Inv
BY InitInv, InvStep, PTL DEF Spec

\* No load that stays at or below the trip current, however it varies, opens the
\* switch or moves its gate (overcurrent_protection.cir:6, 44-49).
THEOREM NoFalseTripTheorem == Spec => []NoFalseTrip
<1>1. Inv => NoFalseTrip
  BY DEF Inv, Calm, NoFalseTrip
<1> QED
  BY <1>1, Invariance, PTL

\* With a threshold at or above the switch's own, what is reported of the file of
\* a simulation, however short it was cut, is sound
\* (overcurrent_analysis.py:366-380, spice_parser.py:49-85).
THEOREM ReportIsSoundTheorem == Spec => []ReportIsSound
<1>1. Inv => ReportIsSound
  <2> SUFFICES ASSUME Inv, NEW last \in 0 .. Columns, NEW v \in LastGate(last)
               PROVE  /\ Report(last, v) = "trip" => faulty /\ below > 0
                      /\ last = Columns /\ opened => Report(last, v) = "trip"
    BY DEF ReportIsSound
  <2>1. last = Columns => v = gate
    BY DEF LastGate, Columns, GateColumn
  <2>2. ASSUME Report(last, v) = "trip" PROVE faulty /\ below > 0
    <3>1. CASE below = 2
      BY <3>1 DEF Inv, FoundInTime
    <3>2. CASE below # 2
      <4>1. load_wrdata(last) /\ last > 0 /\ faulty /\ v < VTh
        BY <2>2, <3>2 DEF Report
      <4>2. v = gate
        BY <2>1, <4>1 DEF load_wrdata
      <4> QED
        BY <4>1, <4>2 DEF Inv, FoundInTime
    <3> QED
      BY <3>1, <3>2
  <2>3. ASSUME last = Columns, opened PROVE Report(last, v) = "trip"
    <3>1. load_wrdata(last) /\ last > 0 /\ v = gate
      BY <2>1, <2>3 DEF load_wrdata, Columns
    <3>2. below \in {1, 2} /\ faulty /\ (below = 1 => gate < VTh)
      BY <2>3 DEF Inv, TypeOK, FoundInTime
    <3> QED
      BY <3>1, <3>2 DEF Report
  <2> QED
    BY <2>2, <2>3
<1> QED
  BY <1>1, Invariance, PTL

-----------------------------------------------------------------------------
(* How long an overcurrent lasts: the fall of the gate, by induction *)

\* A set of numbers with 0 and the number after each of its own has them all.
LEMMA Numbers ==
    ASSUME NEW S, 0 \in S, \A n \in Nat : n \in S => n + 1 \in S
    PROVE  Nat \subseteq S
<1> DEFINE less == OpToRel(<, Nat)
           T == Nat \ S
<1>1. IsWellFoundedOn(less, Nat)
  BY NatLessThanWellFounded
<1>2. \A a, b \in Nat : a < b => <<a, b>> \in less
  BY DEF OpToRel
<1> HIDE DEF less
<1> SUFFICES ASSUME T # {} PROVE FALSE
  OBVIOUS
<1>3. T \subseteq Nat
  OBVIOUS
<1>4. PICK x \in T : \A y \in T : ~(<<y, x>> \in less)
  <2> HIDE DEF T
  <2> QED
    BY <1>1, <1>3, WFMin
<1>5. x \in Nat \ {0}
  BY <1>4
<1>6. x - 1 \in Nat /\ x - 1 < x /\ (x - 1) + 1 = x
  BY <1>5
<1>7. x - 1 \notin S
  BY <1>4, <1>6
<1> QED
  BY <1>2, <1>4, <1>5, <1>6, <1>7

\* The recursion of Fall defines it.
LEMMA FallUnfolds ==
    Fall = [n \in 0 .. MaxOver |->
              IF n = 0 THEN VHigh ELSE Towards(Fall[n - 1], VLow, 1, GateTau)]
<1> DEFINE next(v) == Towards(v, VLow, 1, GateTau)
           falls(f, m) == f = [n \in 0 .. m |-> IF n = 0 THEN VHigh ELSE next(f[n - 1])]
           S == {m \in Nat : \E f : falls(f, m)}
<1>1. 0 \in S
  <2> DEFINE g == [n \in 0 .. 0 |-> VHigh]
  <2>1. g = [n \in 0 .. 0 |-> IF n = 0 THEN VHigh ELSE next(g[n - 1])]
    OBVIOUS
  <2> QED
    BY <2>1
<1>2. ASSUME NEW m \in Nat, m \in S PROVE m + 1 \in S
  <2> HIDE DEF next
  <2>1. PICK f : falls(f, m)
    BY <1>2
  <2> DEFINE g == [n \in 0 .. m + 1 |-> IF n = m + 1 THEN next(f[m]) ELSE f[n]]
  <2>2. ASSUME NEW n \in 0 .. m + 1
        PROVE  g[n] = IF n = 0 THEN VHigh ELSE next(g[n - 1])
    <3>1. CASE n = 0
      BY <2>1, <3>1
    <3>2. CASE n = m + 1
      BY <2>1, <3>2
    <3>3. CASE n \in 1 .. m
      <4>1. g[n] = f[n] /\ g[n - 1] = f[n - 1] /\ n \in 0 .. m /\ n # 0
        BY <3>3
      <4> QED
        BY <2>1, <4>1
    <3> QED
      BY <3>1, <3>2, <3>3
  <2>3. g = [n \in 0 .. m + 1 |-> g[n]]
    OBVIOUS
  <2> HIDE DEF g
  <2>4. falls(g, m + 1)
    BY <2>2, <2>3
  <2> QED
    BY <2>4
<1>3. MaxOver \in S
  <2> HIDE DEF S
  <2> QED
    BY <1>1, <1>2, Numbers, CircuitAssumption
<1> QED
  BY <1>3 DEF Fall

\* The fall is one of voltages.
LEMMA FallType == \A n \in 0 .. MaxOver : Fall[n] \in Int
<1> DEFINE S == {n \in Nat : n <= MaxOver => Fall[n] \in Int}
<1>1. VHigh \in Int /\ VLow \in Int /\ MaxOver \in Nat /\ GateTau \in Nat \ {0}
  BY CircuitAssumption
<1>2. 0 \in S
  <2>1. Fall[0] = VHigh
    BY <1>1, FallUnfolds
  <2> QED
    BY <1>1, <2>1
<1>3. ASSUME NEW n \in Nat, n \in S PROVE n + 1 \in S
  <2> SUFFICES ASSUME n + 1 <= MaxOver PROVE Fall[n + 1] \in Int
    BY <1>3
  <2>1. n + 1 \in 0 .. MaxOver /\ n + 1 # 0 /\ (n + 1) - 1 = n /\ Fall[n] \in Int
    BY <1>1, <1>3
  <2>2. Fall[n + 1] = Towards(Fall[n], VLow, 1, GateTau)
    BY <2>1, FallUnfolds
  <2>3. 1 \in Nat /\ 1 <= GateTau
    BY <1>1
  <2> QED
    BY <1>1, <2>1, <2>2, <2>3, TowardsBetween
<1> HIDE DEF S
<1>4. Nat \subseteq S
  BY <1>2, <1>3, Numbers
<1> QED
  BY <1>1, <1>4 DEF S

\* While the comparator trips the gate falls, from VHigh or from below.
Fallen == \A n \in 0 .. MaxOver : over >= n => gate <= Fall[n]

\* A gate below VOff has the switch open.
LowGateOpens == gate < VOff => ~closed

TripInv == Inv /\ Fallen /\ LowGateOpens /\ TripInTime

LEMMA TripInit == Init => TripInv
<1> SUFFICES ASSUME Init PROVE TripInv
  OBVIOUS
<1>1. Fall[0] = VHigh
  BY FallUnfolds, CircuitAssumption
<1>2. over = 0 /\ gate = VHigh
  BY DEF Init
<1>3. LowGateOpens /\ TripInTime
  BY <1>2, CircuitAssumption DEF LowGateOpens, TripInTime
<1>4. Fallen
  BY <1>1, <1>2, CircuitAssumption DEF Fallen
<1> QED
  BY <1>3, <1>4, InitInv DEF TripInv

\* After a step in which the comparator trips the gate has fallen one step more.
LEMMA TripFalls ==
    ASSUME TripInv, Step, Trips
    PROVE  Fallen' /\ TripInTime'
<1>1. /\ MaxOver \in Nat /\ over \in 0 .. MaxOver
      /\ gate \in Int /\ gate <= VHigh
      /\ VLow \in Int /\ VLow <= gate /\ VHigh \in Int /\ VOff \in Int
      /\ GateTau \in Nat \ {0} /\ 1 \in Nat /\ 1 <= GateTau
  BY CircuitAssumption DEF TripInv, Inv, TypeOK
<1>2. /\ over' = IF over < MaxOver THEN over + 1 ELSE over
      /\ gate' = Towards(gate, VLow, 1, GateTau)
  BY DEF Step, GateAfter
<1>3. gate' <= gate
  BY <1>1, <1>2, TowardsBetween
<1>4. gate' \in Int /\ gate' <= VHigh
  BY GateMoves, CircuitAssumption DEF TripInv
<1>5. Fallen'
  <2> SUFFICES ASSUME NEW n \in 0 .. MaxOver, over' >= n
               PROVE  gate' <= Fall[n]
    BY DEF Fallen
  <2>1. CASE n = 0
    <3>1. Fall[0] = VHigh
      BY <1>1, FallUnfolds
    <3> QED
      BY <1>4, <2>1, <3>1
  <2>2. CASE over >= n
    <3>1. gate <= Fall[n] /\ Fall[n] \in Int
      BY <2>2, FallType DEF TripInv, Fallen
    <3> QED
      BY <1>1, <1>3, <1>4, <3>1
  <2>3. CASE n > 0 /\ over < n
    <3>1. n - 1 \in 0 .. MaxOver /\ over >= n - 1
      BY <1>1, <1>2, <2>3
    <3>2. gate <= Fall[n - 1] /\ Fall[n - 1] \in Int
      BY <3>1, FallType DEF TripInv, Fallen
    <3>3. Towards(gate, VLow, 1, GateTau) <= Towards(Fall[n - 1], VLow, 1, GateTau)
      BY <1>1, <3>2, LagsKeepOrder
    <3>4. Fall[n] = Towards(Fall[n - 1], VLow, 1, GateTau)
      BY <1>1, <2>3, FallUnfolds
    <3> QED
      BY <1>2, <3>3, <3>4
  <2> QED
    BY <1>1, <2>1, <2>2, <2>3
\* A gate that low has the switch open, and an open switch does not trip.
<1>6. TripInTime'
  <2> SUFFICES ASSUME NEW n \in 0 .. MaxOver, Fall[n] < VOff
               PROVE  over' <= n
    BY DEF TripInTime
  <2>1. over <= n
    BY DEF TripInv, TripInTime
  <2>2. CASE over = n
    <3>1. gate <= Fall[n] /\ Fall[n] \in Int
      BY <1>1, <2>2, FallType DEF TripInv, Fallen
    <3>2. ~closed
      BY <1>1, <3>1 DEF TripInv, LowGateOpens
    <3>3. ~(0 > TripCurrent)
      BY CircuitAssumption
    <3> QED
      BY <3>2, <3>3 DEF Trips, Sensed
  <2>3. CASE over < n
    BY <1>1, <1>2, <2>3
  <2> QED
    BY <1>1, <2>1, <2>2, <2>3
<1> QED
  BY <1>5, <1>6

LEMMA TripStep == TripInv /\ [Next]_vars => TripInv'
<1> SUFFICES ASSUME TripInv, [Next]_vars PROVE TripInv'
  OBVIOUS
<1>1. Inv'
  BY InvStep DEF TripInv
<1>2. CASE Step
  <2>1. LowGateOpens'
    BY <1>2 DEF Step, ClosedAfter, LowGateOpens
  <2>2. CASE Trips
    BY <1>1, <1>2, <2>1, <2>2, TripFalls DEF TripInv
  <2>3. CASE ~Trips
    <3>1. over' = 0 /\ gate' \in Int /\ gate' <= VHigh
      BY <1>2, <2>3, GateMoves, CircuitAssumption DEF Step, TripInv
    <3>2. Fall[0] = VHigh
      BY FallUnfolds, CircuitAssumption
    <3>3. Fallen' /\ TripInTime'
      BY <3>1, <3>2, CircuitAssumption DEF Fallen, TripInTime
    <3> QED
      BY <1>1, <2>1, <3>3 DEF TripInv
  <2> QED
    BY <2>2, <2>3
<1>3. CASE UNCHANGED <<gate, closed, over>>
  BY <1>1, <1>3 DEF TripInv, Fallen, LowGateOpens, TripInTime
<1> QED
  BY <1>2, <1>3 DEF Next, LoadChanges, vars, circuit, history

\* For every load profile and time constant: a sensed overcurrent lasts no longer
\* than the fall of a fully charged gate (overcurrent_protection.cir:42-45).
THEOREM TripInTimeTheorem == Spec => []TripInTime
<1>1. TripInv => TripInTime
  BY DEF TripInv
<1> QED
  BY <1>1, TripInit, TripStep, PTL DEF Spec
=============================================================================
