----------------------------- MODULE Overcurrent -----------------------------
(***************************************************************************)
(* The bus protection of sim/spice/overcurrent_protection.cir, and what     *)
(* sim/analysis predicts of it and reads from its simulation.               *)
(*                                                                         *)
(* Time goes in steps of the transient analysis.  A first-order lag of n    *)
(* steps goes the n-th part of its way in each, rounded towards 0.  Voltages *)
(* and currents are integers in units of their own.                         *)
(*                                                                         *)
(* The capacitor is behind the sense resistor: while the switch is closed   *)
(* the sensed current follows the load with the lag of (Ron + Rsense) Cbus,  *)
(* and while it is open the load discharges the capacitor.  So the state of *)
(* the bus is the current `demand` that flows through the closed switch, the *)
(* drop of the bus below Vbus over Ron + Rsense.                            *)
(***************************************************************************)
EXTENDS FixedPoint

CONSTANTS
    Loads,       \* Iload
    MaxLoad,     \* the largest of them
    TripCurrent, \* Vref / Rsense
    VHigh,       \* the gate's voltage while the comparator's output is high
    VLow,        \* and what it falls to while it is low
    VOn, VOff,   \* the switch closes above Vt + Vh and opens below Vt - Vh
    GateTau,     \* the gate's time constant, in steps: Rcomp, Rpullup and Cgate
    BusTau,      \* that of the bus
    VTh,         \* V_TH of the analysis
    PredictLow,  \* v_ss of the analysis, which has R_GATE beside Rcomp
    PredictTau,  \* and its time constant of the gate
    PredictDelay,\* T_COMP_PROP, in steps; the netlist's comparator has no delay
    BusVoltage,  \* V_BUS, as the demand that pulls the bus to 0 V
    MaxChanges,  \* bound: changes of the load
    MaxOver      \* bound: where the history `over` stops counting

ASSUME CircuitAssumption ==
    /\ MaxLoad \in Nat /\ Loads \subseteq 0 .. MaxLoad
    /\ TripCurrent \in Nat
    /\ {VLow, VOff, VTh, VOn, VHigh, PredictLow} \subseteq Nat
    /\ VLow < VOff /\ VOff <= VTh /\ VTh <= VOn /\ VOn < VHigh
    /\ GateTau \in Nat \ {0} /\ BusTau \in Nat \ {0}
    /\ PredictLow < VTh /\ PredictTau \in Nat \ {0} /\ PredictDelay \in Nat
    /\ BusVoltage \in Nat /\ MaxChanges \in Nat /\ MaxOver \in Nat

VARIABLES
    load,       \* I(Iload)
    demand,     \* the current of the closed switch
    closed,     \* S1
    gate,       \* v(GATE)
    changes,    \* changes of the load so far
    faulty,     \* history: the load has been above the trip current
    predicted,  \* gate_voltage_waveform: the analysis of the gate's voltage
    due,        \* steps from the fault's onset until the analysis lets it fall
    over,       \* history: steps in a row with a sensed current above the trip
    sag,        \* the fall of v_bus in plot_fault_timeline, as a demand
    below,      \* history: samples since find_trip_time has its own, up to two
    opened      \* history: the switch has opened

circuit == <<load, demand, closed, gate>>
history == <<changes, faulty, predicted, due, sag, over, below, opened>>
vars == <<circuit, history>>

TypeOK ==
    /\ load \in 0 .. MaxLoad /\ demand \in Nat
    /\ closed \in BOOLEAN
    /\ gate \in VLow .. VHigh /\ predicted \in PredictLow .. VHigh
    /\ changes \in 0 .. MaxChanges
    /\ due \in 0 .. PredictDelay /\ over \in 0 .. MaxOver
    /\ sag \in 0 .. BusVoltage /\ below \in 0 .. 2
    /\ {faulty, opened} \subseteq BOOLEAN

\* The initial conditions: the capacitor is charged, the load one the switch
\* carries.
Init ==
    /\ load \in {i \in Loads : i <= TripCurrent} /\ demand = 0
    /\ closed = TRUE /\ gate = VHigh
    /\ changes = 0 /\ over = 0
    /\ predicted = VHigh /\ due = PredictDelay /\ sag = 0
    /\ faulty = FALSE /\ below = 0 /\ opened = FALSE

-----------------------------------------------------------------------------
(* overcurrent_protection.cir *)

\* Mutant: the current is sensed behind the capacitor's drop, not in the switch.
SensedBehind == demand

\* V(BUS_OUT) - V(SENSE_LO) over Rsense.
Sensed == IF closed THEN demand ELSE 0

\* Mutant: a reference 10 % low.
TripsLow == 10 * Sensed > 9 * TripCurrent

\* Bcomp: the reference against the sensed voltage.
Trips == Sensed > TripCurrent

\* Mutant: twice the output resistor.
GateAfterSlow == Towards(gate, IF Trips THEN VLow ELSE VHigh, 1, 2 * GateTau)

\* Rcomp and Cgate; Bcomp has no delay.
GateAfter == Towards(gate, IF Trips THEN VLow ELSE VHigh, 1, GateTau)

\* S1 with its hysteresis.
ClosedAfter(v) == IF v < VOff THEN FALSE ELSE IF v > VOn THEN TRUE ELSE closed

\* Cbus: with the switch open the load discharges it.
DemandAfter == demand + Quotient(load - Sensed, BusTau)

-----------------------------------------------------------------------------
(* sim/analysis *)

\* The analysis takes the load for the sensed current: its gate holds for its
\* comparator's delay after the onset and then falls to the end.
PredictedAfter ==
    IF faulty /\ due = 0 THEN Towards(predicted, PredictLow, 1, PredictTau) ELSE predicted

\* Mutant: the bus falls once the gate is all the way down.
SagAfterLate ==
    IF predicted > 2 * PredictLow THEN sag
    ELSE IF sag + Quotient(MaxLoad, BusTau) < BusVoltage
         THEN sag + Quotient(MaxLoad, BusTau) ELSE BusVoltage

\* The analysis has the largest load discharge the capacitor, down to 0 V, from
\* the time its gate passes the threshold.
SagAfter ==
    IF predicted >= VTh THEN sag
    ELSE IF sag + Quotient(MaxLoad, BusTau) < BusVoltage
         THEN sag + Quotient(MaxLoad, BusTau) ELSE BusVoltage

\* find_trip_time: the first sample below vth since the onset.
BelowAfter(v) ==
    IF below > 0 THEN 2 ELSE IF faulty /\ v < VTh THEN 1 ELSE 0

\* wrdata writes a time and a value for each of four signals, v(gate) the third.
Columns == 8
GateColumn == 6

\* Mutant: a last row is good enough with the gate in it.
load_wrdata_short(last) == last = 0 \/ last >= GateColumn

\* load_wrdata of a file whose last row was cut short: a line that is not numbers
\* only is skipped, which leaves the rows before it, and rows of different lengths
\* are an exception.  `last` is how many numbers the line has, 0 if it is skipped.
load_wrdata(last) == last = 0 \/ last = Columns

\* What the last row has for the gate; a number may be cut in its digits.
LastGate(last) == IF last \in 1 .. GateColumn THEN {VLow, gate, VHigh} ELSE {gate}

\* main with --spice: a file that does not load, or is not there, leaves the
\* analytical part; a trip is reported unless find_trip_time returned NaN.
Report(last, v) ==
    IF ~load_wrdata(last) THEN "analytical"
    ELSE IF below = 2 \/ (last > 0 /\ faulty /\ v < VTh) THEN "trip"
    ELSE "no trip"

-----------------------------------------------------------------------------
Step ==
    /\ gate' = GateAfter
    /\ closed' = ClosedAfter(gate')
    /\ demand' = DemandAfter
    /\ predicted' = PredictedAfter
    /\ due' = IF faulty /\ due > 0 THEN due - 1 ELSE due
    /\ over' = IF ~Trips THEN 0 ELSE IF over < MaxOver THEN over + 1 ELSE over
    /\ sag' = SagAfter
    /\ below' = BelowAfter(gate')
    /\ opened' = (opened \/ ~closed')
    /\ UNCHANGED <<load, changes, faulty>>

\* Iload's PWL has one step; here the load changes at any time, a few times.
LoadChanges(i) ==
    /\ i # load /\ changes < MaxChanges
    /\ load' = i /\ changes' = changes + 1
    /\ faulty' = (faulty \/ i > TripCurrent)
    /\ UNCHANGED <<demand, closed, gate, predicted, due, sag, over, below, opened>>

Next == Step \/ \E i \in Loads : LoadChanges(i)

Spec == Init /\ [][Next]_vars

\* Time goes on.
FairSpec == Spec /\ WF_vars(Step)

-----------------------------------------------------------------------------
(* Properties *)

\* However the load varies, the switch does not open and the gate does not even
\* begin to fall before the load has been above the trip current
\* (overcurrent_protection.cir:6, 44-49).
NoFalseTrip == ~faulty => ~opened /\ gate = VHigh

\* The steps the gate, from fully charged, takes to each voltage.
Fall[n \in 0 .. MaxOver] ==
    IF n = 0 THEN VHigh ELSE Towards(Fall[n - 1], VLow, 1, GateTau)

\* A sensed overcurrent never outlasts the fall of a fully charged gate to the
\* voltage that opens the switch, also while the circuit closes and opens again
\* (overcurrent_protection.cir:14-30, 42-45).
TripInTime == \A n \in 0 .. MaxOver : Fall[n] < VOff => over <= n

\* However often the switch opens and closes, the circuit's bus is lower than the
\* analysis's, until that is at 0 V, by no more than Ron and Rsense drop at the
\* largest load, although the switch may open before the analysis has it
\* (overcurrent_analysis.py:258-264).
BusAbovePrediction == sag < BusVoltage => demand <= MaxLoad + sag

\* Whenever the simulation is stopped, and wherever its file is cut: a trip is
\* reported only if the gate has been below the threshold since a fault, and with
\* the whole file it is reported if the switch has opened
\* (overcurrent_analysis.py:366-380, spice_parser.py:49-85).
ReportIsSound ==
    \A last \in 0 .. Columns : \A v \in LastGate(last) :
        /\ Report(last, v) = "trip" => faulty /\ below > 0
        /\ last = Columns /\ opened => Report(last, v) = "trip"

\* There is no latch: the open switch carries no current, so the comparator lets
\* the gate rise and the switch closes onto whatever load there is, for ever
\* (overcurrent_protection.cir:33-49).
ClosesAgain == ~closed ~> closed
=============================================================================
