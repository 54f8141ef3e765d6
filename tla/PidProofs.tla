----------------------------- MODULE PidProofs -----------------------------
(***************************************************************************)
(* What control::Pid guarantees for any gains, errors and intervals.        *)
(***************************************************************************)
EXTENDS PidLoop, NumberProofs

\* One step of the filter averages what it held and the raw derivative.
LEMMA FilterBounds ==
    ASSUME NEW g \in Gains, NEW s \in PidState, NEW error \in Int,
           NEW dt \in Nat \ {0}, NEW b \in Nat,
           -b <= error - s.prevError, error - s.prevError <= b,
           -b <= s.dFiltered, s.dFiltered <= b
    PROVE  /\ NewDerivative(g, s, error, dt) \in Int
           /\ -b <= NewDerivative(g, s, error, dt)
           /\ NewDerivative(g, s, error, dt) <= b
<1> DEFINE raw == Quotient(error - s.prevError, dt)
           d == s.dFiltered
           sum == dt * raw + g.tau * d
<1>1. s.prevError \in Int /\ d \in Int /\ g.tau \in Nat
  BY GainsAssumption DEF PidState
<1>2. raw \in Int /\ -b <= raw /\ raw <= b
  <2>1. error - s.prevError \in Int
    BY <1>1
  <2>2. -b * dt <= -b /\ b <= b * dt
    BY ProductOrder
  <2>3. -b * dt <= error - s.prevError /\ error - s.prevError <= b * dt
    BY <2>1, <2>2
  <2> QED
    BY <2>1, <2>3, QuotientBounds
<1> HIDE DEF raw
<1>3. dt * (-b) <= dt * raw /\ dt * raw <= dt * b
  BY <1>2, ProductOrder
<1>4. g.tau * (-b) <= g.tau * d /\ g.tau * d <= g.tau * b
  BY <1>1, ProductOrder
<1>5. sum \in Int /\ g.tau + dt \in Nat \ {0}
  BY <1>1, <1>2
<1>6. -b * (g.tau + dt) <= sum /\ sum <= b * (g.tau + dt)
  <2>1. dt * raw \in Int /\ g.tau * d \in Int
    BY <1>1, <1>2
  <2>2. /\ dt * (-b) + g.tau * (-b) = -b * (g.tau + dt)
        /\ dt * b + g.tau * b = b * (g.tau + dt)
    BY <1>1
  <2> HIDE DEF d
  <2> QED
    BY <1>1, <1>3, <1>4, <2>1, <2>2
<1>7. NewDerivative(g, s, error, dt) = Quotient(sum, g.tau + dt)
  BY DEF NewDerivative, raw
<1> HIDE DEF sum
<1>8. /\ Quotient(sum, g.tau + dt) \in Int
      /\ -b <= Quotient(sum, g.tau + dt)
      /\ Quotient(sum, g.tau + dt) <= b
  BY <1>5, <1>6, QuotientBounds
<1> QED
  BY <1>7, <1>8

-----------------------------------------------------------------------------
(* NoWindup for an integral i clamped to lo .. hi and a history p. *)

Windless(lo, hi, i, p) ==
    /\ p <= 0 => i <= Clamp(hi + p, lo, hi)
    /\ p >= 0 => i >= Clamp(lo + p, lo, hi)

\* A step in the direction of the history adds to both, a step against it
\* moves the integral away from the clamp by itself.
LEMMA WindlessStep ==
    ASSUME NEW lo \in Int, NEW hi \in Int, NEW i \in Int, NEW p \in Int, NEW step \in Int,
           lo <= i, i <= hi, Windless(lo, hi, i, p)
    PROVE  Windless(lo, hi, Clamp(i + step, lo, hi),
                    IF (step > 0 /\ p < 0) \/ (step < 0 /\ p > 0)
                    THEN Clamp(step, -(hi - lo), hi - lo)
                    ELSE Clamp(p + step, -(hi - lo), hi - lo))
<1>1. CASE (step > 0 /\ p < 0) \/ (step < 0 /\ p > 0)
  BY <1>1 DEF Windless, Clamp
<1>2. CASE ~((step > 0 /\ p < 0) \/ (step < 0 /\ p > 0))
  <2>1. CASE p > 0
    BY <1>2, <2>1 DEF Windless, Clamp
  <2>2. CASE p < 0
    BY <1>2, <2>2 DEF Windless, Clamp
  <2>3. CASE p = 0
    BY <2>3 DEF Windless, Clamp
  <2> QED
    BY <2>1, <2>2, <2>3
<1> QED
  BY <1>1, <1>2

-----------------------------------------------------------------------------
(* The inductive invariant *)

ErrorBounded == -MaxError <= pid.prevError /\ pid.prevError <= MaxError

PushBounded == -Span <= push /\ push <= Span

Inv ==
    /\ TypeOK
    /\ WithinClamp
    /\ NoWindup
    /\ FilterDoesNotAmplify
    /\ ErrorBounded
    /\ PushBounded

\* Reset members satisfy the invariant under any gains.
LEMMA ResetInv ==
    ASSUME gains' \in Gains, pid' = PidReset, push' = 0
    PROVE  Inv'
<1>1. /\ gains.outMin' \in Int /\ gains.outMax' \in Int
      /\ gains.outMin' <= 0 /\ 0 <= gains.outMax'
  BY GainsAssumption
<1>2. /\ pid.integral' = 0 /\ pid.prevError' = 0
      /\ pid.dFiltered' = 0 /\ pid.prevOutput' = 0
  BY DEF PidReset
<1>3. TypeOK'
  BY DEF TypeOK, PidReset, PidState
<1>4. WithinClamp' /\ NoWindup' /\ PushBounded'
  BY <1>1, <1>2 DEF WithinClamp, NoWindup, PushBounded, Span, Clamp
<1>5. FilterDoesNotAmplify' /\ ErrorBounded'
  BY <1>2, InputsAssumption DEF FilterDoesNotAmplify, ErrorBounded
<1> QED
  BY <1>3, <1>4, <1>5 DEF Inv

\* update() preserves the invariant.
LEMMA UpdateInv ==
    ASSUME Inv, NEW error \in Errors, NEW dt \in Dts, Update(error, dt)
    PROVE  Inv'
<1> DEFINE step == IntegralStep(gains, error, dt)
<1>1. /\ gains \in Gains /\ gains' = gains
      /\ gains.outMin \in Int /\ gains.outMax \in Int
      /\ gains.outMin <= 0 /\ 0 <= gains.outMax
      /\ gains.kp \in Int /\ gains.ki \in Nat /\ gains.kd \in Int /\ gains.tau \in Nat
  BY GainsAssumption DEF Inv, TypeOK, Update
<1>2. /\ pid \in PidState
      /\ pid.integral \in Int /\ pid.prevError \in Int
      /\ pid.dFiltered \in Int /\ pid.prevOutput \in Int
      /\ push \in Int
  BY DEF Inv, TypeOK, PidState
<1>3. error \in Int /\ -MaxError <= error /\ error <= MaxError /\ dt \in Nat
  BY InputsAssumption
<1>4. step \in Int
  <2>1. gains.ki * error \in Int
    BY <1>1, <1>3
  <2> QED
    BY <1>3, <2>1 DEF IntegralStep
<1>5. push' = Pushed(step) /\ pid' = PidUpdate(gains, pid, error, dt)
  BY DEF Update
<1>6. push' \in Int /\ PushBounded'
  <2> HIDE DEF step
  <2> QED
    BY <1>1, <1>2, <1>4, <1>5 DEF Pushed, PushBounded, Span, Clamp
<1>7. CASE dt = 0
  <2>1. step = 0
    BY <1>1, <1>3, <1>7 DEF IntegralStep
  <2>2. push' = push
    BY <1>1, <1>2, <1>5, <2>1 DEF Pushed, Inv, PushBounded, Span, Clamp
  <2>3. pid' = pid
    BY <1>5, <1>7 DEF PidUpdate
  <2> QED
    BY <1>1, <2>2, <2>3 DEF Inv, TypeOK, WithinClamp, NoWindup,
       FilterDoesNotAmplify, ErrorBounded, PushBounded, Span
<1>8. CASE dt > 0
  <2>1. /\ pid'.integral = Clamp(pid.integral + step, gains.outMin, gains.outMax)
        /\ pid'.prevError = error
        /\ pid'.dFiltered = NewDerivative(gains, pid, error, dt)
        /\ pid'.prevOutput = Clamp(gains.kp * error + pid'.integral + gains.kd * pid'.dFiltered,
                                   gains.outMin, gains.outMax)
        /\ pid' = [integral |-> pid'.integral, prevError |-> pid'.prevError,
                   dFiltered |-> pid'.dFiltered, prevOutput |-> pid'.prevOutput]
    BY <1>3, <1>5, <1>8 DEF PidUpdate, NewIntegral
  <2>2. /\ pid'.dFiltered \in Int
        /\ -2 * MaxError <= pid'.dFiltered /\ pid'.dFiltered <= 2 * MaxError
    <3>1. /\ -(2 * MaxError) <= error - pid.prevError
          /\ error - pid.prevError <= 2 * MaxError
          /\ -(2 * MaxError) <= pid.dFiltered /\ pid.dFiltered <= 2 * MaxError
          /\ 2 * MaxError \in Nat /\ dt \in Nat \ {0}
      BY <1>2, <1>3, <1>8, InputsAssumption DEF Inv, ErrorBounded, FilterDoesNotAmplify
    <3>2. /\ NewDerivative(gains, pid, error, dt) \in Int
          /\ -(2 * MaxError) <= NewDerivative(gains, pid, error, dt)
          /\ NewDerivative(gains, pid, error, dt) <= 2 * MaxError
      BY <1>1, <1>2, <1>3, <3>1, FilterBounds
    <3> QED
      BY <2>1, <3>2, InputsAssumption
  <2> HIDE DEF step
  <2>3. pid'.integral \in gains.outMin .. gains.outMax
    BY <1>1, <1>2, <1>4, <2>1 DEF Clamp
  <2>4. pid'.prevOutput \in gains.outMin .. gains.outMax
    <3>1. gains.kp * error \in Int /\ gains.kd * pid'.dFiltered \in Int
      BY <1>1, <1>3, <2>2
    <3>2. gains.kp * error + pid'.integral + gains.kd * pid'.dFiltered \in Int
      BY <1>1, <2>3, <3>1
    <3> QED
      BY <1>1, <2>1, <3>2, ClampBounds
  <2>5. NoWindup'
    <3>1. /\ gains.outMin <= pid.integral /\ pid.integral <= gains.outMax
          /\ Windless(gains.outMin, gains.outMax, pid.integral, push)
      BY <1>1, <1>2 DEF Inv, WithinClamp, NoWindup, Windless
    <3> DEFINE next == IF (step > 0 /\ push < 0) \/ (step < 0 /\ push > 0)
                       THEN Clamp(step, -Span, Span)
                       ELSE Clamp(push + step, -Span, Span)
    <3>2. Windless(gains.outMin, gains.outMax,
                   Clamp(pid.integral + step, gains.outMin, gains.outMax), next)
      BY <1>1, <1>2, <1>4, <3>1, WindlessStep DEF Span
    <3>3. Windless(gains.outMin, gains.outMax, pid'.integral, push')
      BY <1>5, <2>1, <3>2 DEF Pushed
    <3> QED
      BY <1>1, <3>3 DEF NoWindup, Windless
  <2>6. TypeOK'
    BY <1>1, <1>3, <1>6, <2>1, <2>2, <2>3, <2>4 DEF TypeOK, PidState
  <2> QED
    BY <1>1, <1>3, <1>6, <2>1, <2>2, <2>3, <2>4, <2>5, <2>6
       DEF Inv, WithinClamp, FilterDoesNotAmplify, ErrorBounded
<1> QED
  BY <1>3, <1>7, <1>8

\* The inductive invariant of a PID in use: its type, the two clamps, the
\* anti-windup bound and the filter's bound (pid.hpp:39-71).
THEOREM InvHolds == Spec => []Inv
<1>1. Init => Inv
  BY GainsAssumption, InputsAssumption
     DEF Init, Inv, TypeOK, PidState, PidReset, WithinClamp, NoWindup,
         FilterDoesNotAmplify, ErrorBounded, PushBounded, Span, Clamp
<1>2. Inv /\ [Next]_vars => Inv'
  <2> SUFFICES ASSUME Inv, [Next]_vars PROVE Inv'
    OBVIOUS
  <2>1. CASE \E error \in Errors, dt \in Dts : Update(error, dt)
    BY <2>1, UpdateInv
  <2>2. CASE Reset
    BY <2>2, ResetInv DEF Reset, Inv, TypeOK
  <2>3. CASE \E g \in Gains : SetGains(g)
    BY <2>3, ResetInv DEF SetGains
  <2>4. CASE UNCHANGED vars
    BY <2>4 DEF vars, Inv, TypeOK, WithinClamp, NoWindup,
       FilterDoesNotAmplify, ErrorBounded, PushBounded, Span
  <2> QED
    BY <2>1, <2>2, <2>3, <2>4 DEF Next
<1> QED
  BY <1>1, <1>2, PTL DEF Spec

\* The integral and the output never leave the clamp, whatever the gains are
\* changed to (pid.hpp:47-49, 59, 71).
THEOREM WithinClampTheorem == Spec => []WithinClamp
<1>1. Inv => WithinClamp
  BY DEF Inv
<1> QED
  BY <1>1, InvHolds, PTL

\* Anti-windup for every gain and every history of errors (pid.hpp:10-13).
THEOREM NoWindupTheorem == Spec => []NoWindup
<1>1. Inv => NoWindup
  BY DEF Inv
<1> QED
  BY <1>1, InvHolds, PTL

\* The derivative's filter never amplifies (pid.hpp:15-18, 51-55).
THEOREM FilterTheorem == Spec => []FilterDoesNotAmplify
<1>1. Inv => FilterDoesNotAmplify
  BY DEF Inv
<1> QED
  BY <1>1, InvHolds, PTL
============================================================================
