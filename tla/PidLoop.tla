------------------------------ MODULE PidLoop ------------------------------
(***************************************************************************)
(* One control::Pid in use: updates in any order of errors and intervals,   *)
(* resets and changes of its gains.                                         *)
(***************************************************************************)
EXTENDS Pid

CONSTANTS
    Gains,    \* the gains it may be given
    Errors,   \* setpoint - measurement
    MaxError, \* none is larger than this
    Dts       \* the times between two updates, 0 among them

ASSUME GainsAssumption ==
    \A g \in Gains :
        /\ g.kp \in Int /\ g.ki \in Nat /\ g.kd \in Int /\ g.tau \in Nat
        /\ g.outMin \in Int /\ g.outMax \in Int
        /\ g.outMin <= 0 /\ 0 <= g.outMax

ASSUME InputsAssumption ==
    /\ MaxError \in Nat
    /\ Errors \subseteq -MaxError .. MaxError
    /\ Dts \subseteq Nat

VARIABLES
    gains,   \* g_
    pid,     \* the other members, a state of Pid
    push     \* history: what the updates since the error last changed sign
             \* would have added to the integral, at most the clamp's width

vars == <<gains, pid, push>>

PidState == [integral : Int, prevError : Int, dFiltered : Int, prevOutput : Int]

TypeOK == gains \in Gains /\ pid \in PidState /\ push \in Int

Init == gains \in Gains /\ pid = PidReset /\ push = 0

Span == gains.outMax - gains.outMin

\* One more step in the same direction adds up, one in the other starts anew.
Pushed(step) ==
    IF (step > 0 /\ push < 0) \/ (step < 0 /\ push > 0)
    THEN Clamp(step, -Span, Span)
    ELSE Clamp(push + step, -Span, Span)

Update(error, dt) ==
    /\ pid' = PidUpdate(gains, pid, error, dt)
    /\ push' = Pushed(IntegralStep(gains, error, dt))
    /\ UNCHANGED gains

Reset == pid' = PidReset /\ push' = 0 /\ UNCHANGED gains

\* Mutant: the members are kept when the gains change.
SetGainsNoReset(g) == gains' = g /\ push' = 0 /\ UNCHANGED pid

SetGains(g) == gains' = g /\ pid' = PidReset /\ push' = 0

Next ==
    \/ \E error \in Errors, dt \in Dts : Update(error, dt)
    \/ Reset
    \/ \E g \in Gains : SetGains(g)

Spec == Init /\ [][Next]_vars

-----------------------------------------------------------------------------
(* Properties *)

\* The integral and the output last returned are within the clamps of the gains
\* in force, also right after the gains have changed (pid.hpp:47-49, 59, 71).
WithinClamp ==
    /\ pid.integral \in gains.outMin .. gains.outMax
    /\ pid.prevOutput \in gains.outMin .. gains.outMax

\* Anti-windup: however long the actuator was saturated, once the error changes
\* sign the integral has left the clamp by all that the errors since amount to
\* (pid.hpp:10-13, 47-49).
NoWindup ==
    /\ push <= 0 => pid.integral <= Clamp(gains.outMax + push, gains.outMin, gains.outMax)
    /\ push >= 0 => pid.integral >= Clamp(gains.outMin + push, gains.outMin, gains.outMax)

\* The filter averages: whatever the sequence of errors and intervals, the
\* derivative it holds is no steeper than the steepest there can be between two
\* errors one tick apart (pid.hpp:51-55).
FilterDoesNotAmplify ==
    /\ -2 * MaxError <= pid.dFiltered
    /\ pid.dFiltered <= 2 * MaxError
============================================================================
