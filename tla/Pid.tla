-------------------------------- MODULE Pid --------------------------------
(***************************************************************************)
(* firmware/include/pid.hpp: control::Pid as operators on its state.        *)
(*                                                                         *)
(* The numbers are integers in one fixed-point unit, and a time is a number *)
(* of ticks, with the quotients of FixedPoint.                              *)
(*                                                                         *)
(* Gains: [kp, ki, kd, tau, outMin, outMax].                               *)
(* State: [integral, prevError, dFiltered, prevOutput].                    *)
(***************************************************************************)
EXTENDS FixedPoint

\* The members' initial values, which reset() restores.
PidReset == [integral |-> 0, prevError |-> 0, dFiltered |-> 0, prevOutput |-> 0]

\* What one update adds to the integral before it is clamped.
IntegralStep(g, error, dt) == g.ki * error * dt

\* Mutant: the output is clamped, the integral is not.
NewIntegralUnclamped(g, s, error, dt) == s.integral + IntegralStep(g, error, dt)

\* The integral term with its anti-windup clamp.
NewIntegral(g, s, error, dt) ==
    Clamp(s.integral + IntegralStep(g, error, dt), g.outMin, g.outMax)

\* Mutant: the filter's coefficient is dt / tau_d.
NewDerivativeNoNormal(g, s, error, dt) ==
    Quotient(error - s.prevError, dt) + s.dFiltered

\* The low-pass filter on the derivative: alpha is dt / (tau_d + dt).
NewDerivative(g, s, error, dt) ==
    Quotient(dt * Quotient(error - s.prevError, dt) + g.tau * s.dFiltered, g.tau + dt)

\* update(); what it returns is prevOutput of the new state.
PidUpdate(g, s, error, dt) ==
    IF dt <= 0 THEN s
    ELSE LET integral == NewIntegral(g, s, error, dt)
             dFiltered == NewDerivative(g, s, error, dt)
         IN  [integral   |-> integral,
              prevError  |-> error,
              dFiltered  |-> dFiltered,
              prevOutput |-> Clamp(g.kp * error + integral + g.kd * dFiltered,
                                   g.outMin, g.outMax)]
============================================================================
