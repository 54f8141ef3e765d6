------------------------------ MODULE MCPidLoop ------------------------------
(* Small instances of PidLoop for TLC. *)
EXTENDS PidLoop

Gain(kp, ki, kd, tau, outMin, outMax) ==
    [kp |-> kp, ki |-> ki, kd |-> kd, tau |-> tau, outMin |-> outMin, outMax |-> outMax]

\* A narrow and a wide clamp, a filtered derivative and an unfiltered one.
FewGains == {Gain(1, 1, 1, 2, -3, 3), Gain(2, 1, 0, 0, -5, 6), Gain(0, 2, 1, 1, 0, 4)}

SmallErrors == -3 .. 3
ZeroOrMore == {0, 1, 2}
===============================================================================
