--------------------------- MODULE MCOvercurrent ---------------------------
(* The values of the circuit and of the analysis: 0.01 A, 0.01 V, and steps  *)
(* of 38.1 ns, of which the circuit's gate has 9 (346.5 ns), the analysis's   *)
(* 10 (381 ns) and its comparator 4 (150 ns), and the bus 25 (950 ns).        *)
EXTENDS Overcurrent
============================================================================
