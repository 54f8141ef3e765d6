------------------------------ MODULE MCArmIsr ------------------------------
(* The CAN interrupt, the timer and the main loop. *)
EXTENDS ArmIsr

\* A joint between its limits or past the upper one, with a torque or without.
AboutUpperLimit == {0, 1}
TwoTorques == {0, 1}
=============================================================================
