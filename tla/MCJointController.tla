------------------------- MODULE MCJointController -------------------------
(* Small instances of JointController for TLC. *)
EXTENDS JointController

Gain(kp, ki, kd, tau, outMin, outMax) ==
    [kp |-> kp, ki |-> ki, kd |-> kd, tau |-> tau, outMin |-> outMin, outMax |-> outMax]

\* No derivative here, PidLoop is about it; the slow filter keeps it small.
OuterGains == Gain(1, 0, 0, 50, -2, 2)
InnerGains == Gain(1, 1, 0, 50, -3, 3)

Ask(m, pos, vel, torque, velLimit, torqueLimit) ==
    [mode |-> m, position |-> pos, velocity |-> vel, torque |-> torque,
     velLimit |-> velLimit, torqueLimit |-> torqueLimit]

Idle == Ask("IDLE", 0, 0, 0, 2, 3)

\* Every mode; torque limits above and below the joint's; a velocity limit below
\* what the outer loop asks for and one too large for the frame.
ManySetpoints ==
    {Idle,
     Ask("POSITION", 1, 0, 0, 1, 3),
     Ask("POSITION", -2, 0, 0, 17, 1),
     Ask("VELOCITY", 0, 2, 0, 1, 3),
     Ask("TORQUE", 0, 0, -4, 2, 4),
     Ask("FAULT", 0, 0, 0, 2, 3)}

\* Numbers in two bytes of four values.
Zero == <<0, 0>>
One == <<1, 0>>
Two == <<2, 0>>
Minus1 == <<3, 3>>
Far == <<1, 2>>

\* What the encoder reports of this joint, in frames long enough and too short,
\* and a frame of another joint.
Report(id, dlc, pos, vel, faults) ==
    [id |-> id, dlc |-> dlc, position |-> pos, velocity |-> vel, faults |-> faults]

FewFrames ==
    {Report(feedback_id(Id), 8, pos, vel, faults) :
        pos \in {Minus1, Zero, Two}, vel \in {Minus1, Zero, One}, faults \in {0, 2}}
    \cup {Report(feedback_id(Id), 6, Far, Zero, 0), Report(feedback_id(Id + 1), 8, Far, One, 1)}

ZeroOrOne == {0, 1}
MinusOne == -1
============================================================================
