---------------------------- MODULE JointContract ----------------------------
(***************************************************************************)
(* A joint of JointOps on its own: what the arm controller may rely on of   *)
(* one JointController, and what JointController.tla is shown to do.         *)
(***************************************************************************)
EXTENDS JointOps

VARIABLE joint

Init == joint \in {NewJoint(side) : side \in Signs}

Feedback ==
    \E faulted \in BOOLEAN, side \in Signs : joint' = AfterFeedback(joint, faulted, side)

Tick ==
    \E mode \in Modes, torque \in Signs, dt \in {0, 1} :
        joint' = AfterTick(joint, mode, torque, dt)

Clear == joint' = AfterClear(joint)

Next == Feedback \/ Tick \/ Clear

Spec == Init /\ [][Next]_joint
=============================================================================
