----------------------------- MODULE ArmSafety -----------------------------
(***************************************************************************)
(* What the arm promises to the people around it, whatever its clock, its   *)
(* joints' modes and its loops do: the safety rules at the head of          *)
(* firmware/include/arm_controller.hpp.                                     *)
(*                                                                         *)
(*   stopped   the e-stop is latched, by a call or by the watchdog          *)
(*   faulty    joints whose motor driver last reported a fault              *)
(*   moving    joints whose last command frame carries a torque             *)
(***************************************************************************)
CONSTANT Joints

VARIABLES stopped, faulty, moving

vars == <<stopped, faulty, moving>>

TypeOK ==
    /\ stopped \in BOOLEAN
    /\ faulty \subseteq Joints
    /\ moving \subseteq Joints

Init == stopped = FALSE /\ faulty = {} /\ moving = {}

\* A motor driver reports a fault, or that it has none.
Report(j) ==
    /\ faulty' \in {faulty \cup {j}, faulty \ {j}}
    /\ UNCHANGED <<stopped, moving>>

\* Someone stops the arm; the joints keep their last command for now.
Stop == stopped' = TRUE /\ UNCHANGED <<faulty, moving>>

\* A stopped arm, or one found late, is brought to rest.
Halt == stopped' = TRUE /\ moving' = {} /\ UNCHANGED faulty

\* Only an arm that is not stopped drives joints, and only the sound ones.
Drive ==
    /\ ~stopped
    /\ moving' \in SUBSET (Joints \ faulty)
    /\ UNCHANGED <<stopped, faulty>>

\* The stop is lifted only while no joint reports a fault.
Release == faulty = {} /\ stopped' = FALSE /\ UNCHANGED <<faulty, moving>>

Next == (\E j \in Joints : Report(j)) \/ Stop \/ Halt \/ Drive \/ Release

Spec == Init /\ [][Next]_vars
============================================================================
