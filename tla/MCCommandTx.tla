---------------------------- MODULE MCCommandTx ----------------------------
(* The real numbers of joints and mailboxes, and a few ticks. *)
EXTENDS CommandTx
============================================================================
