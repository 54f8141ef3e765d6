---------------------------- MODULE MCHilRunner ----------------------------
(* Two joints and a few rows. *)
EXTENDS HilRunner
============================================================================
