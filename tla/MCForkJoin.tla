----------------------------- MODULE MCForkJoin -----------------------------
(* Instances of ForkJoin for TLC. *)
EXTENDS ForkJoin, TLC
=============================================================================
