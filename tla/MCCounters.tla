----------------------------- MODULE MCCounters -----------------------------
(* Two-bit thread counters with as many threads as they can count, and a    *)
(* four-valued JEC, so that full fields and the JEC's rollover happen.      *)
EXTENDS Counters
=============================================================================
