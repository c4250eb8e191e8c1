------------------------------ MODULE MCSleep ------------------------------
(* Instances of Sleep for TLC: two or three workers, one or two threads     *)
(* outside the pool, no spinning before sleep, and a JEC of two values (it  *)
(* rolls over every time work meets a sleepy worker) or of four.            *)
EXTENDS Sleep
=============================================================================
