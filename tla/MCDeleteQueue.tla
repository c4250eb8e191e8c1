---------------------------- MODULE MCDeleteQueue ----------------------------
(* Three cursors, so that one can be made, cloned or dropped while two      *)
(* others race to flush the same block.                                     *)
EXTENDS DeleteQueue
=============================================================================
