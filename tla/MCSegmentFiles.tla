--------------------------- MODULE MCSegmentFiles ---------------------------
(* Instances of SegmentFiles for TLC. *)
EXTENDS SegmentFiles, TLC
=============================================================================
