---------------------------- MODULE MCSketchLoop ----------------------------
(* TLC instance of SketchLoop: all three loops, every batch of two events. *)
EXTENDS SketchLoop
=============================================================================
