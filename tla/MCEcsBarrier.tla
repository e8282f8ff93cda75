---------------------------- MODULE MCEcsBarrier ----------------------------
(* TLC instance of EcsBarrier.                                             *)
EXTENDS EcsBarrier
=============================================================================
