---------------------------- MODULE MCEcsChanges ----------------------------
(* TLC instance of EcsChanges.                                             *)
EXTENDS EcsChanges
=============================================================================
