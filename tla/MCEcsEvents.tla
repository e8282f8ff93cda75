----------------------------- MODULE MCEcsEvents ----------------------------
(* TLC instance of EcsEvents: event types are interchangeable.             *)
EXTENDS EcsEvents

TypeSymmetry == Permutations(EventTypes)
=============================================================================
