----------------------------- MODULE MCEcsWorld -----------------------------
(* TLC instances of EcsWorld: two interchangeable components in two slots, *)
(* and one component and one tag in three slots.                           *)
EXTENDS EcsWorld, TLC

ComponentSymmetry == Permutations(Components)
=============================================================================
