---------------------------- MODULE MCEcsQueries ----------------------------
(* TLC instance of EcsQueries: one filter that only asks for a component,  *)
(* and two that share an archetype filter but differ in their tags.        *)
EXTENDS EcsQueries

CONSTANTS position, velocity, enemy

MCComponents == {position, velocity}

MCFilters ==
  {[with |-> {position}, without |-> {}, tagged |-> {}, untagged |-> {}],
   [with |-> {}, without |-> {velocity}, tagged |-> {enemy}, untagged |-> {}],
   [with |-> {}, without |-> {velocity}, tagged |-> {}, untagged |-> {enemy}]}
=============================================================================
