-------------------------- MODULE MCSystemRegistry --------------------------
(* TLC instance of SystemRegistry: requests chosen for what becomes of     *)
(* plans that are equal, and of references by name.                        *)
EXTENDS SystemRegistry

Ask(name, groups, after, kind, plan) ==
  [name |-> name, groups |-> groups, before |-> <<>>, after |-> after,
   kind |-> kind, plan |-> plan, keys |-> {"near"}]

ImplicitGroup == [n \in {"m", "x", "y"} |-> "system_" \o n]

\* x and y have equal plans; m comes after x, a system and later also a group.
PlanRequests ==
  {Ask("x", <<"sim">>, <<>>, "plan", "p"), Ask("y", <<"sim">>, <<>>, "plan", "p"),
   Ask("y", <<"sim">>, <<>>, "dynamic", "q"), Ask("y", <<"x", "sim">>, <<>>, "python", "none"),
   Ask("m", <<>>, <<"x">>, "sequence", "p")}

PlanGroupCalls ==
  {[group |-> "sim", before |-> <<"x">>, after |-> <<>>]}

PlanOrderCalls == {<<"x", "sim">>}
=============================================================================
