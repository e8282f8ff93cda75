-------------------------- MODULE MCSystemSchedule --------------------------
(* TLC instance of SystemSchedule.                                         *)
EXTENDS SystemSchedule

Memberships == {<<1>>, <<2>>, <<1, 2>>, <<1, 3>>}

\* Three systems of either kind, in one group or two.
ThreeSystems == [1 .. 3 -> [groups : Memberships, kind : {"plan", "alone"}]]

\* No order, one order against the order of noting, one that only the second
\* membership of a system takes part in, and a chain.
GroupGraphs == {{}, {<<2, 1>>}, {<<2, 3>>}, {<<3, 2>>, <<1, 2>>}}
=============================================================================
