------------------------------ MODULE GroupSort -----------------------------
(***************************************************************************)
(* The order in which a frame runs the registered ECS systems              *)
(* (ecs/scheduling_helpers.py).  Groups are numbered in the order they     *)
(* were first noted and systems in the order of their ids, so that both    *)
(* tie-breaks are comparisons of numbers.                                  *)
(*                                                                         *)
(* edges is the group graph: a set of <<group, group that comes later>>    *)
(* collected from before, after and order.  A system is a record whose     *)
(* field groups is the sequence of its memberships.                        *)
(***************************************************************************)
EXTENDS Naturals, Sequences, FiniteSets, SequencesExt, Orders

GroupsOf(system) == Range(system.groups)

\* Kahn's algorithm with a ready list kept sorted: again and again the least
\* node whose predecessors have all been placed.  A result shorter than n means
\* that the edges have a cycle.  less is the order of the ready list, as a set
\* of pairs.
TopologicalOrder(n, links, less) ==
  LET placed[k \in 0 .. n] ==
        IF k = 0 THEN <<>>
        ELSE LET done  == Range(placed[k - 1])
                 ready == {x \in (1 .. n) \ done :
                             \A y \in 1 .. n : <<y, x>> \in links => y \in done}
             IN IF ready = {} THEN placed[k - 1]
                ELSE Append(placed[k - 1],
                            CHOOSE x \in ready : ({x} \X (ready \ {x})) \subseteq less)
  IN placed[n]

\* _topological_group_order
GroupOrder(count, edges) ==
  TopologicalOrder(count, edges,
                   {p \in (1 .. count) \X (1 .. count) : p[1] < p[2]})

\* _group_reachability: the pairs of groups joined by a path of edges.
Reachability(count, edges) ==
  LET within[k \in 0 .. count] ==
        IF k = 0 THEN edges
        ELSE within[k - 1] \union
             {p \in (1 .. count) \X (1 .. count) :
                <<p[1], k>> \in within[k - 1] /\ <<k, p[2]>> \in within[k - 1]}
  IN within[count]

\* Mutant: only the first membership of a system orders it.
PrecedesByFirst(left, right, reachable) ==
  <<left.groups[1], right.groups[1]>> \in reachable

\* _system_precedes
Precedes(left, right, reachable) ==
  \E g \in GroupsOf(left), h \in GroupsOf(right) : <<g, h>> \in reachable

\* The tuple order of Python.
LexLess(s, t) ==
  \E k \in 1 .. Len(t) :
    /\ \A m \in 1 .. (k - 1) : m <= Len(s) /\ s[m] = t[m]
    /\ k > Len(s) \/ s[k] < t[k]

\* _system_stable_key: the positions of the system's groups, ascending.
StableKey(system, order) ==
  InOrder({k \in DOMAIN order : order[k] \in GroupsOf(system)}, <)

SystemLinks(systems, reachable) ==
  {p \in (DOMAIN systems) \X (DOMAIN systems) :
     p[1] # p[2] /\ Precedes(systems[p[1]], systems[p[2]], reachable)}

\* _topological_system_order, as a sequence of system ids.
SystemOrder(systems, count, edges) ==
  LET order == GroupOrder(count, edges)
      links == SystemLinks(systems, Reachability(count, edges))
      key   == [i \in DOMAIN systems |-> StableKey(systems[i], order)]
      less  == {p \in (DOMAIN systems) \X (DOMAIN systems) :
                  \/ LexLess(key[p[1]], key[p[2]])
                  \/ key[p[1]] = key[p[2]] /\ p[1] < p[2]}
  IN TopologicalOrder(Len(systems), links, less)

\* What sorted_scheduled_systems accepts: no cycle among the groups, no system
\* in two groups of which one precedes the other, no two systems that precede
\* each other, no cycle among the systems.
Schedulable(systems, count, edges) ==
  LET reachable == Reachability(count, edges) IN
  /\ Len(GroupOrder(count, edges)) = count
  /\ \A i \in DOMAIN systems : ~Precedes(systems[i], systems[i], reachable)
  /\ \A p \in SystemLinks(systems, reachable) :
       <<p[2], p[1]>> \notin SystemLinks(systems, reachable)
  /\ Len(SystemOrder(systems, count, edges)) = Len(systems)
=============================================================================
