------------------------ MODULE SystemScheduleProofs ------------------------
(***************************************************************************)
(* Theorems about SystemSchedule: the order in which a frame runs the      *)
(* systems, the hooks around their groups and what has run at the end, for *)
(* any number of systems and groups and any group graph that can be sorted.*)
(***************************************************************************)
EXTENDS SystemSchedule, OrderLemmas

-----------------------------------------------------------------------------
(* The registered systems.                                                 *)

Registered == Seq([groups : Seq(Groups), kind : {"plan", "alone"}])

-----------------------------------------------------------------------------
(* The trace of a frame: what may be added to it.                          *)

Entry == {"before", "after", "run"} \X Nat

Has(t, x) == \E k \in 1 .. Len(t) : t[k] = x

\* Nothing comes twice.
Once(t) == \A j, k \in 1 .. Len(t) : t[j] = t[k] => j = k

\* A hook after a group follows the one before it.
Paired(t) ==
  \A g \in Groups : \A k \in 1 .. Len(t) :
    t[k] = <<"after", g>> => \E j \in 1 .. Len(t) : j < k /\ t[j] = <<"before", g>>

\* The hooks of its groups surround a system.
Surrounded(t, list) ==
  \A i \in DOMAIN list : \A k \in 1 .. Len(t) : t[k] = <<"run", i>> =>
    \A g \in GroupsOf(list[i]) :
      /\ \E j \in 1 .. Len(t) : j < k /\ t[j] = <<"before", g>>
      /\ \A j \in 1 .. Len(t) : t[j] = <<"after", g>> => k < j

\* Ordered groups do not overlap.
Apart(t, reach) ==
  \A g, h \in Groups : <<g, h>> \in reach =>
    \A k \in 1 .. Len(t) : t[k] = <<"before", h>> =>
      /\ \A j \in 1 .. Len(t) : t[j] = <<"before", g>> => j < k
      /\ Has(t, <<"before", g>>) => \E j \in 1 .. Len(t) : j < k /\ t[j] = <<"after", g>>

TraceOK(t, list, reach) ==
  t \in Seq(Entry) /\ Once(t) /\ Paired(t) /\ Surrounded(t, list) /\ Apart(t, reach)

\* A sequence with one more element.
LEMMA AppendIs ==
  ASSUME NEW S, NEW t \in Seq(S), NEW x \in S
  PROVE  /\ Append(t, x) \in Seq(S) /\ Len(t) \in Nat /\ Len(Append(t, x)) = Len(t) + 1
         /\ Append(t, x)[Len(t) + 1] = x
         /\ \A k \in 1 .. Len(t) : Append(t, x)[k] = t[k]
OBVIOUS

\* What a longer trace has.
LEMMA AppendHas ==
  ASSUME NEW S, NEW t \in Seq(S), NEW x \in S
  PROVE  \A y : Has(Append(t, x), y) <=> Has(t, y) \/ y = x
<1>1. PICK u : u = Append(t, x)
  OBVIOUS
<1>2. PICK n : n = Len(t)
  OBVIOUS
<1>3. /\ n \in Nat /\ Len(u) = n + 1 /\ u[n + 1] = x
      /\ \A k \in 1 .. n : u[k] = t[k]
  BY <1>1, <1>2, AppendIs
<1>4. ASSUME NEW y PROVE Has(u, y) <=> Has(t, y) \/ y = x
  <2>1. ASSUME Has(u, y) PROVE Has(t, y) \/ y = x
    <3>1. PICK k \in 1 .. n + 1 : u[k] = y
      BY <1>3, <2>1 DEF Has
    <3>2. k = n + 1 \/ k \in 1 .. n
      BY <1>3
    <3> QED
      BY <1>2, <1>3, <3>1, <3>2 DEF Has
  <2>2. ASSUME Has(t, y) PROVE Has(u, y)
    <3>1. PICK k \in 1 .. n : t[k] = y
      BY <1>2, <2>2 DEF Has
    <3>2. k \in 1 .. Len(u) /\ u[k] = y
      BY <1>3, <3>1
    <3> QED
      BY <3>2 DEF Has
  <2>3. Has(u, x)
    <3>1. n + 1 \in 1 .. Len(u)
      BY <1>3
    <3> QED
      BY <1>3, <3>1 DEF Has
  <2> QED
    BY <2>1, <2>2, <2>3
<1> QED
  BY <1>1, <1>4

\* A new entry keeps the entries different.
LEMMA AppendOnce ==
  ASSUME NEW S, NEW t \in Seq(S), NEW x \in S, Once(t), ~Has(t, x)
  PROVE  Once(Append(t, x))
<1>1. PICK u : u = Append(t, x)
  OBVIOUS
<1>2. PICK n : n = Len(t)
  OBVIOUS
<1>3. /\ n \in Nat /\ Len(u) = n + 1 /\ u[n + 1] = x
      /\ \A k \in 1 .. n : u[k] = t[k]
  BY <1>1, <1>2, AppendIs
<1>4. \A k \in 1 .. n : u[k] # x
  BY <1>2, <1>3 DEF Has
<1>5. \A j, k \in 1 .. n : u[j] = u[k] => j = k
  BY <1>2, <1>3 DEF Once
<1>6. ASSUME NEW j \in 1 .. n + 1, NEW k \in 1 .. n + 1, u[j] = u[k]
      PROVE  j = k
  <2>1. (j = n + 1 \/ j \in 1 .. n) /\ (k = n + 1 \/ k \in 1 .. n)
    BY <1>3
  <2> QED
    BY <1>3, <1>4, <1>5, <1>6, <2>1
<1> QED
  BY <1>1, <1>3, <1>6 DEF Once

\* What an entry added at the end leaves as it was.
Added(u, t, n, x) ==
  /\ n \in Nat /\ n = Len(t) /\ Len(u) = n + 1 /\ u[n + 1] = x
  /\ \A k \in 1 .. n : u[k] = t[k]
  /\ \A k \in 1 .. n + 1 : k \in 1 .. n \/ k = n + 1
  /\ \A k \in 1 .. n : k \in 1 .. n + 1 /\ k < n + 1

\* The shape of a longer trace, as one predicate.
LEMMA AddedIs ==
  ASSUME NEW S, NEW t \in Seq(S), NEW x \in S
  PROVE  \E n : Added(Append(t, x), t, n, x)
<1>1. PICK n : n = Len(t)
  OBVIOUS
<1>2. PICK u : u = Append(t, x)
  OBVIOUS
<1>3. /\ n \in Nat /\ Len(u) = n + 1 /\ u[n + 1] = x
      /\ \A k \in 1 .. n : u[k] = t[k]
  BY <1>1, <1>2, AppendIs
<1>4. /\ \A k \in 1 .. n + 1 : k \in 1 .. n \/ k = n + 1
      /\ \A k \in 1 .. n : k \in 1 .. n + 1 /\ k < n + 1
  BY <1>3
<1> QED
  BY <1>1, <1>2, <1>3, <1>4 DEF Added

\* A system or the opening of a group closes nothing.
LEMMA AppendPaired ==
  ASSUME NEW t \in Seq(Entry), NEW x \in Entry, Paired(t),
         \A g \in Groups : x = <<"after", g>> => Has(t, <<"before", g>>)
  PROVE  Paired(Append(t, x))
<1>1. PICK u : u = Append(t, x)
  OBVIOUS
<1>2. PICK n : Added(u, t, n, x)
  BY <1>1, AddedIs
<1>3. SUFFICES ASSUME NEW g \in Groups, NEW k \in 1 .. n + 1, u[k] = <<"after", g>>
               PROVE  \E j \in 1 .. n + 1 : j < k /\ u[j] = <<"before", g>>
  BY <1>1, <1>2 DEF Paired, Added
<1>4. CASE k \in 1 .. n
  <2>1. PICK j \in 1 .. n : j < k /\ t[j] = <<"before", g>>
    BY <1>2, <1>3, <1>4 DEF Paired, Added
  <2> QED
    BY <1>2, <2>1 DEF Added
<1>5. CASE k = n + 1
  <2>1. x = <<"after", g>>
    BY <1>2, <1>3, <1>5 DEF Added
  <2>2. PICK j \in 1 .. n : t[j] = <<"before", g>>
    BY <1>2, <2>1 DEF Has, Added
  <2> QED
    BY <1>2, <1>5, <2>2 DEF Added
<1> QED
  BY <1>2, <1>3, <1>4, <1>5 DEF Added

\* A system that runs has its groups open.
LEMMA AppendSurrounded ==
  ASSUME NEW t \in Seq(Entry), NEW x \in Entry, NEW list, Surrounded(t, list),
         \A i \in DOMAIN list : x = <<"run", i>> => \A g \in GroupsOf(list[i]) :
           Has(t, <<"before", g>>) /\ ~Has(t, <<"after", g>>)
  PROVE  Surrounded(Append(t, x), list)
<1>1. PICK u : u = Append(t, x)
  OBVIOUS
<1>2. PICK n : Added(u, t, n, x)
  BY <1>1, AddedIs
<1>3. SUFFICES ASSUME NEW i \in DOMAIN list, NEW k \in 1 .. n + 1, u[k] = <<"run", i>>,
                      NEW g \in GroupsOf(list[i])
               PROVE  /\ \E j \in 1 .. n + 1 : j < k /\ u[j] = <<"before", g>>
                      /\ \A j \in 1 .. n + 1 : u[j] = <<"after", g>> => k < j
  <2>1. Len(u) = n + 1
    BY <1>2 DEF Added
  <2>2. SUFFICES Surrounded(u, list)
    BY <1>1
  <2>3. SUFFICES ASSUME NEW i \in DOMAIN list, NEW k \in 1 .. Len(u), u[k] = <<"run", i>>
                 PROVE  \A g \in GroupsOf(list[i]) :
                          /\ \E j \in 1 .. Len(u) : j < k /\ u[j] = <<"before", g>>
                          /\ \A j \in 1 .. Len(u) : u[j] = <<"after", g>> => k < j
    BY DEF Surrounded
  <2> QED
    BY <2>1, <2>3
<1>4. CASE k \in 1 .. n
  <2>1. t[k] = <<"run", i>> /\ n = Len(t)
    BY <1>2, <1>3, <1>4 DEF Added
  <2>2. /\ \E j \in 1 .. n : j < k /\ t[j] = <<"before", g>>
        /\ \A j \in 1 .. n : t[j] = <<"after", g>> => k < j
    BY <1>3, <1>4, <2>1 DEF Surrounded
  <2>3. \E j \in 1 .. n + 1 : j < k /\ u[j] = <<"before", g>>
    BY <1>2, <2>2 DEF Added
  <2>4. \A j \in 1 .. n + 1 : u[j] = <<"after", g>> => k < j
    BY <1>2, <1>4, <2>2 DEF Added
  <2> QED
    BY <2>3, <2>4
<1>5. CASE k = n + 1
  <2>1. x = <<"run", i>>
    BY <1>2, <1>3, <1>5 DEF Added
  <2>2. Has(t, <<"before", g>>) /\ ~Has(t, <<"after", g>>)
    BY <1>3, <2>1
  <2>3. PICK j \in 1 .. n : t[j] = <<"before", g>>
    BY <1>2, <2>2 DEF Has, Added
  <2>4. \A l \in 1 .. n : u[l] # <<"after", g>>
    BY <1>2, <2>2 DEF Has, Added
  <2>5. u[k] # <<"after", g>>
    BY <1>3
  <2> QED
    BY <1>2, <1>5, <2>3, <2>4, <2>5 DEF Added
<1> QED
  BY <1>2, <1>3, <1>4, <1>5 DEF Added

\* A group opens when the ones before it have closed, and before the ones after it open.
LEMMA AppendApart ==
  ASSUME NEW t \in Seq(Entry), NEW x \in Entry, NEW reach, Apart(t, reach),
         \A g, h \in Groups : <<g, h>> \in reach =>
           /\ x = <<"before", h>> /\ Has(t, <<"before", g>>) => Has(t, <<"after", g>>)
           /\ x = <<"before", g>> => ~Has(t, <<"before", h>>) /\ g # h
  PROVE  Apart(Append(t, x), reach)
<1>1. PICK u : u = Append(t, x)
  OBVIOUS
<1>2. PICK n : Added(u, t, n, x)
  BY <1>1, AddedIs
<1>3. \A y : Has(u, y) <=> Has(t, y) \/ y = x
  BY <1>1, AppendHas
<1>4. SUFFICES ASSUME NEW g \in Groups, NEW h \in Groups, <<g, h>> \in reach,
                      NEW k \in 1 .. n + 1, u[k] = <<"before", h>>
               PROVE  /\ \A j \in 1 .. n + 1 : u[j] = <<"before", g>> => j < k
                      /\ Has(u, <<"before", g>>) =>
                           \E j \in 1 .. n + 1 : j < k /\ u[j] = <<"after", g>>
  <2>1. Len(u) = n + 1
    BY <1>2 DEF Added
  <2>2. SUFFICES Apart(u, reach)
    BY <1>1
  <2> QED
    BY <2>1 DEF Apart
<1>5. CASE k \in 1 .. n
  <2>1. t[k] = <<"before", h>> /\ n = Len(t)
    BY <1>2, <1>4, <1>5 DEF Added
  <2>2. Has(t, <<"before", h>>)
    BY <1>5, <2>1 DEF Has
  <2>3. x # <<"before", g>>
    BY <1>4, <2>2
  <2>4. /\ \A j \in 1 .. n : t[j] = <<"before", g>> => j < k
        /\ Has(t, <<"before", g>>) => \E j \in 1 .. n : j < k /\ t[j] = <<"after", g>>
    BY <1>4, <1>5, <2>1 DEF Apart
  <2>5. \A j \in 1 .. n + 1 : u[j] = <<"before", g>> => j < k
    BY <1>2, <2>3, <2>4 DEF Added
  <2>6. Has(u, <<"before", g>>) => \E j \in 1 .. n + 1 : j < k /\ u[j] = <<"after", g>>
    BY <1>2, <1>3, <2>3, <2>4 DEF Added
  <2> QED
    BY <2>5, <2>6
<1>6. CASE k = n + 1
  <2>1. x = <<"before", h>>
    BY <1>2, <1>4, <1>6 DEF Added
  <2>2. x # <<"before", g>>
    <3> SUFFICES ASSUME x = <<"before", g>> PROVE FALSE
      OBVIOUS
    <3>1. g # h
      BY <1>4
    <3> QED
      BY <2>1, <3>1
  <2>3. \A j \in 1 .. n + 1 : u[j] = <<"before", g>> => j < k
    BY <1>2, <1>6, <2>2 DEF Added
  <2>4. ASSUME Has(u, <<"before", g>>)
        PROVE  \E j \in 1 .. n + 1 : j < k /\ u[j] = <<"after", g>>
    <3>1. Has(t, <<"after", g>>)
      BY <1>3, <1>4, <2>1, <2>2, <2>4
    <3>2. PICK j \in 1 .. n : t[j] = <<"after", g>>
      BY <1>2, <3>1 DEF Has, Added
    <3> QED
      BY <1>2, <1>6, <3>2 DEF Added
  <2> QED
    BY <2>3, <2>4
<1> QED
  BY <1>2, <1>4, <1>5, <1>6 DEF Added

-----------------------------------------------------------------------------
(* The invariant.                                                          *)

Running == pc \notin {"idle", "unwind"}

\* The systems the frame has come to, and those collected that have not run.
Came == {schedule[k] : k \in 1 .. (index - 1)}

Collecting == pc \in {"collect", "run"} \/ after = "collect"

Collected == IF Collecting THEN Range(batch) ELSE {}

Opened(g) == Has(trace, <<"before", g>>)
Closed(g) == Has(trace, <<"after", g>>)
HasRun(i) == Has(trace, <<"run", i>>)

ConfigInv ==
  /\ systems \in Registrations
  /\ edges \in EdgeSets
  /\ Schedulable(systems, GroupCount, edges)

FrameInv ==
  /\ pc \in {"idle", "phase", "enter", "collect", "run", "advance", "unwind"}
  /\ after \in {"phase", "collect"}
  /\ Sorted(schedule, systems, SystemLinks(systems, Reachability(GroupCount, edges)))
  /\ Len(schedule) \in {0, Len(systems)}
  /\ Running => Len(schedule) = Len(systems)
  /\ index \in 1 .. (Len(schedule) + 1)
  /\ active \in Seq(Groups) /\ Once(active)
  /\ remaining \in [Groups -> Nat]
  /\ batch \in Seq(DOMAIN systems)
  /\ settled \in Seq(DOMAIN systems)
  /\ wanted \subseteq DOMAIN systems
  /\ Running => raised = {}

\* A system is in one place: not come to, collected, to be settled, or done.
PlaceInv ==
  Running =>
    /\ pc \in {"phase", "enter"} => after = "phase"
    /\ pc # "advance" => settled = <<>>
    /\ pc = "enter" => index \in 1 .. Len(schedule)
    /\ Collecting =>
         /\ batch # <<>> /\ Once(batch) /\ Range(batch) \subseteq Came
         /\ \A k \in DOMAIN batch : systems[batch[k]].groups = systems[batch[1]].groups
         /\ GroupsOf(systems[batch[1]]) \subseteq Range(active)
    /\ Once(settled) /\ Range(settled) \subseteq Came
    /\ Range(settled) \cap Collected = {}

CountInv ==
  Running =>
    \A g \in Groups :
      remaining[g] = Cardinality({i \in Unsettled : g \in GroupsOf(systems[i])})

\* A group is active exactly between its hooks; while the frame runs, one that is
\* closed has no member to come.
HookInv ==
  /\ \A g \in Range(active) : Opened(g) /\ ~Closed(g)
  /\ "hook" \notin raised => \A g \in Groups : Opened(g) => g \in Range(active) \/ Closed(g)
  /\ Running => \A g \in Groups : Closed(g) => remaining[g] = 0
  /\ pc \in {"phase", "enter", "collect", "run"} =>
       \A g \in Range(active) : remaining[g] # 0
  /\ pc = "idle" /\ "hook" \notin raised => active = <<>>
  /\ pc = "unwind" /\ raised = {} => active = <<>>

\* What has run was come to, and so was a member of every group that was opened.
RunInv ==
  Running =>
    /\ \A i \in DOMAIN systems : HasRun(i) => i \in Came \ Collected
    /\ \A g \in Groups : Opened(g) =>
         \E k \in 1 .. Len(schedule) : k <= index /\ g \in GroupsOf(System(k))

\* Eligible systems have run or are collected, but for the next one, which may
\* have been asked already.
WantInv ==
  /\ ~Running /\ raised = {} => \A i \in DOMAIN systems : i \in wanted <=> HasRun(i)
  /\ Running => \A i \in DOMAIN systems : ~(\E k \in 1 .. Len(schedule) :
                                              k = index /\ schedule[k] = i) =>
       (i \in wanted <=> HasRun(i) \/ i \in Collected)
  /\ pc = "enter" => schedule[index] \in wanted

TraceInv == TraceOK(trace, systems, Reachability(GroupCount, edges))

ScheduleInv ==
  ConfigInv /\ FrameInv /\ PlaceInv /\ CountInv /\ HookInv /\ RunInv /\ WantInv /\ TraceInv

-----------------------------------------------------------------------------
(* What the invariant says of the systems and of the places they are in.   *)

\* What is registered: systems with groups of the configuration, which can be sorted.
LEMMA ListFacts ==
  ASSUME ConfigInv
  PROVE  /\ systems \in Registered
         /\ Len(systems) \in Nat /\ DOMAIN systems = 1 .. Len(systems)
         /\ IsFiniteSet(DOMAIN systems)
         /\ \A i \in DOMAIN systems :
              /\ systems[i].groups \in Seq(Groups)
              /\ GroupsOf(systems[i]) \subseteq Groups
              /\ \A m \in DOMAIN systems[i].groups :
                   systems[i].groups[m] \in GroupsOf(systems[i])
              /\ ~Precedes(systems[i], systems[i], Reachability(GroupCount, edges))
         /\ Len(SystemOrder(systems, GroupCount, edges)) = Len(systems)
<1>1. systems \in Registered
  BY ScheduleAssumption DEF ConfigInv, Registered, Groups
<1>2. Len(systems) \in Nat /\ DOMAIN systems = 1 .. Len(systems)
  BY <1>1 DEF Registered
<1>3. IsFiniteSet(DOMAIN systems)
  BY <1>2, FS_Interval
<1>4. ASSUME NEW i \in DOMAIN systems
      PROVE  /\ systems[i].groups \in Seq(Groups)
             /\ GroupsOf(systems[i]) \subseteq Groups
             /\ \A m \in DOMAIN systems[i].groups :
                  systems[i].groups[m] \in GroupsOf(systems[i])
  <2>1. systems[i] \in [groups : Seq(Groups), kind : {"plan", "alone"}]
    BY <1>1, <1>2, ElementOfSeq DEF Registered
  <2>2. systems[i].groups \in Seq(Groups)
    BY <2>1
  <2> QED
    BY <2>2 DEF GroupsOf, Range
<1>5. \A i \in DOMAIN systems :
        ~Precedes(systems[i], systems[i], Reachability(GroupCount, edges))
  BY DEF ConfigInv, Schedulable
<1>6. Len(SystemOrder(systems, GroupCount, edges)) = Len(systems)
  BY DEF ConfigInv, Schedulable
<1> QED
  BY <1>1, <1>2, <1>3, <1>4, <1>5, <1>6

\* The systems the frame has not come to.
Coming == {schedule[k] : k \in index .. Len(schedule)}

\* The schedule lists systems once, and the places a system can be in are apart.
LEMMA ScheduleFacts ==
  ASSUME ConfigInv, FrameInv
  PROVE  /\ Len(schedule) \in Nat /\ index \in Nat /\ DOMAIN schedule = 1 .. Len(schedule)
         /\ \A k \in 1 .. Len(schedule) : schedule[k] \in DOMAIN systems
         /\ \A j, k \in 1 .. Len(schedule) : schedule[j] = schedule[k] => j = k
         /\ Came \subseteq DOMAIN systems /\ Coming \subseteq DOMAIN systems
         /\ Came \cap Coming = {}
         /\ Range(batch) \subseteq DOMAIN systems
         /\ Range(settled) \subseteq DOMAIN systems
         /\ Collected \subseteq DOMAIN systems
         /\ Unsettled = Coming \union Collected \union Range(settled)
         /\ Unsettled \subseteq DOMAIN systems
<1>1. DOMAIN systems = 1 .. Len(systems)
  BY ListFacts
<1>2. schedule \in Seq(1 .. Len(systems))
  BY DEF FrameInv, Sorted
<1>3. PICK n : n = Len(schedule)
  OBVIOUS
<1>4. n \in Nat /\ DOMAIN schedule = 1 .. n
  BY <1>2, <1>3
<1>5. \A k \in 1 .. n : schedule[k] \in DOMAIN systems
  BY <1>1, <1>2, <1>3, ElementOfSeq
<1>6. \A j, k \in 1 .. n : schedule[j] = schedule[k] => j = k
  BY <1>3 DEF FrameInv, Sorted
<1>7. index \in 1 .. (n + 1) /\ index \in Nat
  BY <1>3, <1>4 DEF FrameInv
<1>8. /\ Came \subseteq DOMAIN systems /\ Coming \subseteq DOMAIN systems
      /\ Came \cap Coming = {}
  BY <1>3, <1>4, <1>5, <1>6, <1>7 DEF Came, Coming
<1>9. Range(batch) \subseteq DOMAIN systems /\ Range(settled) \subseteq DOMAIN systems
  BY DEF FrameInv, Range
<1>10. Collected \subseteq DOMAIN systems
  BY <1>9 DEF Collected
<1>11. Unsettled = Coming \union Collected \union Range(settled)
  BY DEF Unsettled, Coming, Collected, Collecting
<1> QED
  BY <1>3, <1>4, <1>5, <1>6, <1>7, <1>8, <1>9, <1>10, <1>11

\* The frame comes to the next system.
LEMMA NextComes ==
  ASSUME ConfigInv, FrameInv, index <= Len(schedule),
         index' = index + 1, schedule' = schedule
  PROVE  /\ index \in 1 .. Len(schedule)
         /\ schedule[index] \in DOMAIN systems
         /\ Came' = Came \union {schedule[index]}
         /\ Coming = Coming' \union {schedule[index]}
         /\ schedule[index] \notin Came /\ schedule[index] \notin Coming'
         /\ index' \in 1 .. (Len(schedule') + 1)
<1>1. PICK n, i : n = Len(schedule) /\ i = index
  OBVIOUS
<1>2. /\ n \in Nat /\ i \in 1 .. n
      /\ \A k \in 1 .. n : schedule[k] \in DOMAIN systems
      /\ \A j, k \in 1 .. n : schedule[j] = schedule[k] => j = k
  <2>1. index \in 1 .. Len(schedule) + 1
    BY DEF FrameInv
  <2> QED
    BY <1>1, <2>1, ScheduleFacts
<1>3. /\ Came = {schedule[k] : k \in 1 .. (i - 1)}
      /\ Came' = {schedule[k] : k \in 1 .. i}
      /\ Coming = {schedule[k] : k \in i .. n}
      /\ Coming' = {schedule[k] : k \in i + 1 .. n}
  <2>1. index' = i + 1
    BY <1>1
  <2>2. Came' = {schedule'[k] : k \in 1 .. (index' - 1)}
    BY DEF Came
  <2>3. Coming' = {schedule'[k] : k \in index' .. Len(schedule')}
    BY DEF Coming
  <2>4. Came' = {schedule[k] : k \in 1 .. i}
    <3>1. PICK l : l = index' - 1
      OBVIOUS
    <3>2. l = i
      BY <1>2, <2>1, <3>1
    <3>3. Came' = {schedule[k] : k \in 1 .. l}
      BY <2>2, <3>1
    <3> QED
      BY <3>2, <3>3
  <2>5. Coming' = {schedule[k] : k \in i + 1 .. n}
    BY <1>1, <2>1, <2>3
  <2> QED
    BY <1>1, <2>4, <2>5 DEF Came, Coming
<1>4. \A k \in 1 .. i : k \in 1 .. (i - 1) \/ k = i
  BY <1>2
<1>5. \A k \in i .. n : k \in i + 1 .. n \/ k = i
  BY <1>2
<1>6. /\ \A k \in 1 .. (i - 1) : k \in 1 .. i /\ k # i /\ k \in 1 .. n
      /\ \A k \in i + 1 .. n : k \in i .. n /\ k # i /\ k \in 1 .. n
      /\ i \in 1 .. i /\ i \in i .. n
  BY <1>2
<1>7. Came' = Came \union {schedule[i]}
  BY <1>3, <1>4, <1>6
<1>8. Coming = Coming' \union {schedule[i]}
  BY <1>3, <1>5, <1>6
<1>9. schedule[i] \notin Came /\ schedule[i] \notin Coming'
  BY <1>2, <1>3, <1>6
<1>10. index' \in 1 .. (Len(schedule') + 1)
  BY <1>1, <1>2
<1> QED
  BY <1>1, <1>2, <1>7, <1>8, <1>9, <1>10

\* A group has members to come as long as its counter says so.
LEMMA MembersLeft ==
  ASSUME ConfigInv, FrameInv, CountInv, Running, NEW g \in Groups
  PROVE  remaining[g] # 0 <=> \E i \in Unsettled : g \in GroupsOf(systems[i])
<1>1. PICK M : M = {i \in Unsettled : g \in GroupsOf(systems[i])}
  OBVIOUS
<1>2. IsFiniteSet(M)
  <2>1. M \in SUBSET DOMAIN systems
    BY <1>1, ScheduleFacts
  <2> QED
    BY <2>1, ListFacts, FS_Subset
<1>3. remaining[g] = Cardinality(M)
  BY <1>1 DEF CountInv
<1>4. remaining[g] # 0 <=> M # {}
  BY <1>2, <1>3, FS_EmptySet
<1> QED
  BY <1>1, <1>4

\* No system comes after one that it precedes, nor precedes itself.
LEMMA NoneBehind ==
  ASSUME ConfigInv, FrameInv, NEW k \in 1 .. Len(schedule), NEW l \in 1 .. Len(schedule),
         k <= l, NEW g \in GroupsOf(System(l)), NEW h \in GroupsOf(System(k))
  PROVE  <<g, h>> \notin Reachability(GroupCount, edges)
<1>1. PICK reach : reach = Reachability(GroupCount, edges)
  OBVIOUS
<1>2. SUFFICES ASSUME <<g, h>> \in reach PROVE FALSE
  BY <1>1
<1>3. schedule[k] \in DOMAIN systems /\ schedule[l] \in DOMAIN systems
  BY ScheduleFacts
<1>4. Precedes(systems[schedule[l]], systems[schedule[k]], reach)
  BY <1>2 DEF Precedes, System
<1>5. CASE k = l
  BY <1>1, <1>3, <1>4, <1>5, ListFacts
<1>6. CASE k < l
  <2>1. schedule[l] # schedule[k]
    BY <1>6, ScheduleFacts
  <2>2. <<schedule[l], schedule[k]>> \in SystemLinks(systems, reach)
    BY <1>3, <1>4, <2>1 DEF SystemLinks
  <2>3. <<schedule[l], schedule[k]>> \notin SystemLinks(systems, reach)
    BY <1>1, <1>6 DEF FrameInv, Sorted
  <2> QED
    BY <2>2, <2>3
<1> QED
  BY <1>5, <1>6, ScheduleFacts

-----------------------------------------------------------------------------
(* The steps of a phase.                                                   *)

\* A frame starts with all systems to come (_new_schedule_frame).
LEMMA StartFrameInv ==
  ASSUME ScheduleInv, StartFrame
  PROVE  ScheduleInv'
<1>1. PICK n : n = Len(systems)
  OBVIOUS
<1>2. /\ systems \in Registered /\ n \in Nat /\ DOMAIN systems = 1 .. n
      /\ IsFiniteSet(DOMAIN systems)
      /\ Len(SystemOrder(systems, GroupCount, edges)) = n
  BY <1>1, ListFacts DEF ScheduleInv
<1>3. PICK s : s = SystemOrder(systems, GroupCount, edges)
  OBVIOUS
<1>4. /\ pc' = "phase" /\ schedule' = s /\ index' = 1 /\ active' = <<>> /\ batch' = <<>>
      /\ settled' = <<>> /\ after' = "phase" /\ trace' = <<>> /\ wanted' = {}
      /\ raised' = {} /\ systems' = systems /\ edges' = edges
      /\ remaining' = [g \in Groups |-> MemberCount(g)]
  BY <1>3 DEF StartFrame
<1>5. PICK links : links = SystemLinks(systems, Reachability(GroupCount, edges))
  OBVIOUS
<1>6. Sorted(s, systems, links)
  <2>1. GroupCount \in Nat /\ systems \in Seq([groups : Seq(Groups), kind : {"plan", "alone"}])
    BY <1>2, ScheduleAssumption DEF Registered
  <2> QED
    BY <1>3, <1>5, <2>1, SystemOrderSorted
<1>7. Len(s) = n /\ s \in Seq(1 .. n)
  BY <1>1, <1>2, <1>3, <1>6 DEF Sorted
<1>8. {s[k] : k \in 1 .. n} = DOMAIN systems
  <2>1. s \in [1 .. n -> 1 .. n]
    BY <1>7
  <2>2. \A j, k \in 1 .. n : s[j] = s[k] => j = k
    BY <1>6, <1>7 DEF Sorted
  <2>3. s \in Injection(1 .. n, 1 .. n)
    BY <2>1, <2>2 DEF Injection, IsInjective
  <2>4. IsFiniteSet(1 .. n)
    BY <1>2, FS_Interval
  <2>5. s \in Surjection(1 .. n, 1 .. n)
    BY <2>3, <2>4, FS_Injection
  <2> QED
    BY <1>2, <2>1, <2>5 DEF Surjection
<1>9. ConfigInv'
  BY <1>4 DEF ScheduleInv, ConfigInv
<1>10. \A g \in Groups : /\ MemberCount(g) \in Nat
                         /\ MemberCount(g) = Cardinality({i \in DOMAIN systems :
                                                            g \in GroupsOf(systems[i])})
  <2> SUFFICES ASSUME NEW g \in Groups PROVE MemberCount(g) \in Nat
    BY DEF MemberCount
  <2>1. IsFiniteSet({i \in DOMAIN systems : g \in GroupsOf(systems[i])})
    BY <1>2, FS_Subset
  <2> QED
    BY <2>1, FS_CardinalityType DEF MemberCount
<1>11. FrameInv'
  <2>1. Sorted(s, systems, SystemLinks(systems, Reachability(GroupCount, edges)))'
    BY <1>3, <1>4, <1>5, <1>6 DEF Sorted, SystemLinks
  <2>2. remaining' \in [Groups -> Nat]
    BY <1>4, <1>10
  <2>3. Once(active')
    BY <1>4 DEF Once
  <2> QED
    BY <1>1, <1>2, <1>4, <1>7, <2>1, <2>2, <2>3 DEF FrameInv, Running
<1>12. Collected' = {} /\ ~Collecting'
  BY <1>4 DEF Collected, Collecting
<1>13. Unsettled' = DOMAIN systems
  <2>1. Range(settled') = {}
    BY <1>4 DEF Range
  <2>2. {schedule'[k] : k \in index' .. Len(schedule')} = DOMAIN systems
    BY <1>4, <1>7, <1>8
  <2> QED
    BY <1>4, <2>1, <2>2 DEF Unsettled
<1>14. PlaceInv'
  <2>1. Once(settled') /\ Range(settled') = {}
    BY <1>4 DEF Once, Range
  <2> QED
    BY <1>4, <1>12, <2>1 DEF PlaceInv
<1>15. CountInv'
  <2>1. \A g \in Groups : remaining'[g] = MemberCount(g)
    BY <1>4
  <2> QED
    BY <1>4, <1>10, <1>13, <2>1 DEF CountInv
<1>16. \A x : ~Has(trace', x)
  BY <1>4 DEF Has
<1>17. HookInv'
  <2>1. Range(active') = {}
    BY <1>4 DEF Range
  <2>2. \A g \in Groups : ~Opened(g)' /\ ~Closed(g)'
    BY <1>16 DEF Opened, Closed
  <2> QED
    BY <1>4, <2>1, <2>2 DEF HookInv
<1>18. RunInv'
  BY <1>16 DEF RunInv, HasRun, Opened
<1>19. WantInv'
  BY <1>4, <1>12, <1>16 DEF WantInv, HasRun, Running
<1>20. TraceInv'
  BY <1>4, <1>16 DEF TraceInv, TraceOK, Once, Paired, Surrounded, Apart
<1> QED
  BY <1>9, <1>11, <1>14, <1>15, <1>17, <1>18, <1>19, <1>20 DEF ScheduleInv

\* A frame leaves the registration alone.
LEMMA ConfigKept ==
  ASSUME ConfigInv, UNCHANGED <<systems, edges>>
  PROVE  ConfigInv'
BY DEF ConfigInv

\* A step that adds nothing to the trace keeps it well formed.
LEMMA TraceKept ==
  ASSUME TraceInv, UNCHANGED <<systems, edges, trace>>
  PROVE  TraceInv'
BY DEF TraceInv

\* A step that settles no system and comes to none keeps the counters exact.
LEMMA CountKept ==
  ASSUME CountInv, Running, systems' = systems, remaining' = remaining,
         Unsettled' = Unsettled
  PROVE  CountInv'
BY DEF CountInv

\* A step that opens and closes no group keeps what is said of the active ones.
LEMMA HookKept ==
  ASSUME HookInv, Running, Running', UNCHANGED <<active, trace, remaining, raised>>,
         pc' \in {"phase", "enter", "collect", "run"} =>
           \A g \in Range(active) : remaining[g] # 0
  PROVE  HookInv'
<1>1. /\ \A g \in Range(active) : Opened(g) /\ ~Closed(g)
      /\ "hook" \notin raised => \A g \in Groups : Opened(g) => g \in Range(active) \/ Closed(g)
      /\ \A g \in Groups : Closed(g) => remaining[g] = 0
  BY DEF HookInv
<1>2. /\ \A g : Opened(g)' <=> Opened(g)
      /\ \A g : Closed(g)' <=> Closed(g)
  BY DEF Opened, Closed
<1>3. pc' # "idle" /\ pc' # "unwind"
  BY DEF Running
<1>4. Range(active') = Range(active)
  OBVIOUS
<1> QED
  BY <1>1, <1>2, <1>3, <1>4 DEF HookInv

\* A frame that ends asks nothing of the places.
LEMMA NotRunning ==
  ASSUME pc' \in {"unwind", "idle"}
  PROVE  PlaceInv' /\ CountInv' /\ RunInv' /\ ~Running'
BY DEF PlaceInv, CountInv, RunInv, Running

\* The frame has come to what it has collected and what it settles.
LEMMA InPlace ==
  ASSUME ScheduleInv, Running
  PROVE  Collected \subseteq Came /\ Range(settled) \subseteq Came
BY DEF ScheduleInv, PlaceInv, Collected

\* A sequence of one.
LEMMA OneIs ==
  ASSUME NEW S, NEW x \in S
  PROVE  <<x>> \in Seq(S) /\ Once(<<x>>) /\ Range(<<x>>) = {x}
<1>1. Once(<<x>>)
  BY DEF Once
<1>2. Range(<<x>>) = {x}
  BY DEF Range
<1> QED
  BY <1>1, <1>2

\* A system is passed over, in a phase or while a batch is collected.
SkipStep ==
  /\ pc \in {"phase", "collect"} /\ index <= Len(schedule)
  /\ index' = index + 1 /\ pc' = "advance" /\ after' = pc
  /\ wanted' = wanted \ {schedule[index]}
  /\ settled' = <<schedule[index]>>
  /\ UNCHANGED <<systems, edges, schedule, active, remaining, batch, trace, raised>>

\* A system that is passed over is settled at once.
LEMMA SkipInv ==
  ASSUME ScheduleInv, SkipStep
  PROVE  ScheduleInv'
<1>1. /\ ConfigInv /\ FrameInv /\ PlaceInv /\ CountInv /\ HookInv /\ RunInv /\ WantInv
      /\ TraceInv /\ Running /\ Running'
  BY DEF ScheduleInv, SkipStep, Running
<1>2. /\ pc \in {"phase", "collect"} /\ index <= Len(schedule)
      /\ index' = index + 1 /\ pc' = "advance" /\ after' = pc
      /\ wanted' = wanted \ {schedule[index]}
      /\ settled' = <<schedule[index]>>
      /\ systems' = systems /\ edges' = edges /\ schedule' = schedule /\ active' = active
      /\ remaining' = remaining /\ batch' = batch /\ trace' = trace /\ raised' = raised
  BY DEF SkipStep
<1>3. PICK i : i = schedule[index]
  OBVIOUS
<1>4. /\ index \in 1 .. Len(schedule) /\ i \in DOMAIN systems
      /\ Came' = Came \union {i} /\ Coming = Coming' \union {i}
      /\ i \notin Came /\ i \notin Coming'
      /\ index' \in 1 .. (Len(schedule') + 1)
  BY <1>1, <1>2, <1>3, NextComes
<1>5. settled' \in Seq(DOMAIN systems) /\ Once(settled') /\ Range(settled') = {i}
  BY <1>2, <1>3, <1>4, OneIs
<1>6. settled = <<>> /\ Range(settled) = {}
  BY <1>1, <1>2 DEF PlaceInv, Range
<1>7. (Collecting' <=> Collecting) /\ Collected' = Collected /\ Collected \subseteq Came
  <2>1. pc = "phase" => after = "phase"
    BY <1>1 DEF PlaceInv
  <2>2. after' \in {"phase", "collect"} /\ (after' = "collect" <=> pc = "collect")
    BY <1>2
  <2>3. Collecting' <=> Collecting
    BY <1>2, <2>1, <2>2 DEF Collecting
  <2>4. Collected \subseteq Came
    BY InPlace, <1>1
  <2> QED
    BY <1>2, <2>3, <2>4 DEF Collected
<1>8. ConfigInv'
  BY <1>1, <1>2, ConfigKept
<1>9. FrameInv'
  BY <1>1, <1>2, <1>4, <1>5 DEF FrameInv, Sorted
<1>10. Unsettled' = Unsettled
  <2>1. Unsettled = Coming \union Collected \union Range(settled)
    BY <1>1, ScheduleFacts
  <2>2. Unsettled' = Coming' \union Collected' \union Range(settled')
    BY DEF Unsettled, Coming, Collected, Collecting
  <2> QED
    BY <1>4, <1>5, <1>6, <1>7, <2>1, <2>2
<1>11. CountInv'
  BY <1>1, <1>2, <1>10, CountKept
<1>12. PlaceInv'
  <2>1. Range(settled') \cap Collected' = {} /\ Range(settled') \subseteq Came'
    BY <1>4, <1>5, <1>7
  <2>2. Collecting' =>
         /\ batch' # <<>> /\ Once(batch') /\ Range(batch') \subseteq Came'
         /\ \A k \in DOMAIN batch' : systems'[batch'[k]].groups = systems'[batch'[1]].groups
         /\ GroupsOf(systems'[batch'[1]]) \subseteq Range(active')
    BY <1>1, <1>2, <1>4, <1>7 DEF PlaceInv
  <2> QED
    BY <1>2, <1>5, <2>1, <2>2 DEF PlaceInv
<1>13. HookInv'
  BY <1>1, <1>2, HookKept
<1>14. \A j : HasRun(j)' <=> HasRun(j)
  BY <1>2 DEF HasRun
<1>15. RunInv'
  <2>1. \A j \in DOMAIN systems : HasRun(j) => j \in Came' \ Collected'
    BY <1>1, <1>4, <1>7 DEF RunInv
  <2>2. ASSUME NEW g \in Groups, Opened(g)
        PROVE  \E k \in 1 .. Len(schedule) : k <= index + 1 /\ g \in GroupsOf(System(k))
    <3>1. PICK k \in 1 .. Len(schedule) : k <= index /\ g \in GroupsOf(System(k))
      BY <1>1, <2>2 DEF RunInv
    <3>2. k <= index + 1
      BY <1>1, <3>1, ScheduleFacts
    <3> QED
      BY <3>1, <3>2
  <2>3. /\ \A g : Opened(g)' <=> Opened(g)
        /\ \A k : System(k)' = System(k)
    BY <1>2 DEF Opened, System
  <2> QED
    BY <1>2, <1>14, <2>1, <2>2, <2>3 DEF RunInv
<1>16. WantInv'
  <2>1. ASSUME NEW j \in DOMAIN systems
        PROVE  j \in wanted' <=> HasRun(j) \/ j \in Collected
    <3>1. CASE j = i
      BY <1>1, <1>2, <1>3, <1>4, <1>7, <2>1, <3>1 DEF RunInv
    <3>2. CASE j # i
      <4>1. ~(\E k \in 1 .. Len(schedule) : k = index /\ schedule[k] = j)
        BY <1>3, <3>2
      <4>2. j \in wanted <=> HasRun(j) \/ j \in Collected
        BY <1>1, <4>1 DEF WantInv
      <4> QED
        BY <1>2, <1>3, <3>2, <4>2
    <3> QED
      BY <3>1, <3>2
  <2> QED
    BY <1>1, <1>2, <1>7, <1>14, <2>1 DEF WantInv
<1>17. TraceInv'
  BY <1>1, <1>2, TraceKept
<1> QED
  BY <1>8, <1>9, <1>11, <1>12, <1>13, <1>15, <1>16, <1>17 DEF ScheduleInv

\* A phase passes over a system (_run_schedule_phase).
LEMMA SkipSystemInv ==
  ASSUME ScheduleInv, SkipSystem
  PROVE  ScheduleInv'
<1>1. SkipStep
  BY DEF SkipSystem, Skipped, SkipStep
<1> QED
  BY <1>1, SkipInv

\* A neighbour is passed over while a batch is collected (_collect_physical_batch).
LEMMA CollectSkipsInv ==
  ASSUME ScheduleInv, CollectSkips
  PROVE  ScheduleInv'
<1>1. SkipStep
  BY DEF CollectSkips, MayJoin, Skipped, SkipStep
<1> QED
  BY <1>1, SkipInv

\* The condition of the next system holds.
LEMMA TakeSystemInv ==
  ASSUME ScheduleInv, TakeSystem
  PROVE  ScheduleInv'
<1>1. /\ ConfigInv /\ FrameInv /\ PlaceInv /\ CountInv /\ HookInv /\ RunInv /\ WantInv
      /\ TraceInv /\ Running /\ Running'
  BY DEF ScheduleInv, TakeSystem, Running
<1>2. /\ pc = "phase" /\ index <= Len(schedule) /\ pc' = "enter"
      /\ wanted' = wanted \union {schedule[index]}
      /\ systems' = systems /\ edges' = edges /\ schedule' = schedule /\ active' = active
      /\ remaining' = remaining /\ batch' = batch /\ trace' = trace /\ raised' = raised
      /\ index' = index /\ settled' = settled /\ after' = after
  BY DEF TakeSystem, Eligible, frameVars
<1>3. index \in 1 .. Len(schedule) /\ schedule[index] \in DOMAIN systems
  <2>1. index \in 1 .. Len(schedule)
    BY <1>1, <1>2, ScheduleFacts DEF FrameInv
  <2> QED
    BY <1>1, <2>1, ScheduleFacts
<1>4. ConfigInv'
  BY <1>1, <1>2, ConfigKept
<1>5. FrameInv'
  BY <1>1, <1>2, <1>3 DEF FrameInv, Sorted
<1>6. /\ after = "phase" /\ ~Collecting /\ ~Collecting'
      /\ Collected = {} /\ Collected' = {} /\ Came' = Came
  BY <1>1, <1>2 DEF PlaceInv, Collecting, Collected, Came
<1>7. PlaceInv'
  BY <1>1, <1>2, <1>3, <1>6 DEF PlaceInv
<1>8. Unsettled' = Unsettled
  BY <1>2, <1>6 DEF Unsettled, Collecting
<1>9. CountInv'
  BY <1>1, <1>2, <1>8, CountKept
<1>10. HookInv'
  <2>1. \A g \in Range(active) : remaining[g] # 0
    BY <1>1, <1>2 DEF HookInv
  <2> QED
    BY <1>1, <1>2, <2>1, HookKept
<1>11. RunInv'
  BY <1>1, <1>2, <1>6 DEF RunInv, HasRun, Opened, System
<1>12. WantInv'
  <2>1. \A j \in DOMAIN systems : ~(\E k \in 1 .. Len(schedule) : k = index /\ schedule[k] = j)
          => j # schedule[index]
    BY <1>3
  <2>2. \A j : HasRun(j)' <=> HasRun(j)
    BY <1>2 DEF HasRun
  <2> QED
    BY <1>1, <1>2, <1>3, <1>6, <2>1, <2>2 DEF WantInv
<1>13. TraceInv'
  BY <1>1, <1>2, TraceKept
<1> QED
  BY <1>4, <1>5, <1>7, <1>9, <1>10, <1>11, <1>12, <1>13 DEF ScheduleInv

\* Code raises: whatever is open stays open for the finally clause.
LEMMA RaisesInv ==
  ASSUME ScheduleInv, Running, pc' = "unwind", raised' = raised \union {"code"},
         UNCHANGED <<systems, edges, frameVars, wanted>>, TraceInv',
         \A g \in Groups : (Opened(g)' <=> Opened(g)) /\ (Closed(g)' <=> Closed(g))
  PROVE  ScheduleInv'
<1>1. ConfigInv /\ FrameInv /\ HookInv
  BY DEF ScheduleInv
<1>2. /\ schedule' = schedule /\ active' = active /\ remaining' = remaining
      /\ batch' = batch /\ index' = index /\ settled' = settled /\ after' = after
  BY DEF frameVars
<1>3. PlaceInv' /\ CountInv' /\ RunInv' /\ ~Running'
  BY NotRunning
<1>4. ConfigInv'
  BY <1>1, ConfigKept
<1>5. FrameInv'
  BY <1>1, <1>2, <1>3 DEF FrameInv, Sorted
<1>6. raised' # {} /\ ("hook" \in raised => "hook" \in raised')
  OBVIOUS
<1>7. WantInv'
  BY <1>3, <1>6 DEF WantInv
<1>8. HookInv'
  <2>1. Range(active') = Range(active) /\ Range(active) \subseteq Groups
    BY <1>1, <1>2 DEF FrameInv, Range
  <2> QED
    BY <1>1, <1>2, <1>3, <1>6, <2>1 DEF HookInv
<1> QED
  BY <1>3, <1>4, <1>5, <1>7, <1>8 DEF ScheduleInv

\* A run condition raises (_system_is_eligible).
LEMMA CheckFailsInv ==
  ASSUME ScheduleInv, CheckFails
  PROVE  ScheduleInv'
<1>1. /\ Running /\ pc' = "unwind" /\ raised' = raised \union {"code"}
      /\ UNCHANGED <<systems, edges, frameVars, wanted>> /\ trace' = trace
  BY DEF CheckFails, ConditionRaises, Raise, Running
<1>2. TraceInv'
  BY <1>1, TraceKept DEF ScheduleInv
<1>3. \A g \in Groups : (Opened(g)' <=> Opened(g)) /\ (Closed(g)' <=> Closed(g))
  BY <1>1 DEF Opened, Closed
<1> QED
  BY <1>1, <1>2, <1>3, RaisesInv

\* When every system has been settled every group has closed.
LEMMA EndPhasesInv ==
  ASSUME ScheduleInv, EndPhases
  PROVE  ScheduleInv'
<1>1. /\ ConfigInv /\ FrameInv /\ PlaceInv /\ CountInv /\ HookInv /\ RunInv /\ WantInv
      /\ TraceInv /\ Running
  BY DEF ScheduleInv, EndPhases, Running
<1>2. /\ pc = "phase" /\ index > Len(schedule) /\ pc' = "unwind"
      /\ systems' = systems /\ edges' = edges /\ schedule' = schedule /\ active' = active
      /\ remaining' = remaining /\ batch' = batch /\ trace' = trace /\ raised' = raised
      /\ index' = index /\ settled' = settled /\ after' = after /\ wanted' = wanted
  BY DEF EndPhases, frameVars, ghostVars
<1>3. PlaceInv' /\ CountInv' /\ RunInv' /\ ~Running'
  BY <1>2, NotRunning
<1>4. Unsettled = {}
  <2>1. Coming = {}
    BY <1>1, <1>2, ScheduleFacts DEF Coming
  <2>2. Collected = {} /\ Range(settled) = {}
    BY <1>1, <1>2 DEF PlaceInv, Collected, Collecting, Range
  <2> QED
    BY <1>1, <2>1, <2>2, ScheduleFacts
<1>5. active = <<>>
  <2>1. \A g \in Groups : remaining[g] = 0
    BY <1>1, <1>4, MembersLeft
  <2>2. \A g \in Range(active) : remaining[g] # 0
    BY <1>1, <1>2 DEF HookInv
  <2>3. active \in Seq(Groups)
    BY <1>1 DEF FrameInv
  <2>4. ASSUME active # <<>> PROVE FALSE
    <3>1. 1 \in DOMAIN active /\ active[1] \in Groups
      BY <2>3, <2>4
    <3>2. active[1] \in Range(active)
      BY <3>1 DEF Range
    <3> QED
      BY <2>1, <2>2, <3>1, <3>2
  <2> QED
    BY <2>4
<1>6. ConfigInv'
  BY <1>1, <1>2, ConfigKept
<1>7. FrameInv'
  BY <1>1, <1>2, <1>3 DEF FrameInv, Sorted
<1>8. TraceInv'
  BY <1>1, <1>2, TraceKept
<1>9. HookInv'
  <2>1. \A g : (Opened(g)' <=> Opened(g)) /\ (Closed(g)' <=> Closed(g))
    BY <1>2 DEF Opened, Closed
  <2> QED
    BY <1>1, <1>2, <1>3, <1>5, <2>1 DEF HookInv
<1>10. WantInv'
  <2>1. Collected = {} /\ \A j : HasRun(j)' <=> HasRun(j)
    BY <1>1, <1>2 DEF PlaceInv, Collected, Collecting, HasRun
  <2>2. ~(\E k \in 1 .. Len(schedule) : k = index)
    BY <1>1, <1>2, ScheduleFacts
  <2>3. \A j \in DOMAIN systems : j \in wanted <=> HasRun(j)
    BY <1>1, <2>1, <2>2 DEF WantInv
  <2> QED
    BY <1>2, <1>3, <2>1, <2>3 DEF WantInv
<1> QED
  BY <1>3, <1>6, <1>7, <1>8, <1>9, <1>10 DEF ScheduleInv

\* The elements of a sequence.
LEMMA RangeHas ==
  ASSUME NEW S, NEW t \in Seq(S)
  PROVE  \A y : y \in Range(t) <=> Has(t, y)
<1>1. DOMAIN t = 1 .. Len(t)
  OBVIOUS
<1> QED
  BY <1>1 DEF Range, Has

\* What an entry of the trace does to the groups and systems it tells of.
LEMMA EntryAdded ==
  ASSUME TraceInv, NEW x \in Entry, trace' = Append(trace, x)
  PROVE  /\ \A g : Opened(g)' <=> Opened(g) \/ x = <<"before", g>>
         /\ \A g : Closed(g)' <=> Closed(g) \/ x = <<"after", g>>
         /\ \A i : HasRun(i)' <=> HasRun(i) \/ x = <<"run", i>>
<1>1. trace \in Seq(Entry)
  BY DEF TraceInv, TraceOK
<1>2. \A y : Has(trace', y) <=> Has(trace, y) \/ y = x
  BY <1>1, AppendHas
<1> QED
  BY <1>2 DEF Opened, Closed, HasRun

\* A closed group was opened.
LEMMA ClosedOpened ==
  ASSUME TraceInv, NEW g \in Groups, Closed(g)
  PROVE  Opened(g)
BY DEF TraceInv, TraceOK, Paired, Closed, Opened, Has

\* The next group of the system at hand is opened; its members are all to come.
LEMMA EnterGroupInv ==
  ASSUME ScheduleInv, EnterGroup
  PROVE  ScheduleInv'
<1>1. /\ ConfigInv /\ FrameInv /\ PlaceInv /\ CountInv /\ HookInv /\ RunInv /\ WantInv
      /\ TraceInv /\ Running
  BY DEF ScheduleInv, EnterGroup, Running
<1>2. PICK x : x = System(index).groups[Earliest(Unopened)]
  OBVIOUS
<1>3. /\ pc = "enter" /\ Unopened # {}
      /\ trace' = Append(trace, <<"before", x>>)
      /\ \/ active' = Append(active, x) /\ pc' = pc /\ raised' = raised
         \/ pc' = "unwind" /\ raised' = raised \union {"hook"} /\ active' = active
      /\ systems' = systems /\ edges' = edges /\ schedule' = schedule
      /\ remaining' = remaining /\ batch' = batch /\ wanted' = wanted
      /\ index' = index /\ settled' = settled /\ after' = after
  BY <1>2 DEF EnterGroup, Raise
<1>4. PICK i : i = schedule[index]
  OBVIOUS
<1>5. index \in 1 .. Len(schedule) /\ i \in DOMAIN systems /\ System(index) = systems[i]
  BY <1>1, <1>3, <1>4, ScheduleFacts DEF PlaceInv, System
<1>6. x \in GroupsOf(systems[i]) /\ x \in Groups /\ x \notin Range(active)
  <2>1. PICK s : s = systems[i].groups
    OBVIOUS
  <2>2. s \in Seq(Groups) /\ GroupsOf(systems[i]) \subseteq Groups
        /\ \A m \in DOMAIN s : s[m] \in GroupsOf(systems[i])
    BY <1>1, <1>5, <2>1, ListFacts
  <2>3. Unopened = {m \in DOMAIN s : s[m] \notin Range(active)}
    BY <1>5, <2>1 DEF Unopened
  <2>4. Unopened \in SUBSET Nat
    BY <2>2, <2>3
  <2>5. \E k \in Unopened : \A j \in Unopened : k <= j
    BY <1>3, <2>4, LeastNumber
  <2>6. Earliest(Unopened) \in Unopened
    BY <2>5 DEF Earliest
  <2> QED
    BY <1>2, <1>5, <2>1, <2>2, <2>3, <2>6
<1>7. <<"before", x>> \in Entry
  BY <1>6, ScheduleAssumption DEF Entry, Groups
<1>8. /\ \A g : Opened(g)' <=> Opened(g) \/ g = x
      /\ \A g : Closed(g)' <=> Closed(g)
      /\ \A j : HasRun(j)' <=> HasRun(j)
  <2>1. /\ \A g : <<"before", x>> # <<"after", g>> /\ <<"before", x>> # <<"run", g>>
        /\ \A g : <<"before", x>> = <<"before", g>> <=> g = x
    OBVIOUS
  <2> QED
    BY <1>1, <1>3, <1>7, <2>1, EntryAdded
<1>9. i \in Unsettled /\ remaining[x] # 0
  <2>1. i \in Coming
    BY <1>4, <1>5 DEF Coming
  <2>2. i \in Unsettled
    BY <1>1, <2>1, ScheduleFacts
  <2> QED
    BY <1>1, <1>6, <2>2, MembersLeft
<1>10. ~Opened(x) /\ ~Closed(x)
  <2>1. ~Closed(x)
    BY <1>1, <1>6, <1>9 DEF HookInv
  <2>2. "hook" \notin raised
    BY <1>1 DEF FrameInv
  <2> QED
    BY <1>1, <1>6, <2>1, <2>2 DEF HookInv
<1>11. /\ after = "phase" /\ ~Collecting /\ Collected = {}
       /\ settled = <<>> /\ Range(settled) = {} /\ Unsettled = Coming
  <2>1. /\ after = "phase" /\ ~Collecting /\ Collected = {}
        /\ settled = <<>> /\ Range(settled) = {}
    BY <1>1, <1>3 DEF PlaceInv, Collecting, Collected, Range
  <2> QED
    BY <1>1, <2>1, ScheduleFacts
<1>12. ASSUME NEW g \in Groups, NEW h \in Groups,
              <<g, h>> \in Reachability(GroupCount, edges)
       PROVE  /\ x = h /\ Opened(g) => Closed(g)
              /\ x = g => ~Opened(h) /\ g # h
  <2>1. ASSUME x = h, Opened(g) PROVE Closed(g)
    <3> SUFFICES ASSUME ~Closed(g) PROVE FALSE
      OBVIOUS
    <3>1. g \in Range(active)
      BY <1>1, <2>1 DEF HookInv, FrameInv
    <3>2. remaining[g] # 0
      BY <1>1, <1>3, <3>1 DEF HookInv
    <3>3. PICK j \in Coming : g \in GroupsOf(systems[j])
      BY <1>1, <1>11, <3>2, MembersLeft
    <3>4. PICK l \in index .. Len(schedule) : j = schedule[l]
      BY <3>3 DEF Coming
    <3>5. l \in 1 .. Len(schedule) /\ index <= l
      BY <1>5, <3>4
    <3> QED
      BY <1>1, <1>5, <1>6, <1>12, <2>1, <3>3, <3>4, <3>5, NoneBehind DEF System
  <2>2. ASSUME x = g PROVE ~Opened(h) /\ g # h
    <3>1. g # h
      <4>1. index <= index
        BY <1>5
      <4> QED
        BY <1>1, <1>5, <1>6, <1>12, <2>2, <4>1, NoneBehind
    <3>2. ASSUME Opened(h) PROVE FALSE
      <4>1. PICK k \in 1 .. Len(schedule) : k <= index /\ h \in GroupsOf(System(k))
        BY <1>1, <3>2 DEF RunInv
      <4> QED
        BY <1>1, <1>5, <1>6, <1>12, <2>2, <4>1, NoneBehind
    <3> QED
      BY <3>1, <3>2
  <2> QED
    BY <2>1, <2>2
<1>13. TraceInv'
  <2>1. PICK reach, t, e : /\ reach = Reachability(GroupCount, edges) /\ t = trace
                           /\ e = <<"before", x>>
    OBVIOUS
  <2>2. e \in Entry /\ TraceOK(t, systems, reach)
    BY <1>1, <1>7, <2>1 DEF TraceInv
  <2>3. Append(t, e) \in Seq(Entry)
    BY <2>2 DEF TraceOK
  <2>4. Once(Append(t, e))
    BY <1>10, <2>1, <2>2, AppendOnce DEF TraceOK, Opened
  <2>5. Paired(Append(t, e))
    <3>1. \A g \in Groups : e # <<"after", g>>
      BY <2>1
    <3> QED
      BY <2>2, <3>1, AppendPaired DEF TraceOK
  <2>6. Surrounded(Append(t, e), systems)
    <3>1. \A j \in DOMAIN systems : e # <<"run", j>>
      BY <2>1
    <3> QED
      BY <2>2, <3>1, AppendSurrounded DEF TraceOK
  <2>7. Apart(Append(t, e), reach)
    <3>1. \A g, h \in Groups : <<g, h>> \in reach =>
            /\ e = <<"before", h>> /\ Has(t, <<"before", g>>) => Has(t, <<"after", g>>)
            /\ e = <<"before", g>> => ~Has(t, <<"before", h>>) /\ g # h
      BY <1>12, <2>1 DEF Opened, Closed
    <3> QED
      BY <2>2, <3>1, AppendApart DEF TraceOK
  <2> QED
    BY <1>3, <2>1, <2>3, <2>4, <2>5, <2>6, <2>7 DEF TraceInv, TraceOK
<1>14. ConfigInv'
  BY <1>1, <1>3, ConfigKept
<1>15. CASE active' = Append(active, x) /\ pc' = pc /\ raised' = raised
  <2>1. active \in Seq(Groups) /\ Once(active)
    BY <1>1 DEF FrameInv
  <2>2. active' \in Seq(Groups) /\ Once(active') /\ Range(active') = Range(active) \union {x}
    <3>1. active' \in Seq(Groups)
      BY <1>6, <1>15, <2>1
    <3>2. ~Has(active, x)
      BY <1>6, <2>1, RangeHas
    <3>3. Once(active')
      BY <1>6, <1>15, <2>1, <3>2, AppendOnce
    <3>4. \A y : Has(active', y) <=> Has(active, y) \/ y = x
      BY <1>6, <1>15, <2>1, AppendHas
    <3>5. \A y : y \in Range(active') <=> y \in Range(active) \/ y = x
      BY <2>1, <3>1, <3>4, RangeHas
    <3> QED
      BY <3>1, <3>3, <3>5
  <2>3. FrameInv'
    BY <1>1, <1>3, <1>15, <2>2 DEF FrameInv, Sorted, Running
  <2>4. /\ Running' /\ ~Collecting' /\ Collected' = {} /\ Came' = Came
        /\ Unsettled' = Unsettled
    BY <1>1, <1>3, <1>11, <1>15 DEF Running, Collecting, Collected, Came, Unsettled
  <2>5. PlaceInv'
    BY <1>1, <1>3, <1>11, <1>15, <2>4 DEF PlaceInv
  <2>6. CountInv'
    BY <1>1, <1>3, <2>4, CountKept
  <2>7. HookInv'
    BY <1>1, <1>3, <1>6, <1>8, <1>9, <1>10, <1>15, <2>2 DEF HookInv, Running
  <2>8. RunInv'
    <3>1. \A g \in Groups : Opened(g) \/ g = x =>
            \E k \in 1 .. Len(schedule) : k <= index /\ g \in GroupsOf(System(k))
      <4>1. index <= index
        BY <1>5
      <4> QED
        BY <1>1, <1>5, <1>6, <4>1 DEF RunInv
    <3>2. \A k : System(k)' = System(k)
      BY <1>3 DEF System
    <3> QED
      BY <1>1, <1>3, <1>8, <1>11, <2>4, <3>1, <3>2 DEF RunInv
  <2>9. WantInv'
    BY <1>1, <1>3, <1>8, <1>11, <1>15, <2>4 DEF WantInv
  <2> QED
    BY <1>13, <1>14, <2>3, <2>5, <2>6, <2>7, <2>8, <2>9 DEF ScheduleInv
<1>16. CASE pc' = "unwind" /\ raised' = raised \union {"hook"} /\ active' = active
  <2>1. PlaceInv' /\ CountInv' /\ RunInv' /\ ~Running'
    BY <1>16, NotRunning
  <2>2. FrameInv'
    BY <1>1, <1>3, <1>16, <2>1 DEF FrameInv, Sorted
  <2>3. WantInv'
    BY <1>16, <2>1 DEF WantInv
  <2>4. HookInv'
    BY <1>1, <1>6, <1>8, <1>16, <2>1 DEF HookInv
  <2> QED
    BY <1>13, <1>14, <2>1, <2>2, <2>3, <2>4 DEF ScheduleInv
<1> QED
  BY <1>3, <1>15, <1>16

\* All groups of the system at hand are open: it is collected.
LEMMA EnteredInv ==
  ASSUME ScheduleInv, Entered
  PROVE  ScheduleInv'
<1>1. /\ ConfigInv /\ FrameInv /\ PlaceInv /\ CountInv /\ HookInv /\ RunInv /\ WantInv
      /\ TraceInv /\ Running /\ Running'
  BY DEF ScheduleInv, Entered, Running
<1>2. PICK i : i = schedule[index]
  OBVIOUS
<1>3. /\ pc = "enter" /\ Unopened = {} /\ batch' = <<i>> /\ index' = index + 1
      /\ pc' \in {"collect", "run"}
      /\ systems' = systems /\ edges' = edges /\ schedule' = schedule /\ active' = active
      /\ remaining' = remaining /\ settled' = settled /\ after' = after
      /\ trace' = trace /\ wanted' = wanted /\ raised' = raised
  BY <1>2 DEF Entered, ghostVars
<1>4. index \in 1 .. Len(schedule) /\ index <= Len(schedule)
  BY <1>1, <1>3, ScheduleFacts DEF PlaceInv
<1>5. /\ i \in DOMAIN systems
      /\ Came' = Came \union {i} /\ Coming = Coming' \union {i}
      /\ i \notin Came /\ i \notin Coming'
      /\ index' \in 1 .. (Len(schedule') + 1)
  BY <1>1, <1>2, <1>3, <1>4, NextComes
<1>6. batch' \in Seq(DOMAIN systems) /\ Once(batch') /\ Range(batch') = {i}
  BY <1>3, <1>5, OneIs
<1>7. /\ after = "phase" /\ ~Collecting /\ Collected = {}
      /\ settled = <<>> /\ Range(settled) = {}
  BY <1>1, <1>3 DEF PlaceInv, Collecting, Collected, Range
<1>8. Collecting' /\ Collected' = {i}
  BY <1>3, <1>6 DEF Collecting, Collected
<1>9. GroupsOf(systems[i]) \subseteq Range(active)
  BY <1>2, <1>3 DEF Unopened, System, GroupsOf, Range
<1>10. ConfigInv'
  BY <1>1, <1>3, ConfigKept
<1>11. FrameInv'
  BY <1>1, <1>3, <1>5, <1>6 DEF FrameInv, Sorted
<1>12. Unsettled' = Unsettled
  <2>1. Unsettled = Coming \union Collected \union Range(settled)
    BY <1>1, ScheduleFacts
  <2>2. Unsettled' = Coming' \union Collected' \union Range(settled')
    BY DEF Unsettled, Coming, Collected, Collecting
  <2> QED
    BY <1>3, <1>5, <1>7, <1>8, <2>1, <2>2
<1>13. CountInv'
  BY <1>1, <1>3, <1>12, CountKept
<1>14. PlaceInv'
  <2>1. batch' # <<>> /\ DOMAIN batch' = {1} /\ batch'[1] = i
    BY <1>3
  <2>2. Once(settled') /\ Range(settled') \subseteq Came' /\ Range(settled') \cap Collected' = {}
    BY <1>1, <1>3, <1>7 DEF PlaceInv
  <2> QED
    BY <1>3, <1>5, <1>6, <1>7, <1>9, <2>1, <2>2 DEF PlaceInv
<1>15. HookInv'
  <2>1. \A g \in Range(active) : remaining[g] # 0
    BY <1>1, <1>3 DEF HookInv
  <2> QED
    BY <1>1, <1>3, <2>1, HookKept
<1>16. \A j : HasRun(j)' <=> HasRun(j)
  BY <1>3 DEF HasRun
<1>17. RunInv'
  <2>1. \A j \in DOMAIN systems : HasRun(j) => j \in Came' \ Collected'
    BY <1>1, <1>5, <1>7, <1>8 DEF RunInv
  <2>2. ASSUME NEW g \in Groups, Opened(g)
        PROVE  \E k \in 1 .. Len(schedule) : k <= index + 1 /\ g \in GroupsOf(System(k))
    <3>1. PICK k \in 1 .. Len(schedule) : k <= index /\ g \in GroupsOf(System(k))
      BY <1>1, <2>2 DEF RunInv
    <3>2. k <= index + 1
      BY <1>1, <3>1, ScheduleFacts
    <3> QED
      BY <3>1, <3>2
  <2>3. /\ \A g : Opened(g)' <=> Opened(g)
        /\ \A k : System(k)' = System(k)
    BY <1>3 DEF Opened, System
  <2> QED
    BY <1>3, <1>16, <2>1, <2>2, <2>3 DEF RunInv
<1>18. WantInv'
  <2>1. ASSUME NEW j \in DOMAIN systems
        PROVE  j \in wanted <=> HasRun(j) \/ j = i
    <3>1. CASE j = i
      BY <1>1, <1>2, <1>3, <3>1 DEF WantInv
    <3>2. CASE j # i
      <4>1. ~(\E k \in 1 .. Len(schedule) : k = index /\ schedule[k] = j)
        BY <1>2, <3>2
      <4> QED
        BY <1>1, <1>7, <3>2, <4>1 DEF WantInv
    <3> QED
      BY <3>1, <3>2
  <2> QED
    BY <1>1, <1>3, <1>8, <1>16, <2>1 DEF WantInv
<1>19. TraceInv'
  BY <1>1, <1>3, TraceKept
<1> QED
  BY <1>10, <1>11, <1>13, <1>14, <1>15, <1>17, <1>18, <1>19 DEF ScheduleInv

\* The batch ends: nothing but pc changes, and perhaps that the next system was
\* asked and is wanted.
BatchEnds ==
  /\ pc = "collect" /\ pc' = "run"
  /\ \/ wanted' = wanted
     \/ index <= Len(schedule) /\ wanted' = wanted \union {schedule[index]}
  /\ UNCHANGED <<systems, edges, frameVars, trace, raised>>

\* A batch ends: what is collected will run.
LEMMA BatchEndsInv ==
  ASSUME ScheduleInv, BatchEnds
  PROVE  ScheduleInv'
<1>1. /\ ConfigInv /\ FrameInv /\ PlaceInv /\ CountInv /\ HookInv /\ RunInv /\ WantInv
      /\ TraceInv /\ Running /\ Running'
  BY DEF ScheduleInv, BatchEnds, Running
<1>2. /\ pc = "collect" /\ pc' = "run"
      /\ \/ wanted' = wanted
         \/ index <= Len(schedule) /\ wanted' = wanted \union {schedule[index]}
      /\ systems' = systems /\ edges' = edges /\ schedule' = schedule /\ active' = active
      /\ remaining' = remaining /\ batch' = batch /\ trace' = trace /\ raised' = raised
      /\ index' = index /\ settled' = settled /\ after' = after
  BY DEF BatchEnds, frameVars
<1>3. index <= Len(schedule) =>
        index \in 1 .. Len(schedule) /\ schedule[index] \in DOMAIN systems
  <2>1. index \in 1 .. (Len(schedule) + 1)
    BY <1>1 DEF FrameInv
  <2> QED
    BY <1>1, <2>1, ScheduleFacts
<1>4. /\ Collecting /\ Collecting' /\ Collected' = Collected /\ Came' = Came
      /\ Unsettled' = Unsettled
  BY <1>2 DEF Collecting, Collected, Came, Unsettled
<1>5. ConfigInv'
  BY <1>1, <1>2, ConfigKept
<1>6. FrameInv'
  BY <1>1, <1>2, <1>3 DEF FrameInv, Sorted
<1>7. PlaceInv'
  BY <1>1, <1>2, <1>4 DEF PlaceInv
<1>8. CountInv'
  BY <1>1, <1>2, <1>4, CountKept
<1>9. HookInv'
  <2>1. \A g \in Range(active) : remaining[g] # 0
    BY <1>1, <1>2 DEF HookInv
  <2> QED
    BY <1>1, <1>2, <2>1, HookKept
<1>10. RunInv'
  BY <1>1, <1>2, <1>4 DEF RunInv, HasRun, Opened, System
<1>11. WantInv'
  <2>1. \A j \in DOMAIN systems :
          ~(\E k \in 1 .. Len(schedule) : k = index /\ schedule[k] = j) =>
            (j \in wanted' <=> j \in wanted)
    BY <1>2, <1>3
  <2>2. \A j : HasRun(j)' <=> HasRun(j)
    BY <1>2 DEF HasRun
  <2> QED
    BY <1>1, <1>2, <1>4, <2>1, <2>2 DEF WantInv
<1>12. TraceInv'
  BY <1>1, <1>2, TraceKept
<1> QED
  BY <1>5, <1>6, <1>7, <1>8, <1>9, <1>10, <1>11, <1>12 DEF ScheduleInv

\* A batch ends where the groups change or the schedule ends.
LEMMA CollectEndsInv ==
  ASSUME ScheduleInv, CollectEnds
  PROVE  ScheduleInv'
<1>1. BatchEnds
  BY DEF CollectEnds, BatchEnds, ghostVars
<1> QED
  BY <1>1, BatchEndsInv

\* An eligible neighbour joins the batch or ends it.
LEMMA CollectTakesInv ==
  ASSUME ScheduleInv, CollectTakes
  PROVE  ScheduleInv'
<1>1. CASE pc' = "run" /\ index' = index /\ batch' = batch
  <2>1. BatchEnds
    BY <1>1 DEF CollectTakes, MayJoin, Eligible, BatchEnds, frameVars
  <2> QED
    BY <2>1, BatchEndsInv
<1>2. CASE pc' = pc /\ index' = index + 1 /\ batch' = Append(batch, schedule[index])
  <2>1. /\ ConfigInv /\ FrameInv /\ PlaceInv /\ CountInv /\ HookInv /\ RunInv /\ WantInv
        /\ TraceInv /\ Running /\ Running'
    BY <1>2 DEF ScheduleInv, CollectTakes, Running
  <2>2. PICK i : i = schedule[index]
    OBVIOUS
  <2>3. /\ pc = "collect" /\ pc' = "collect" /\ index <= Len(schedule)
        /\ systems[i].groups = systems[batch[1]].groups
        /\ wanted' = wanted \union {i}
        /\ systems' = systems /\ edges' = edges /\ schedule' = schedule
        /\ active' = active /\ remaining' = remaining /\ settled' = settled
        /\ after' = after /\ trace' = trace /\ raised' = raised
    BY <1>2, <2>2 DEF CollectTakes, MayJoin, Eligible, System
  <2>4. /\ i \in DOMAIN systems /\ index \in 1 .. Len(schedule)
        /\ Came' = Came \union {i} /\ Coming = Coming' \union {i}
        /\ i \notin Came /\ i \notin Coming'
        /\ index' \in 1 .. (Len(schedule') + 1)
    BY <1>2, <2>1, <2>2, <2>3, NextComes
  <2>5. /\ Collecting /\ Collecting' /\ Collected = Range(batch)
        /\ Collected' = Range(batch') /\ Range(batch) \subseteq Came
        /\ settled = <<>> /\ Range(settled) = {}
        /\ batch # <<>> /\ Once(batch) /\ batch \in Seq(DOMAIN systems)
    BY <2>1, <2>3 DEF PlaceInv, Collecting, Collected, Range, FrameInv
  <2>6. PICK b, n : b = batch /\ Added(batch', b, n, i)
    BY <1>2, <2>2, <2>4, <2>5, AddedIs
  <2>7. batch' \in Seq(DOMAIN systems) /\ Once(batch') /\ Range(batch') = Range(batch) \union {i}
    <3>1. batch' = Append(batch, i)
      BY <1>2, <2>2
    <3>2. batch' \in Seq(DOMAIN systems)
      BY <2>4, <2>5, <3>1
    <3>3. ~Has(batch, i)
      BY <2>4, <2>5, RangeHas
    <3>4. Once(batch')
      BY <2>4, <2>5, <3>1, <3>3, AppendOnce
    <3>5. \A y : Has(batch', y) <=> Has(batch, y) \/ y = i
      BY <2>4, <2>5, <3>1, AppendHas
    <3>6. \A y : y \in Range(batch') <=> y \in Range(batch) \/ y = i
      BY <2>5, <3>2, <3>5, RangeHas
    <3> QED
      BY <3>2, <3>4, <3>6
  <2>8. /\ batch' # <<>> /\ batch'[1] = batch[1]
        /\ \A k \in DOMAIN batch' : systems[batch'[k]].groups = systems[batch[1]].groups
    <3>1. n \in Nat \ {0} /\ DOMAIN b = 1 .. n /\ DOMAIN batch' = 1 .. (n + 1)
      <4>1. b # <<>> /\ b \in Seq(DOMAIN systems)
        BY <2>5, <2>6
      <4>2. Len(b) = n /\ Len(batch') = n + 1
        BY <2>6 DEF Added
      <4> QED
        BY <2>7, <4>1, <4>2
    <3>2. \A k \in 1 .. n : systems[b[k]].groups = systems[b[1]].groups
      BY <2>1, <2>5, <2>6, <3>1 DEF PlaceInv
    <3>3. batch'[1] = b[1] /\ \A k \in 1 .. (n + 1) :
            systems[batch'[k]].groups = systems[b[1]].groups
      BY <2>3, <2>6, <3>1, <3>2 DEF Added
    <3>4. batch' # <<>>
      BY <3>1
    <3> QED
      BY <2>6, <3>1, <3>3, <3>4
  <2>9. ConfigInv'
    BY <2>1, <2>3, ConfigKept
  <2>10. FrameInv'
    BY <2>1, <2>3, <2>4, <2>7 DEF FrameInv, Sorted
  <2>11. Unsettled' = Unsettled
    <3>1. Unsettled = Coming \union Collected \union Range(settled)
      BY <2>1, ScheduleFacts
    <3>2. Unsettled' = Coming' \union Collected' \union Range(settled')
      BY DEF Unsettled, Coming, Collected, Collecting
    <3> QED
      BY <2>3, <2>4, <2>5, <2>7, <3>1, <3>2
  <2>12. CountInv'
    BY <2>1, <2>3, <2>11, CountKept
  <2>13. PlaceInv'
    <3>1. GroupsOf(systems[batch[1]]) \subseteq Range(active)
      BY <2>1, <2>5 DEF PlaceInv
    <3>2. Once(settled') /\ Range(settled') = {}
      BY <2>1, <2>3, <2>5 DEF PlaceInv
    <3>3. Range(batch') \subseteq Came'
      BY <2>4, <2>5, <2>7
    <3> QED
      BY <2>3, <2>5, <2>7, <2>8, <3>1, <3>2, <3>3 DEF PlaceInv
  <2>14. HookInv'
    <3>1. \A g \in Range(active) : remaining[g] # 0
      BY <2>1, <2>3 DEF HookInv
    <3> QED
      BY <2>1, <2>3, <3>1, HookKept
  <2>15. \A j : HasRun(j)' <=> HasRun(j)
    BY <2>3 DEF HasRun
  <2>16. RunInv'
    <3>1. \A j \in DOMAIN systems : HasRun(j) => j \in Came' \ Collected'
      BY <2>1, <2>4, <2>5, <2>7 DEF RunInv
    <3>2. ASSUME NEW g \in Groups, Opened(g)
          PROVE  \E k \in 1 .. Len(schedule) : k <= index + 1 /\ g \in GroupsOf(System(k))
      <4>1. PICK k \in 1 .. Len(schedule) : k <= index /\ g \in GroupsOf(System(k))
        BY <2>1, <3>2 DEF RunInv
      <4>2. k <= index + 1
        BY <2>1, <4>1, ScheduleFacts
      <4> QED
        BY <4>1, <4>2
    <3>3. /\ \A g : Opened(g)' <=> Opened(g)
          /\ \A k : System(k)' = System(k)
      BY <2>3 DEF Opened, System
    <3> QED
      BY <1>2, <2>3, <2>15, <3>1, <3>2, <3>3 DEF RunInv
  <2>17. WantInv'
    <3>1. ASSUME NEW j \in DOMAIN systems
          PROVE  j \in wanted' <=> HasRun(j) \/ j \in Collected'
      <4>1. CASE j = i
        BY <2>3, <2>5, <2>7, <4>1
      <4>2. CASE j # i
        <5>1. ~(\E k \in 1 .. Len(schedule) : k = index /\ schedule[k] = j)
          BY <2>2, <4>2
        <5>2. j \in wanted <=> HasRun(j) \/ j \in Collected
          BY <2>1, <5>1 DEF WantInv
        <5> QED
          BY <2>3, <2>5, <2>7, <4>2, <5>2
      <4> QED
        BY <4>1, <4>2
    <3> QED
      BY <2>1, <2>3, <2>15, <3>1 DEF WantInv
  <2>18. TraceInv'
    BY <2>1, <2>3, TraceKept
  <2> QED
    BY <2>9, <2>10, <2>12, <2>13, <2>14, <2>16, <2>17, <2>18 DEF ScheduleInv
<1> QED
  BY <1>1, <1>2 DEF CollectTakes

\* The first k systems of the batch have run, within the hooks of their groups.
LEMMA RunsAdded ==
  ASSUME TraceInv, NEW k \in Nat, k <= Len(batch), batch \in Seq(DOMAIN systems),
         Once(batch), DOMAIN systems \subseteq Nat,
         \A i \in Range(batch) :
           ~HasRun(i) /\ \A g \in GroupsOf(systems[i]) : Opened(g) /\ ~Closed(g),
         trace' = trace \o Ran(k), systems' = systems, edges' = edges
  PROVE  /\ TraceInv'
         /\ \A g : (Opened(g)' <=> Opened(g)) /\ (Closed(g)' <=> Closed(g))
         /\ \A i : HasRun(i)' <=> HasRun(i) \/ \E j \in 1 .. k : batch[j] = i
<1>1. PICK t, b, r, u : t = trace /\ b = batch /\ r = Ran(k) /\ u = t \o r
  OBVIOUS
<1>2. PICK n : n = Len(t)
  OBVIOUS
<1>3. t \in Seq(Entry) /\ n \in Nat
  BY <1>1, <1>2 DEF TraceInv, TraceOK
<1>4. \A j \in 1 .. k : b[j] \in DOMAIN systems /\ b[j] \in Range(batch)
  BY <1>1 DEF Range
<1>5. r = [j \in 1 .. k |-> <<"run", b[j]>>]
  BY <1>1 DEF Ran
<1>6. r \in Seq(Entry) /\ Len(r) = k
  <2>1. \A j \in 1 .. k : <<"run", b[j]>> \in Entry
    BY <1>4 DEF Entry
  <2> QED
    BY <1>5, <2>1
<1>7. /\ u \in Seq(Entry) /\ Len(u) = n + k
      /\ \A j \in 1 .. n : u[j] = t[j]
      /\ \A j \in 1 .. k : u[n + j] = <<"run", b[j]>>
  BY <1>1, <1>2, <1>3, <1>5, <1>6
<1>8. \A m \in 1 .. (n + k) :
        \/ m \in 1 .. n /\ u[m] = t[m]
        \/ m - n \in 1 .. k /\ u[m] = <<"run", b[m - n]>> /\ n < m
  <2> SUFFICES ASSUME NEW m \in 1 .. (n + k), m \notin 1 .. n
               PROVE  m - n \in 1 .. k /\ u[m] = <<"run", b[m - n]>> /\ n < m
    BY <1>7
  <2>1. m - n \in 1 .. k /\ n < m /\ n + (m - n) = m
    BY <1>3
  <2> QED
    BY <1>7, <2>1
<1>9. \A y : Has(u, y) <=> Has(t, y) \/ \E j \in 1 .. k : y = <<"run", b[j]>>
  <2> SUFFICES ASSUME NEW y
               PROVE  Has(u, y) <=> Has(t, y) \/ \E j \in 1 .. k : y = <<"run", b[j]>>
    OBVIOUS
  <2>1. ASSUME Has(u, y) PROVE Has(t, y) \/ \E j \in 1 .. k : y = <<"run", b[j]>>
    <3>1. PICK m \in 1 .. (n + k) : u[m] = y
      BY <1>7, <2>1 DEF Has
    <3> QED
      BY <1>2, <1>8, <3>1 DEF Has
  <2>2. ASSUME Has(t, y) PROVE Has(u, y)
    <3>1. PICK m \in 1 .. n : t[m] = y
      BY <1>2, <2>2 DEF Has
    <3>2. m \in 1 .. (n + k)
      BY <1>3
    <3> QED
      BY <1>7, <3>1, <3>2 DEF Has
  <2>3. ASSUME NEW j \in 1 .. k, y = <<"run", b[j]>> PROVE Has(u, y)
    <3>1. n + j \in 1 .. (n + k)
      BY <1>3
    <3> QED
      BY <1>7, <2>3, <3>1 DEF Has
  <2> QED
    BY <2>1, <2>2, <2>3
<1>10. PICK reach, list : reach = Reachability(GroupCount, edges) /\ list = systems
  OBVIOUS
<1>11. Once(t) /\ Paired(t) /\ Surrounded(t, list) /\ Apart(t, reach)
  BY <1>1, <1>10 DEF TraceInv, TraceOK
<1>12. \A j \in 1 .. k : ~Has(t, <<"run", b[j]>>)
  BY <1>1, <1>4 DEF HasRun
<1>13. Once(u)
  <2>1. \A i, j \in 1 .. k : b[i] = b[j] => i = j
    BY <1>1 DEF Once
  <2>2. SUFFICES ASSUME NEW i \in 1 .. (n + k), NEW j \in 1 .. (n + k), u[i] = u[j]
                 PROVE  i = j
    BY <1>7 DEF Once
  <2>3. CASE i \in 1 .. n /\ j \in 1 .. n
    BY <1>2, <1>7, <1>11, <2>2, <2>3 DEF Once
  <2>4. CASE i \notin 1 .. n /\ j \notin 1 .. n
    <3>1. i - n = j - n
      BY <1>8, <2>1, <2>2, <2>4
    <3> QED
      BY <1>3, <3>1
  <2>5. CASE i \in 1 .. n /\ j \notin 1 .. n
    <3>1. PICK l \in 1 .. k : u[j] = <<"run", b[l]>>
      BY <1>8, <2>5
    <3>2. t[i] = <<"run", b[l]>> /\ i \in 1 .. Len(t)
      BY <1>2, <1>7, <2>2, <2>5, <3>1
    <3> QED
      BY <1>12, <3>2 DEF Has
  <2>6. CASE i \notin 1 .. n /\ j \in 1 .. n
    <3>1. PICK l \in 1 .. k : u[i] = <<"run", b[l]>>
      BY <1>8, <2>6
    <3>2. t[j] = <<"run", b[l]>> /\ j \in 1 .. Len(t)
      BY <1>2, <1>7, <2>2, <2>6, <3>1
    <3> QED
      BY <1>12, <3>2 DEF Has
  <2> QED
    BY <2>3, <2>4, <2>5, <2>6
<1>14. \A m \in 1 .. (n + k) : \A g : u[m] = <<"before", g>> \/ u[m] = <<"after", g>>
         => m \in 1 .. n /\ u[m] = t[m]
  BY <1>8
<1>15. \A m \in 1 .. n : m \in 1 .. (n + k) /\ u[m] = t[m]
  BY <1>3, <1>7
<1>16. Paired(u)
  <2> SUFFICES ASSUME NEW g \in Groups, NEW m \in 1 .. (n + k), u[m] = <<"after", g>>
               PROVE  \E j \in 1 .. (n + k) : j < m /\ u[j] = <<"before", g>>
    BY <1>7 DEF Paired
  <2>1. m \in 1 .. n /\ t[m] = <<"after", g>>
    BY <1>14
  <2>2. PICK j \in 1 .. n : j < m /\ t[j] = <<"before", g>>
    BY <1>2, <1>11, <2>1 DEF Paired
  <2> QED
    BY <1>15, <2>2
<1>17. Surrounded(u, list)
  <2>1. SUFFICES ASSUME NEW i \in DOMAIN list, NEW m \in 1 .. (n + k), u[m] = <<"run", i>>,
                        NEW g \in GroupsOf(list[i])
                 PROVE  /\ \E j \in 1 .. (n + k) : j < m /\ u[j] = <<"before", g>>
                        /\ \A j \in 1 .. (n + k) : u[j] = <<"after", g>> => m < j
    <3>1. Len(u) = n + k
      BY <1>7
    <3>2. SUFFICES ASSUME NEW i \in DOMAIN list, NEW m \in 1 .. Len(u), u[m] = <<"run", i>>
                   PROVE  \A g \in GroupsOf(list[i]) :
                            /\ \E j \in 1 .. Len(u) : j < m /\ u[j] = <<"before", g>>
                            /\ \A j \in 1 .. Len(u) : u[j] = <<"after", g>> => m < j
      BY DEF Surrounded
    <3> QED
      BY <3>1, <3>2
  <2>2. CASE m \in 1 .. n
    <3>1. t[m] = <<"run", i>>
      BY <1>15, <2>1, <2>2
    <3>2. /\ \E j \in 1 .. n : j < m /\ t[j] = <<"before", g>>
          /\ \A j \in 1 .. n : t[j] = <<"after", g>> => m < j
      BY <1>2, <1>11, <2>1, <2>2, <3>1 DEF Surrounded
    <3> QED
      BY <1>14, <1>15, <3>2
  <2>3. CASE m \notin 1 .. n
    <3>1. m - n \in 1 .. k /\ u[m] = <<"run", b[m - n]>> /\ n < m
      BY <1>8, <2>1, <2>3
    <3>2. i = b[m - n] /\ i \in Range(batch)
      BY <1>4, <2>1, <3>1
    <3>3. Opened(g) /\ ~Closed(g)
      BY <1>10, <2>1, <3>2
    <3>4. PICK j \in 1 .. n : t[j] = <<"before", g>>
      BY <1>1, <1>2, <3>3 DEF Opened, Has
    <3>5. j \in 1 .. (n + k) /\ j < m /\ u[j] = <<"before", g>>
      BY <1>3, <1>15, <3>1, <3>4
    <3>6. \A l \in 1 .. (n + k) : u[l] # <<"after", g>>
      <4>1. \A l \in 1 .. n : t[l] # <<"after", g>>
        BY <1>1, <1>2, <3>3 DEF Closed, Has
      <4> QED
        BY <1>14, <4>1
    <3> QED
      BY <3>5, <3>6
  <2> QED
    BY <2>2, <2>3
<1>18. Apart(u, reach)
  <2>1. SUFFICES ASSUME NEW g \in Groups, NEW h \in Groups, <<g, h>> \in reach,
                        NEW m \in 1 .. (n + k), u[m] = <<"before", h>>
                 PROVE  /\ \A j \in 1 .. (n + k) : u[j] = <<"before", g>> => j < m
                        /\ Has(u, <<"before", g>>) =>
                             \E j \in 1 .. (n + k) : j < m /\ u[j] = <<"after", g>>
    <3>1. Len(u) = n + k
      BY <1>7
    <3> QED
      BY <3>1 DEF Apart
  <2>2. m \in 1 .. n /\ t[m] = <<"before", h>>
    BY <1>14, <2>1
  <2>3. /\ \A j \in 1 .. n : t[j] = <<"before", g>> => j < m
        /\ Has(t, <<"before", g>>) => \E j \in 1 .. n : j < m /\ t[j] = <<"after", g>>
    BY <1>2, <1>11, <2>1, <2>2 DEF Apart
  <2>4. Has(u, <<"before", g>>) <=> Has(t, <<"before", g>>)
    BY <1>9
  <2> QED
    BY <1>14, <1>15, <2>3, <2>4
<1>19. trace' = u
  BY <1>1
<1>20. TraceInv'
  BY <1>7, <1>10, <1>13, <1>16, <1>17, <1>18, <1>19 DEF TraceInv, TraceOK
<1>21. /\ \A g : (Opened(g)' <=> Opened(g)) /\ (Closed(g)' <=> Closed(g))
       /\ \A i : HasRun(i)' <=> HasRun(i) \/ \E j \in 1 .. k : batch[j] = i
  BY <1>1, <1>9, <1>19 DEF Opened, Closed, HasRun
<1> QED
  BY <1>20, <1>21

\* What is collected may run.
LEMMA BatchReady ==
  ASSUME ScheduleInv, pc = "run"
  PROVE  /\ batch \in Seq(DOMAIN systems) /\ Once(batch) /\ DOMAIN systems \subseteq Nat
         /\ Len(batch) \in Nat /\ DOMAIN batch = 1 .. Len(batch)
         /\ Collecting /\ Collected = Range(batch) /\ settled = <<>>
         /\ \A i \in Range(batch) :
              ~HasRun(i) /\ \A g \in GroupsOf(systems[i]) : Opened(g) /\ ~Closed(g)
<1>1. ConfigInv /\ FrameInv /\ PlaceInv /\ HookInv /\ RunInv /\ Running
  BY DEF ScheduleInv, Running
<1>2. Collecting /\ Collected = Range(batch) /\ settled = <<>> /\ Once(batch)
  BY <1>1 DEF PlaceInv, Collecting, Collected
<1>3. batch \in Seq(DOMAIN systems) /\ DOMAIN systems \subseteq Nat
  BY <1>1, ListFacts DEF FrameInv
<1>4. Len(batch) \in Nat /\ DOMAIN batch = 1 .. Len(batch)
  BY <1>3
<1>5. ASSUME NEW i \in Range(batch)
      PROVE  ~HasRun(i) /\ \A g \in GroupsOf(systems[i]) : Opened(g) /\ ~Closed(g)
  <2>1. i \in DOMAIN systems /\ i \in Collected
    BY <1>1, <1>2, ScheduleFacts
  <2>2. ~HasRun(i)
    BY <1>1, <2>1 DEF RunInv
  <2>3. PICK k \in DOMAIN batch : batch[k] = i
    BY DEF Range
  <2>4. systems[i].groups = systems[batch[1]].groups
    BY <1>1, <1>2, <2>3 DEF PlaceInv
  <2>5. GroupsOf(systems[i]) \subseteq Range(active)
    BY <1>1, <1>2, <2>4 DEF PlaceInv, GroupsOf
  <2> QED
    BY <1>1, <2>2, <2>5 DEF HookInv
<1> QED
  BY <1>2, <1>3, <1>4, <1>5

\* The collected systems run, and their groups are to be advanced.
LEMMA RunSystemsInv ==
  ASSUME ScheduleInv, RunSystems
  PROVE  ScheduleInv'
<1>1. /\ ConfigInv /\ FrameInv /\ PlaceInv /\ CountInv /\ HookInv /\ RunInv /\ WantInv
      /\ TraceInv /\ Running /\ Running'
  BY DEF ScheduleInv, RunSystems, Running
<1>2. /\ pc = "run" /\ trace' = trace \o Ran(Len(batch)) /\ pc' = "advance"
      /\ settled' = batch /\ after' = "phase"
      /\ systems' = systems /\ edges' = edges /\ schedule' = schedule /\ active' = active
      /\ remaining' = remaining /\ batch' = batch /\ raised' = raised
      /\ index' = index /\ wanted' = wanted
  BY DEF RunSystems
<1>3. /\ batch \in Seq(DOMAIN systems) /\ Once(batch) /\ DOMAIN systems \subseteq Nat
      /\ Len(batch) \in Nat /\ DOMAIN batch = 1 .. Len(batch)
      /\ Collecting /\ Collected = Range(batch) /\ settled = <<>>
      /\ \A i \in Range(batch) :
           ~HasRun(i) /\ \A g \in GroupsOf(systems[i]) : Opened(g) /\ ~Closed(g)
  BY <1>2, BatchReady
<1>4. /\ TraceInv'
      /\ \A g : (Opened(g)' <=> Opened(g)) /\ (Closed(g)' <=> Closed(g))
      /\ \A i : HasRun(i)' <=> HasRun(i) \/ \E j \in 1 .. Len(batch) : batch[j] = i
  <2>1. Len(batch) <= Len(batch)
    BY <1>3
  <2> QED
    BY <1>1, <1>2, <1>3, <2>1, RunsAdded
<1>5. \A i : HasRun(i)' <=> HasRun(i) \/ i \in Range(batch)
  BY <1>3, <1>4 DEF Range
<1>6. /\ ~Collecting' /\ Collected' = {} /\ Came' = Came /\ Range(batch) \subseteq Came
      /\ Range(settled) = {}
  <2>1. ~Collecting' /\ Collected' = {}
    BY <1>2 DEF Collecting, Collected
  <2>2. Came' = Came
    BY <1>2 DEF Came
  <2>3. Range(batch) \subseteq Came
    BY <1>1, <1>3 DEF PlaceInv
  <2>4. Range(settled) = {}
    BY <1>3 DEF Range
  <2> QED
    BY <2>1, <2>2, <2>3, <2>4
<1>7. ConfigInv'
  BY <1>1, <1>2, ConfigKept
<1>8. FrameInv'
  BY <1>1, <1>2, <1>3 DEF FrameInv, Sorted
<1>9. PlaceInv'
  BY <1>1, <1>2, <1>3, <1>6 DEF PlaceInv
<1>10. Unsettled' = Unsettled
  <2>1. Unsettled = Coming \union Collected \union Range(settled)
    BY <1>1, ScheduleFacts
  <2>2. Unsettled' = Coming' \union Collected' \union Range(settled')
    BY DEF Unsettled, Coming, Collected, Collecting
  <2>3. Coming' = Coming
    BY <1>2 DEF Coming
  <2> QED
    BY <1>2, <1>3, <1>6, <2>1, <2>2, <2>3
<1>11. CountInv'
  BY <1>1, <1>2, <1>10, CountKept
<1>12. HookInv'
  BY <1>1, <1>2, <1>4 DEF HookInv, Running
<1>13. RunInv'
  <2>1. \A i \in DOMAIN systems : HasRun(i)' => i \in Came' \ Collected'
    BY <1>1, <1>5, <1>6 DEF RunInv
  <2>2. \A k : System(k)' = System(k)
    BY <1>2 DEF System
  <2> QED
    BY <1>1, <1>2, <1>4, <2>1, <2>2 DEF RunInv
<1>14. WantInv'
  <2>1. \A i \in DOMAIN systems : HasRun(i)' <=> HasRun(i) \/ i \in Collected
    BY <1>3, <1>5
  <2> QED
    BY <1>1, <1>2, <1>6, <2>1 DEF WantInv
<1> QED
  BY <1>4, <1>7, <1>8, <1>9, <1>11, <1>12, <1>13, <1>14 DEF ScheduleInv

\* A system of the batch raises, or its preparation does: the ones before it, or
\* none, have run.
LEMMA RunFailsInv ==
  ASSUME ScheduleInv, RunFails
  PROVE  ScheduleInv'
<1>1. /\ pc = "run" /\ Running /\ pc' = "unwind" /\ raised' = raised \union {"code"}
      /\ UNCHANGED <<systems, edges, frameVars, wanted>>
  BY DEF RunFails, Raise, Running
<1>2. PICK k \in 0 .. Len(batch) : trace' = trace \o Ran(k)
  BY DEF RunFails
<1>3. /\ batch \in Seq(DOMAIN systems) /\ Once(batch) /\ DOMAIN systems \subseteq Nat
      /\ Len(batch) \in Nat /\ DOMAIN batch = 1 .. Len(batch)
      /\ \A i \in Range(batch) :
           ~HasRun(i) /\ \A g \in GroupsOf(systems[i]) : Opened(g) /\ ~Closed(g)
  BY <1>1, BatchReady
<1>4. k \in Nat /\ k <= Len(batch)
  BY <1>3
<1>5. /\ TraceInv'
      /\ \A g : (Opened(g)' <=> Opened(g)) /\ (Closed(g)' <=> Closed(g))
  BY <1>1, <1>2, <1>3, <1>4, RunsAdded DEF ScheduleInv
<1> QED
  BY <1>1, <1>5, RaisesInv

-----------------------------------------------------------------------------
(* The steps that settle systems and close groups.                         *)

\* A sequence without its first element.
LEMMA TailIs ==
  ASSUME NEW S, NEW q \in Seq(S), q # <<>>, Once(q)
  PROVE  /\ Tail(q) \in Seq(S) /\ Once(Tail(q))
         /\ Range(Tail(q)) = Range(q) \ {Head(q)} /\ Head(q) \in Range(q)
<1>1. PICK n : n = Len(q)
  OBVIOUS
<1>2. n \in Nat \ {0} /\ DOMAIN q = 1 .. n
  BY <1>1
<1>3. PICK p, x : p = Tail(q) /\ x = Head(q)
  OBVIOUS
<1>4. /\ p \in Seq(S) /\ DOMAIN p = 1 .. (n - 1) /\ Len(p) = n - 1 /\ x = q[1]
      /\ \A k \in 1 .. (n - 1) : p[k] = q[k + 1]
  BY <1>1, <1>2, <1>3
<1>5. \A j, k \in 1 .. n : q[j] = q[k] => j = k
  BY <1>1 DEF Once
<1>6. \A k \in 1 .. (n - 1) : k + 1 \in 1 .. n /\ k + 1 # 1
  BY <1>2
<1>7. Once(p)
  <2> SUFFICES ASSUME NEW j \in 1 .. (n - 1), NEW k \in 1 .. (n - 1), p[j] = p[k]
               PROVE  j = k
    BY <1>4 DEF Once
  <2>1. j + 1 = k + 1
    BY <1>4, <1>5, <1>6
  <2> QED
    BY <1>2, <2>1
<1>8. Range(p) = Range(q) \ {x}
  <2>1. \A y : y \in Range(p) <=> \E k \in 1 .. (n - 1) : q[k + 1] = y
    BY <1>4 DEF Range
  <2>2. \A y : y \in Range(q) <=> \E k \in 1 .. n : q[k] = y
    BY <1>2 DEF Range
  <2>3. \A k \in 1 .. n : k = 1 \/ (k - 1 \in 1 .. (n - 1) /\ (k - 1) + 1 = k)
    BY <1>2
  <2>4. ASSUME NEW y \in Range(p) PROVE y \in Range(q) /\ y # x
    <3>1. PICK k \in 1 .. (n - 1) : q[k + 1] = y
      BY <2>1
    <3>2. 1 \in 1 .. n
      BY <1>2
    <3> QED
      BY <1>4, <1>5, <1>6, <2>2, <3>1, <3>2
  <2>5. ASSUME NEW y \in Range(q), y # x PROVE y \in Range(p)
    <3>1. PICK k \in 1 .. n : q[k] = y
      BY <2>2
    <3>2. k # 1
      BY <1>4, <2>5, <3>1
    <3> QED
      BY <2>1, <2>3, <3>1, <3>2
  <2> QED
    BY <2>4, <2>5
<1>9. x \in Range(q)
  BY <1>2, <1>4 DEF Range
<1> QED
  BY <1>3, <1>4, <1>7, <1>8, <1>9

\* A sequence without its k-th element.
LEMMA RemoveIs ==
  ASSUME NEW S, NEW q \in Seq(S), Once(q), NEW k \in 1 .. Len(q)
  PROVE  /\ RemoveAt(q, k) \in Seq(S) /\ Once(RemoveAt(q, k))
         /\ Range(RemoveAt(q, k)) = Range(q) \ {q[k]}
<1>1. PICK n : n = Len(q)
  OBVIOUS
<1>2. n \in Nat /\ k \in 1 .. n /\ DOMAIN q = 1 .. n
  BY <1>1
<1>3. PICK a, b, p : a = SubSeq(q, 1, k - 1) /\ b = SubSeq(q, k + 1, n) /\ p = a \o b
  OBVIOUS
<1>4. a \in Seq(S) /\ Len(a) = k - 1 /\ \A j \in 1 .. (k - 1) : a[j] = q[j]
  BY <1>1, <1>2, <1>3
<1>5. b \in Seq(S) /\ Len(b) = n - k /\ \A j \in 1 .. (n - k) : b[j] = q[k + j]
  BY <1>1, <1>2, <1>3
<1>6. /\ p \in Seq(S) /\ Len(p) = n - 1 /\ DOMAIN p = 1 .. (n - 1)
      /\ \A j \in 1 .. (k - 1) : p[j] = a[j]
      /\ \A j \in 1 .. (n - k) : p[(k - 1) + j] = b[j]
  <2>1. p \in Seq(S) /\ Len(p) = (k - 1) + (n - k)
    BY <1>3, <1>4, <1>5
  <2>2. /\ \A j \in 1 .. (k - 1) : p[j] = a[j]
        /\ \A j \in 1 .. (n - k) : p[(k - 1) + j] = b[j]
    <3>1. PICK c, d : c = k - 1 /\ d = n - k
      OBVIOUS
    <3>2. /\ a \in Seq(S) /\ b \in Seq(S) /\ Len(a) = c /\ Len(b) = d /\ p = a \o b
          /\ c \in Nat /\ d \in Nat
      BY <1>2, <1>3, <1>4, <1>5, <3>1
    <3>3. \A j \in 1 .. c : p[j] = a[j]
      BY <3>2
    <3>4. \A j \in 1 .. d : p[c + j] = b[j]
      BY <3>2
    <3> QED
      BY <3>1, <3>3, <3>4
  <2>3. Len(p) = n - 1
    BY <1>2, <2>1
  <2> QED
    BY <2>1, <2>2, <2>3
<1>7. \A j \in 1 .. (n - 1) : p[j] = IF j < k THEN q[j] ELSE q[j + 1]
  <2> SUFFICES ASSUME NEW j \in 1 .. (n - 1)
               PROVE  p[j] = IF j < k THEN q[j] ELSE q[j + 1]
    OBVIOUS
  <2>1. CASE j < k
    <3>1. j \in 1 .. (k - 1)
      BY <1>2, <2>1
    <3> QED
      BY <1>4, <1>6, <2>1, <3>1
  <2>2. CASE ~(j < k)
    <3>1. PICK l : l = j - k + 1
      OBVIOUS
    <3>2. l \in 1 .. (n - k) /\ (k - 1) + l = j /\ k + l = j + 1
      BY <1>2, <2>2, <3>1
    <3> QED
      BY <1>5, <1>6, <2>2, <3>2
  <2> QED
    BY <2>1, <2>2
<1>8. \A j, l \in 1 .. n : q[j] = q[l] => j = l
  BY <1>1 DEF Once
<1>9. Once(p)
  <2> SUFFICES ASSUME NEW j \in 1 .. (n - 1), NEW l \in 1 .. (n - 1), p[j] = p[l]
               PROVE  j = l
    BY <1>6 DEF Once
  <2>1. j \in 1 .. n /\ j + 1 \in 1 .. n /\ l \in 1 .. n /\ l + 1 \in 1 .. n
    BY <1>2
  <2>2. (IF j < k THEN j ELSE j + 1) = (IF l < k THEN l ELSE l + 1)
    BY <1>7, <1>8, <2>1
  <2> QED
    BY <1>2, <2>2
<1>10. Range(p) = Range(q) \ {q[k]}
  <2>1. \A y : y \in Range(p) <=> \E j \in 1 .. (n - 1) : p[j] = y
    BY <1>6 DEF Range
  <2>2. \A y : y \in Range(q) <=> \E j \in 1 .. n : q[j] = y
    BY <1>2 DEF Range
  <2>3. ASSUME NEW y \in Range(p) PROVE y \in Range(q) /\ y # q[k]
    <3>1. PICK j \in 1 .. (n - 1) : p[j] = y
      BY <2>1
    <3>2. PICK i : i = IF j < k THEN j ELSE j + 1
      OBVIOUS
    <3>3. i \in 1 .. n /\ i # k /\ q[i] = y
      BY <1>2, <1>7, <3>1, <3>2
    <3> QED
      BY <1>2, <1>8, <2>2, <3>3
  <2>4. ASSUME NEW y \in Range(q), y # q[k] PROVE y \in Range(p)
    <3>1. PICK i \in 1 .. n : q[i] = y
      BY <2>2
    <3>2. i # k
      BY <2>4, <3>1
    <3>3. PICK j : j = IF i < k THEN i ELSE i - 1
      OBVIOUS
    <3>4. j \in 1 .. (n - 1) /\ (IF j < k THEN j ELSE j + 1) = i
      BY <1>2, <3>2, <3>3
    <3>5. p[j] = y
      BY <1>7, <3>1, <3>4
    <3> QED
      BY <2>1, <3>4, <3>5
  <2> QED
    BY <2>3, <2>4
<1> QED
  BY <1>1, <1>3, <1>6, <1>9, <1>10 DEF RemoveAt

\* A settled system is taken off its groups, which have one member less to come.
LEMMA AdvanceInv ==
  ASSUME ScheduleInv, Advance
  PROVE  ScheduleInv'
<1>1. /\ ConfigInv /\ FrameInv /\ PlaceInv /\ CountInv /\ HookInv /\ RunInv /\ WantInv
      /\ TraceInv /\ Running /\ Running'
  BY DEF ScheduleInv, Advance, Running
<1>2. PICK x : x = Head(settled)
  OBVIOUS
<1>3. /\ pc = "advance" /\ settled # <<>> /\ settled' = Tail(settled) /\ pc' = pc
      /\ remaining' = [g \in Groups |->
                         IF g \in GroupsOf(systems[x]) /\ remaining[g] > 0
                           THEN remaining[g] - 1 ELSE remaining[g]]
      /\ systems' = systems /\ edges' = edges /\ schedule' = schedule /\ active' = active
      /\ batch' = batch /\ trace' = trace /\ raised' = raised
      /\ index' = index /\ after' = after /\ wanted' = wanted
  BY <1>2 DEF Advance, ghostVars
<1>4. settled \in Seq(DOMAIN systems) /\ Once(settled) /\ remaining \in [Groups -> Nat]
  BY <1>1 DEF FrameInv, PlaceInv
<1>5. /\ settled' \in Seq(DOMAIN systems) /\ Once(settled')
      /\ Range(settled') = Range(settled) \ {x} /\ x \in Range(settled)
  BY <1>2, <1>3, <1>4, TailIs
<1>6. /\ (Collecting' <=> Collecting) /\ Collected' = Collected /\ Came' = Came
      /\ Coming' = Coming
  BY <1>3 DEF Collecting, Collected, Came, Coming
<1>7. x \notin Coming /\ x \notin Collected /\ x \in DOMAIN systems
  <2>1. x \in Came /\ x \notin Collected
    BY <1>1, <1>5 DEF PlaceInv
  <2> QED
    BY <1>1, <2>1, ScheduleFacts
<1>8. x \in Unsettled /\ Unsettled' = Unsettled \ {x}
  <2>1. Unsettled = Coming \union Collected \union Range(settled)
    BY <1>1, ScheduleFacts
  <2>2. Unsettled' = Coming' \union Collected' \union Range(settled')
    BY DEF Unsettled, Coming, Collected, Collecting
  <2> QED
    BY <1>5, <1>6, <1>7, <2>1, <2>2
<1>9. ASSUME NEW g \in Groups
      PROVE  /\ remaining'[g] \in Nat /\ (remaining[g] = 0 => remaining'[g] = 0)
             /\ remaining'[g] = Cardinality({i \in Unsettled' : g \in GroupsOf(systems[i])})
  <2>1. PICK M, N : /\ M = {i \in Unsettled : g \in GroupsOf(systems[i])}
                    /\ N = {i \in Unsettled' : g \in GroupsOf(systems[i])}
    OBVIOUS
  <2>2. IsFiniteSet(M)
    <3>1. M \in SUBSET DOMAIN systems
      BY <1>1, <2>1, ScheduleFacts
    <3> QED
      BY <1>1, <3>1, ListFacts, FS_Subset
  <2>3. remaining[g] = Cardinality(M) /\ remaining[g] \in Nat
    BY <1>1, <1>4, <2>1 DEF CountInv
  <2>4. CASE g \in GroupsOf(systems[x])
    <3>1. x \in M /\ N = M \ {x}
      BY <1>8, <2>1, <2>4
    <3>2. Cardinality(N) = Cardinality(M) - 1
      BY <2>2, <3>1, FS_RemoveElement
    <3>3. remaining[g] # 0
      BY <2>2, <2>3, <3>1, FS_EmptySet
    <3>4. remaining'[g] = remaining[g] - 1
      BY <1>3, <2>3, <2>4, <3>3
    <3> QED
      BY <2>1, <2>3, <3>2, <3>3, <3>4
  <2>5. CASE g \notin GroupsOf(systems[x])
    <3>1. N = M
      BY <1>8, <2>1, <2>5
    <3>2. remaining'[g] = remaining[g]
      BY <1>3, <2>5
    <3> QED
      BY <2>1, <2>3, <3>1, <3>2
  <2> QED
    BY <2>4, <2>5
<1>10. ConfigInv'
  BY <1>1, <1>3, ConfigKept
<1>11. FrameInv'
  <2>1. remaining' \in [Groups -> Nat]
    BY <1>3, <1>9
  <2> QED
    BY <1>1, <1>3, <1>5, <2>1 DEF FrameInv, Sorted
<1>12. PlaceInv'
  <2>1. Range(settled') \subseteq Came' /\ Range(settled') \cap Collected' = {}
    BY <1>1, <1>5, <1>6 DEF PlaceInv
  <2>2. Collecting' =>
         /\ batch' # <<>> /\ Once(batch') /\ Range(batch') \subseteq Came'
         /\ \A k \in DOMAIN batch' : systems'[batch'[k]].groups = systems'[batch'[1]].groups
         /\ GroupsOf(systems'[batch'[1]]) \subseteq Range(active')
    BY <1>1, <1>3, <1>6 DEF PlaceInv
  <2> QED
    BY <1>3, <1>5, <2>1, <2>2 DEF PlaceInv
<1>13. CountInv'
  BY <1>3, <1>9 DEF CountInv
<1>14. \A g : (Opened(g)' <=> Opened(g)) /\ (Closed(g)' <=> Closed(g)) /\ (HasRun(g)' <=> HasRun(g))
  BY <1>3 DEF Opened, Closed, HasRun
<1>15. HookInv'
  <2>1. /\ \A g \in Range(active) : Opened(g) /\ ~Closed(g)
        /\ "hook" \notin raised => \A g \in Groups : Opened(g) => g \in Range(active) \/ Closed(g)
        /\ \A g \in Groups : Closed(g) => remaining'[g] = 0
    BY <1>1, <1>9 DEF HookInv
  <2> QED
    BY <1>3, <1>14, <2>1 DEF HookInv
<1>16. RunInv'
  <2>1. \A k : System(k)' = System(k)
    BY <1>3 DEF System
  <2> QED
    BY <1>1, <1>3, <1>6, <1>14, <2>1 DEF RunInv
<1>17. WantInv'
  BY <1>1, <1>3, <1>6, <1>14 DEF WantInv
<1>18. TraceInv'
  BY <1>1, <1>3, TraceKept
<1> QED
  BY <1>10, <1>11, <1>12, <1>13, <1>15, <1>16, <1>17, <1>18 DEF ScheduleInv

\* When the settled systems are off their groups the frame goes on.
LEMMA AdvancedInv ==
  ASSUME ScheduleInv, Advanced
  PROVE  ScheduleInv'
<1>1. /\ ConfigInv /\ FrameInv /\ PlaceInv /\ CountInv /\ HookInv /\ RunInv /\ WantInv
      /\ TraceInv /\ Running
  BY DEF ScheduleInv, Advanced, Running
<1>2. /\ pc = "advance" /\ Completed = {} /\ settled = <<>> /\ pc' = after
      /\ systems' = systems /\ edges' = edges /\ schedule' = schedule /\ active' = active
      /\ remaining' = remaining /\ batch' = batch /\ trace' = trace /\ raised' = raised
      /\ index' = index /\ settled' = settled /\ after' = after /\ wanted' = wanted
  BY DEF Advanced, frameVars, ghostVars
<1>3. pc' \in {"phase", "collect"} /\ (pc' = "collect" <=> after = "collect") /\ Running'
  BY <1>1, <1>2 DEF FrameInv, Running
<1>4. /\ (Collecting' <=> Collecting) /\ Collected' = Collected /\ Came' = Came
  BY <1>2, <1>3 DEF Collecting, Collected, Came
<1>5. Unsettled' = Unsettled
  <2>1. Coming' = Coming
    BY <1>2 DEF Coming
  <2>2. Unsettled = Coming \union Collected \union Range(settled)
    BY <1>1, ScheduleFacts
  <2>3. Unsettled' = Coming' \union Collected' \union Range(settled')
    BY DEF Unsettled, Coming, Collected, Collecting
  <2> QED
    BY <1>2, <1>4, <2>1, <2>2, <2>3
<1>6. ConfigInv'
  BY <1>1, <1>2, ConfigKept
<1>7. FrameInv'
  BY <1>1, <1>2, <1>3 DEF FrameInv, Sorted
<1>8. PlaceInv'
  <2>1. Collecting' =>
         /\ batch' # <<>> /\ Once(batch') /\ Range(batch') \subseteq Came'
         /\ \A k \in DOMAIN batch' : systems'[batch'[k]].groups = systems'[batch'[1]].groups
         /\ GroupsOf(systems'[batch'[1]]) \subseteq Range(active')
    BY <1>1, <1>2, <1>4 DEF PlaceInv
  <2>2. pc' \in {"phase", "enter"} => after' = "phase"
    BY <1>2, <1>3
  <2> QED
    BY <1>1, <1>2, <1>3, <1>4, <2>1, <2>2 DEF PlaceInv
<1>9. CountInv'
  BY <1>1, <1>2, <1>5, CountKept
<1>10. HookInv'
  <2>1. ASSUME NEW g \in Range(active) PROVE remaining[g] # 0
    <3>1. PICK k \in DOMAIN active : active[k] = g
      BY DEF Range
    <3> QED
      BY <1>2, <3>1 DEF Completed
  <2> QED
    BY <1>1, <1>2, <1>3, <2>1, HookKept
<1>11. \A g : (Opened(g)' <=> Opened(g)) /\ (HasRun(g)' <=> HasRun(g))
  BY <1>2 DEF Opened, HasRun
<1>12. RunInv'
  <2>1. \A k : System(k)' = System(k)
    BY <1>2 DEF System
  <2> QED
    BY <1>1, <1>2, <1>3, <1>4, <1>11, <2>1 DEF RunInv
<1>13. WantInv'
  BY <1>1, <1>2, <1>3, <1>4, <1>11 DEF WantInv
<1>14. TraceInv'
  BY <1>1, <1>2, TraceKept
<1> QED
  BY <1>6, <1>7, <1>8, <1>9, <1>10, <1>12, <1>13, <1>14 DEF ScheduleInv

\* The after hook of an open group, once nothing of the group is to come.
LEMMA HookAfter ==
  ASSUME TraceInv, NEW x \in Groups, Opened(x), ~Closed(x),
         UNCHANGED <<systems, edges>>, trace' = Append(trace, <<"after", x>>)
  PROVE  /\ TraceInv'
         /\ \A g : Opened(g)' <=> Opened(g)
         /\ \A g : Closed(g)' <=> Closed(g) \/ g = x
         /\ \A i : HasRun(i)' <=> HasRun(i)
<1>1. <<"after", x>> \in Entry
  BY ScheduleAssumption DEF Entry, Groups
<1>2. /\ \A g : Opened(g)' <=> Opened(g)
      /\ \A g : Closed(g)' <=> Closed(g) \/ g = x
      /\ \A i : HasRun(i)' <=> HasRun(i)
  <2>1. /\ \A g : <<"after", x>> # <<"before", g>> /\ <<"after", x>> # <<"run", g>>
        /\ \A g : <<"after", x>> = <<"after", g>> <=> g = x
    OBVIOUS
  <2> QED
    BY <1>1, <2>1, EntryAdded
<1>3. PICK reach, t, e : /\ reach = Reachability(GroupCount, edges) /\ t = trace
                         /\ e = <<"after", x>>
  OBVIOUS
<1>4. e \in Entry /\ TraceOK(t, systems, reach)
  BY <1>1, <1>3 DEF TraceInv
<1>5. Append(t, e) \in Seq(Entry)
  BY <1>4 DEF TraceOK
<1>6. Once(Append(t, e))
  BY <1>3, <1>4, AppendOnce DEF TraceOK, Closed
<1>7. Paired(Append(t, e))
  <2>1. \A g \in Groups : e = <<"after", g>> => Has(t, <<"before", g>>)
    BY <1>3 DEF Opened
  <2> QED
    BY <1>4, <2>1, AppendPaired DEF TraceOK
<1>8. Surrounded(Append(t, e), systems)
  <2>1. \A j \in DOMAIN systems : e # <<"run", j>>
    BY <1>3
  <2> QED
    BY <1>4, <2>1, AppendSurrounded DEF TraceOK
<1>9. Apart(Append(t, e), reach)
  <2>1. \A g : e # <<"before", g>>
    BY <1>3
  <2> QED
    BY <1>4, <2>1, AppendApart DEF TraceOK
<1>10. TraceInv'
  BY <1>3, <1>5, <1>6, <1>7, <1>8, <1>9 DEF TraceInv, TraceOK
<1> QED
  BY <1>2, <1>10

\* A group without members to come leaves the active groups before its after hook.
LEMMA CloseCompletedInv ==
  ASSUME ScheduleInv, CloseCompleted
  PROVE  ScheduleInv'
<1>1. /\ ConfigInv /\ FrameInv /\ PlaceInv /\ CountInv /\ HookInv /\ RunInv /\ WantInv
      /\ TraceInv /\ Running
  BY DEF ScheduleInv, CloseCompleted, Running
<1>2. PICK k : k = Latest(Completed)
  OBVIOUS
<1>3. PICK x : x = active[k]
  OBVIOUS
<1>4. /\ pc = "advance" /\ Completed # {}
      /\ active' = RemoveAt(active, k) /\ trace' = Append(trace, <<"after", x>>)
      /\ \/ pc' = pc /\ raised' = raised
         \/ pc' = "unwind" /\ raised' = raised \union {"hook"}
      /\ systems' = systems /\ edges' = edges /\ schedule' = schedule
      /\ remaining' = remaining /\ batch' = batch /\ wanted' = wanted
      /\ index' = index /\ settled' = settled /\ after' = after
  BY <1>2, <1>3 DEF CloseCompleted, Raise
<1>5. active \in Seq(Groups) /\ Once(active) /\ DOMAIN active = 1 .. Len(active)
  BY <1>1 DEF FrameInv
<1>6. k \in 1 .. Len(active) /\ x \in Groups /\ x \in Range(active) /\ remaining[x] = 0
  <2>1. Completed \in SUBSET (1 .. Len(active)) /\ Len(active) \in Nat
    BY <1>5 DEF Completed
  <2>2. \E l \in Completed : \A j \in Completed : j <= l
    BY <1>4, <2>1, GreatestNumber
  <2>3. k \in Completed
    BY <1>2, <2>2 DEF Latest
  <2>4. k \in DOMAIN active /\ remaining[x] = 0
    BY <1>3, <2>3 DEF Completed
  <2> QED
    BY <1>3, <1>5, <2>4, ElementOfSeq DEF Range
<1>7. active' \in Seq(Groups) /\ Once(active') /\ Range(active') = Range(active) \ {x}
  BY <1>3, <1>4, <1>5, <1>6, RemoveIs
<1>8. Opened(x) /\ ~Closed(x)
  BY <1>1, <1>6 DEF HookInv
<1>9. /\ TraceInv'
      /\ \A g : Opened(g)' <=> Opened(g)
      /\ \A g : Closed(g)' <=> Closed(g) \/ g = x
      /\ \A i : HasRun(i)' <=> HasRun(i)
  BY <1>1, <1>4, <1>6, <1>8, HookAfter
<1>10. ConfigInv'
  BY <1>1, <1>4, ConfigKept
<1>11. CASE pc' = pc /\ raised' = raised
  <2>1. Running'
    BY <1>1, <1>11 DEF Running
  <2>2. /\ (Collecting' <=> Collecting) /\ Collected' = Collected /\ Came' = Came
        /\ Unsettled' = Unsettled
    BY <1>4, <1>11 DEF Collecting, Collected, Came, Unsettled
  <2>3. FrameInv'
    BY <1>1, <1>4, <1>7, <1>11, <2>1 DEF FrameInv, Sorted
  <2>4. Collecting => GroupsOf(systems[batch[1]]) \subseteq Range(active')
    <3> SUFFICES ASSUME Collecting, x \in GroupsOf(systems[batch[1]]) PROVE FALSE
      BY <1>1, <1>7 DEF PlaceInv
    <3>1. batch \in Seq(DOMAIN systems) /\ batch # <<>>
      BY <1>1 DEF PlaceInv, FrameInv
    <3>2. batch[1] \in Range(batch)
      BY <3>1 DEF Range
    <3>3. batch[1] \in Unsettled
      BY <1>1, <3>2, ScheduleFacts DEF Collected
    <3> QED
      BY <1>1, <1>6, <3>3, MembersLeft
  <2>5. PlaceInv'
    <3>1. Collecting' =>
            /\ batch' # <<>> /\ Once(batch') /\ Range(batch') \subseteq Came'
            /\ \A l \in DOMAIN batch' : systems'[batch'[l]].groups = systems'[batch'[1]].groups
            /\ GroupsOf(systems'[batch'[1]]) \subseteq Range(active')
      BY <1>1, <1>4, <2>2, <2>4 DEF PlaceInv
    <3> QED
      BY <1>1, <1>4, <1>11, <2>2, <3>1 DEF PlaceInv
  <2>6. CountInv'
    BY <1>1, <1>4, <2>2, CountKept
  <2>7. HookInv'
    BY <1>1, <1>4, <1>6, <1>7, <1>9, <1>11 DEF HookInv, Running
  <2>8. RunInv'
    <3>1. \A l : System(l)' = System(l)
      BY <1>4 DEF System
    <3> QED
      BY <1>1, <1>4, <1>9, <2>2, <3>1 DEF RunInv
  <2>9. WantInv'
    BY <1>1, <1>4, <1>9, <1>11, <2>1, <2>2 DEF WantInv
  <2> QED
    BY <1>9, <1>10, <2>3, <2>5, <2>6, <2>7, <2>8, <2>9 DEF ScheduleInv
<1>12. CASE pc' = "unwind" /\ raised' = raised \union {"hook"}
  <2>1. PlaceInv' /\ CountInv' /\ RunInv' /\ ~Running'
    BY <1>12, NotRunning
  <2>2. FrameInv'
    BY <1>1, <1>4, <1>7, <1>12, <2>1 DEF FrameInv, Sorted
  <2>3. WantInv'
    BY <1>12, <2>1 DEF WantInv
  <2>4. HookInv'
    BY <1>1, <1>7, <1>9, <1>12, <2>1 DEF HookInv
  <2> QED
    BY <1>9, <1>10, <2>1, <2>2, <2>3, <2>4 DEF ScheduleInv
<1> QED
  BY <1>4, <1>11, <1>12

\* A sequence without its last element.
LEMMA FrontIs ==
  ASSUME NEW S, NEW q \in Seq(S), Once(q), q # <<>>
  PROVE  /\ Front(q) \in Seq(S) /\ Once(Front(q)) /\ Last(q) \in Range(q) /\ Last(q) \in S
         /\ Range(Front(q)) = Range(q) \ {Last(q)}
<1>1. PICK n : n = Len(q)
  OBVIOUS
<1>2. n \in Nat \ {0} /\ DOMAIN q = 1 .. n /\ n \in 1 .. n /\ Last(q) = q[n]
  BY <1>1 DEF Last
<1>3. PICK p : p = Front(q)
  OBVIOUS
<1>4. p = SubSeq(q, 1, n - 1)
  BY <1>1, <1>3 DEF Front
<1>5. /\ p \in Seq(S) /\ Len(p) = n - 1 /\ DOMAIN p = 1 .. (n - 1)
      /\ \A j \in 1 .. (n - 1) : p[j] = q[j]
  BY <1>1, <1>2, <1>4
<1>6. \A j, k \in 1 .. n : q[j] = q[k] => j = k
  BY <1>1 DEF Once
<1>7. /\ \A j \in 1 .. (n - 1) : j \in 1 .. n /\ j # n
      /\ \A j \in 1 .. n : j \in 1 .. (n - 1) \/ j = n
  BY <1>2
<1>8. Once(p)
  BY <1>5, <1>6, <1>7 DEF Once
<1>9. Range(p) = Range(q) \ {q[n]}
  <2>1. \A y : y \in Range(p) <=> \E j \in 1 .. (n - 1) : q[j] = y
    BY <1>5 DEF Range
  <2>2. \A y : y \in Range(q) <=> \E j \in 1 .. n : q[j] = y
    BY <1>2 DEF Range
  <2> QED
    BY <1>2, <1>6, <1>7, <2>1, <2>2
<1>10. q[n] \in Range(q) /\ q[n] \in S
  BY <1>2 DEF Range
<1> QED
  BY <1>2, <1>3, <1>5, <1>8, <1>9, <1>10

\* The finally clause closes the group opened last.
LEMMA UnwindInv ==
  ASSUME ScheduleInv, Unwind
  PROVE  ScheduleInv'
<1>1. ConfigInv /\ FrameInv /\ HookInv /\ WantInv /\ TraceInv
  BY DEF ScheduleInv
<1>2. PICK x : x = Last(active)
  OBVIOUS
<1>3. /\ pc = "unwind" /\ active # <<>>
      /\ active' = Front(active) /\ trace' = Append(trace, <<"after", x>>)
      /\ \/ pc' = pc /\ raised' = raised
         \/ pc' = "idle" /\ raised' = raised \union {"hook"}
      /\ systems' = systems /\ edges' = edges /\ schedule' = schedule
      /\ remaining' = remaining /\ batch' = batch /\ wanted' = wanted
      /\ index' = index /\ settled' = settled /\ after' = after
  BY <1>2 DEF Unwind
<1>4. active \in Seq(Groups) /\ Once(active)
  BY <1>1 DEF FrameInv
<1>5. /\ active' \in Seq(Groups) /\ Once(active') /\ Range(active') = Range(active) \ {x}
      /\ x \in Groups /\ x \in Range(active)
  BY <1>2, <1>3, <1>4, FrontIs
<1>6. Opened(x) /\ ~Closed(x)
  BY <1>1, <1>5 DEF HookInv
<1>7. /\ TraceInv'
      /\ \A g : Opened(g)' <=> Opened(g)
      /\ \A g : Closed(g)' <=> Closed(g) \/ g = x
  BY <1>1, <1>3, <1>5, <1>6, HookAfter
<1>8. PlaceInv' /\ CountInv' /\ RunInv' /\ ~Running'
  BY <1>3, NotRunning
<1>9. raised' # {} /\ (pc' = "idle" => "hook" \in raised')
      /\ ("hook" \in raised => "hook" \in raised')
  <2>1. raised # {}
    BY <1>1, <1>3 DEF HookInv
  <2> QED
    BY <1>3, <2>1
<1>10. ConfigInv'
  BY <1>1, <1>3, ConfigKept
<1>11. FrameInv'
  BY <1>1, <1>3, <1>5, <1>8 DEF FrameInv, Sorted
<1>12. WantInv'
  BY <1>3, <1>8, <1>9 DEF WantInv
<1>13. HookInv'
  BY <1>1, <1>3, <1>5, <1>7, <1>8, <1>9 DEF HookInv
<1> QED
  BY <1>7, <1>8, <1>10, <1>11, <1>12, <1>13 DEF ScheduleInv

\* The frame ends with no group active.
LEMMA EndFrameInv ==
  ASSUME ScheduleInv, EndFrame
  PROVE  ScheduleInv'
<1>1. ConfigInv /\ FrameInv /\ HookInv /\ WantInv /\ TraceInv
  BY DEF ScheduleInv
<1>2. /\ pc = "unwind" /\ active = <<>> /\ pc' = "idle"
      /\ systems' = systems /\ edges' = edges /\ schedule' = schedule /\ active' = active
      /\ remaining' = remaining /\ batch' = batch /\ trace' = trace /\ raised' = raised
      /\ index' = index /\ settled' = settled /\ after' = after /\ wanted' = wanted
  BY DEF EndFrame, frameVars, ghostVars
<1>3. PlaceInv' /\ CountInv' /\ RunInv' /\ ~Running'
  BY <1>2, NotRunning
<1>4. ConfigInv'
  BY <1>1, <1>2, ConfigKept
<1>5. FrameInv'
  BY <1>1, <1>2, <1>3 DEF FrameInv, Sorted
<1>6. TraceInv'
  BY <1>1, <1>2, TraceKept
<1>7. \A g : (Opened(g)' <=> Opened(g)) /\ (Closed(g)' <=> Closed(g)) /\ (HasRun(g)' <=> HasRun(g))
  BY <1>2 DEF Opened, Closed, HasRun
<1>8. WantInv'
  BY <1>1, <1>2, <1>3, <1>7 DEF WantInv, Running
<1>9. HookInv'
  BY <1>1, <1>2, <1>3, <1>7 DEF HookInv
<1> QED
  BY <1>3, <1>4, <1>5, <1>6, <1>8, <1>9 DEF ScheduleInv

-----------------------------------------------------------------------------
(* The theorems.                                                           *)

\* No frame has run: the schedule and the trace are empty.
LEMMA ScheduleStart ==
  ASSUME ScheduleInit
  PROVE  ScheduleInv
<1>1. /\ systems \in Registrations /\ edges \in EdgeSets
      /\ Schedulable(systems, GroupCount, edges)
      /\ pc = "idle" /\ schedule = <<>> /\ index = 1 /\ active = <<>>
      /\ remaining = [g \in Groups |-> 0] /\ batch = <<>> /\ settled = <<>>
      /\ after = "phase" /\ trace = <<>> /\ wanted = {} /\ raised = {}
  BY DEF ScheduleInit
<1>2. ConfigInv
  BY <1>1 DEF ConfigInv
<1>3. ~Running
  BY <1>1 DEF Running
<1>4. \A x : ~Has(trace, x)
  BY <1>1 DEF Has
<1>5. FrameInv
  <2>1. Once(active) /\ remaining \in [Groups -> Nat]
    BY <1>1 DEF Once
  <2>2. Sorted(schedule, systems, SystemLinks(systems, Reachability(GroupCount, edges)))
    BY <1>1 DEF Sorted
  <2> QED
    BY <1>1, <1>3, <2>1, <2>2 DEF FrameInv
<1>6. PlaceInv /\ CountInv /\ RunInv
  BY <1>3 DEF PlaceInv, CountInv, RunInv
<1>7. HookInv
  <2>1. Range(active) = {}
    BY <1>1 DEF Range
  <2>2. \A g : ~Opened(g) /\ ~Closed(g)
    BY <1>4 DEF Opened, Closed
  <2> QED
    BY <1>1, <1>3, <2>1, <2>2 DEF HookInv
<1>8. WantInv
  BY <1>1, <1>3, <1>4 DEF WantInv, HasRun
<1>9. TraceInv
  BY <1>1, <1>4 DEF TraceInv, TraceOK, Once, Paired, Surrounded, Apart
<1> QED
  BY <1>2, <1>5, <1>6, <1>7, <1>8, <1>9 DEF ScheduleInv

\* A step that changes nothing.
LEMMA ScheduleStutter ==
  ASSUME ScheduleInv, UNCHANGED scheduleVars
  PROVE  ScheduleInv'
<1>1. /\ systems' = systems /\ edges' = edges /\ pc' = pc
      /\ schedule' = schedule /\ index' = index /\ active' = active
      /\ remaining' = remaining /\ batch' = batch /\ settled' = settled /\ after' = after
      /\ trace' = trace /\ wanted' = wanted /\ raised' = raised
  BY DEF scheduleVars, frameVars, ghostVars
<1>2. ConfigInv'
  BY <1>1 DEF ScheduleInv, ConfigInv
<1>3. (Running' <=> Running) /\ (Collecting' <=> Collecting)
  BY <1>1 DEF Running, Collecting
<1>4. Collected' = Collected /\ Came' = Came /\ Unsettled' = Unsettled
  BY <1>1, <1>3 DEF Collected, Came, Unsettled
<1>5. \A g : (Opened(g)' <=> Opened(g)) /\ (Closed(g)' <=> Closed(g)) /\ (HasRun(g)' <=> HasRun(g))
  BY <1>1 DEF Opened, Closed, HasRun
<1>6. FrameInv'
  BY <1>1, <1>3 DEF ScheduleInv, FrameInv, Sorted
<1>7. PlaceInv'
  BY <1>1, <1>3, <1>4 DEF ScheduleInv, PlaceInv
<1>8. CountInv'
  BY <1>1, <1>3, <1>4 DEF ScheduleInv, CountInv
<1>9. HookInv'
  BY <1>1, <1>3, <1>5 DEF ScheduleInv, HookInv
<1>10. RunInv'
  <2>1. \A k : System(k)' = System(k)
    BY <1>1 DEF System
  <2> QED
    BY <1>1, <1>3, <1>4, <1>5, <2>1 DEF ScheduleInv, RunInv
<1>11. WantInv'
  BY <1>1, <1>3, <1>4, <1>5 DEF ScheduleInv, WantInv
<1>12. TraceInv'
  BY <1>1, TraceKept DEF ScheduleInv
<1> QED
  BY <1>2, <1>6, <1>7, <1>8, <1>9, <1>10, <1>11, <1>12 DEF ScheduleInv

\* The invariant holds at every step of every frame, whatever the user's code
\* answers or raises.
THEOREM ScheduleInvariant == ScheduleSpec => []ScheduleInv
<1>1. ScheduleInit => ScheduleInv
  BY ScheduleStart
<1>2. ScheduleInv /\ [ScheduleNext]_scheduleVars => ScheduleInv'
  <2> SUFFICES ASSUME ScheduleInv, [ScheduleNext]_scheduleVars PROVE ScheduleInv'
    OBVIOUS
  <2>1. CASE StartFrame
    BY <2>1, StartFrameInv
  <2>2. CASE SkipSystem
    BY <2>2, SkipSystemInv
  <2>3. CASE TakeSystem
    BY <2>3, TakeSystemInv
  <2>4. CASE CheckFails
    BY <2>4, CheckFailsInv
  <2>5. CASE EndPhases
    BY <2>5, EndPhasesInv
  <2>6. CASE EnterGroup
    BY <2>6, EnterGroupInv
  <2>7. CASE Entered
    BY <2>7, EnteredInv
  <2>8. CASE CollectEnds
    BY <2>8, CollectEndsInv
  <2>9. CASE CollectSkips
    BY <2>9, CollectSkipsInv
  <2>10. CASE CollectTakes
    BY <2>10, CollectTakesInv
  <2>11. CASE RunSystems
    BY <2>11, RunSystemsInv
  <2>12. CASE RunFails
    BY <2>12, RunFailsInv
  <2>13. CASE Advance
    BY <2>13, AdvanceInv
  <2>14. CASE CloseCompleted
    BY <2>14, CloseCompletedInv
  <2>15. CASE Advanced
    BY <2>15, AdvancedInv
  <2>16. CASE Unwind
    BY <2>16, UnwindInv
  <2>17. CASE EndFrame
    BY <2>17, EndFrameInv
  <2>18. CASE UNCHANGED scheduleVars
    BY <2>18, ScheduleStutter
  <2> QED
    BY <2>1, <2>2, <2>3, <2>4, <2>5, <2>6, <2>7, <2>8, <2>9, <2>10, <2>11, <2>12,
       <2>13, <2>14, <2>15, <2>16, <2>17, <2>18 DEF ScheduleNext
<1> QED
  BY <1>1, <1>2, PTL DEF ScheduleSpec

\* An entry has at most one position in the trace.
LEMMA OnePosition ==
  ASSUME TraceInv, NEW x
  PROVE  /\ \A k : k \in Positions(x) <=> k \in 1 .. Len(trace) /\ trace[k] = x
         /\ Cardinality(Positions(x)) = IF Has(trace, x) THEN 1 ELSE 0
         /\ Positions(x) # {} <=> Has(trace, x)
<1>1. DOMAIN trace = 1 .. Len(trace) /\ Once(trace)
  BY DEF TraceInv, TraceOK
<1>2. \A k : k \in Positions(x) <=> k \in 1 .. Len(trace) /\ trace[k] = x
  BY <1>1 DEF Positions
<1>3. CASE Has(trace, x)
  <2>1. PICK k \in 1 .. Len(trace) : trace[k] = x
    BY <1>3 DEF Has
  <2>2. Positions(x) = {k}
    BY <1>1, <1>2, <2>1 DEF Once
  <2>3. Cardinality(Positions(x)) = 1
    BY <2>2, FS_Singleton
  <2> QED
    BY <1>2, <1>3, <2>2, <2>3
<1>4. CASE ~Has(trace, x)
  <2>1. Positions(x) = {}
    BY <1>2, <1>4 DEF Has
  <2>2. Cardinality(Positions(x)) = 0
    BY <2>1, FS_EmptySet
  <2> QED
    BY <1>2, <1>4, <2>1, <2>2
<1> QED
  BY <1>3, <1>4

\* The counters of a frame are exact and an active group is listed once
\* (_new_schedule_frame, _advance_group_hooks).
THEOREM ScheduleTypesCorrect == ScheduleSpec => []ScheduleTypeOK
<1>1. ASSUME ScheduleInv PROVE ScheduleTypeOK
  <2>1. ConfigInv /\ FrameInv /\ CountInv
    BY <1>1 DEF ScheduleInv
  <2>2. index \in 1 .. (Len(systems) + 1)
    <3>1. PICK n, m : n = Len(systems) /\ m = Len(schedule)
      OBVIOUS
    <3>2. n \in Nat /\ m \in Nat /\ m \in {0, n} /\ index \in 1 .. (m + 1)
      BY <2>1, <3>1, ListFacts, ScheduleFacts DEF FrameInv
    <3> QED
      BY <3>1, <3>2
  <2>3. active \in Seq(Groups) /\ Cardinality(Range(active)) = Len(active)
    <3>1. active \in Seq(Groups) /\ Once(active)
      BY <2>1 DEF FrameInv
    <3>2. PICK n, R : n = Len(active) /\ R = Range(active)
      OBVIOUS
    <3>3. n \in Nat /\ DOMAIN active = 1 .. n /\ active \in [1 .. n -> R]
      BY <3>1, <3>2 DEF Range
    <3>4. active \in Surjection(1 .. n, R)
      BY <3>2, <3>3 DEF Surjection, Range
    <3>5. active \in Injection(1 .. n, R)
      BY <3>1, <3>2, <3>3 DEF Injection, IsInjective, Once
    <3>6. ExistsBijection(1 .. n, R)
      BY <3>4, <3>5 DEF ExistsBijection, Bijection
    <3> QED
      BY <3>1, <3>2, <3>3, <3>6, FS_CountingElements
  <2>4. pc \notin {"idle", "unwind"} =>
          \A g \in Groups :
            remaining[g] = Cardinality({i \in Unsettled : g \in GroupsOf(systems[i])})
    BY <2>1 DEF CountInv, Running
  <2> QED
    BY <2>1, <2>2, <2>3, <2>4 DEF ScheduleTypeOK, FrameInv
<1> QED
  BY <1>1, ScheduleInvariant, PTL

\* A system runs between the hooks of its groups, each of which runs at most once
\* (_enter_group_hooks, _close_active_group_hooks).
THEOREM HooksCorrect == ScheduleSpec => []HooksSurround
<1>1. ASSUME ScheduleInv PROVE HooksSurround
  <2>1. TraceInv /\ Paired(trace) /\ Surrounded(trace, systems)
    BY <1>1 DEF ScheduleInv, TraceInv, TraceOK
  <2>2. \A x : \A k : k \in Positions(x) <=> k \in 1 .. Len(trace) /\ trace[k] = x
    BY <2>1, OnePosition
  <2>3. \A x : Cardinality(Positions(x)) <= 1
    <3> SUFFICES ASSUME NEW x PROVE Cardinality(Positions(x)) <= 1
      OBVIOUS
    <3>1. Cardinality(Positions(x)) \in {0, 1}
      BY <2>1, OnePosition
    <3> QED
      BY <3>1
  <2>4. ASSUME NEW g \in Groups, NEW k \in Positions(<<"after", g>>)
        PROVE  \E j \in Positions(<<"before", g>>) : j < k
    <3>1. k \in 1 .. Len(trace) /\ trace[k] = <<"after", g>>
      BY <2>2
    <3>2. PICK j \in 1 .. Len(trace) : j < k /\ trace[j] = <<"before", g>>
      BY <2>1, <3>1 DEF Paired
    <3> QED
      BY <2>2, <3>2
  <2>5. ASSUME NEW i \in DOMAIN systems, NEW k \in Positions(<<"run", i>>),
               NEW g \in GroupsOf(systems[i])
        PROVE  /\ \E j \in Positions(<<"before", g>>) : j < k
               /\ \A j \in Positions(<<"after", g>>) : k < j
    <3>1. k \in 1 .. Len(trace) /\ trace[k] = <<"run", i>>
      BY <2>2
    <3>2. /\ \E j \in 1 .. Len(trace) : j < k /\ trace[j] = <<"before", g>>
          /\ \A j \in 1 .. Len(trace) : trace[j] = <<"after", g>> => k < j
      BY <2>1, <3>1 DEF Surrounded
    <3> QED
      BY <2>2, <3>2
  <2> QED
    BY <2>3, <2>4, <2>5 DEF HooksSurround
<1> QED
  BY <1>1, ScheduleInvariant, PTL

\* Ordered groups do not overlap in a frame (order_systems, the group hooks).
THEOREM OrderedCorrect == ScheduleSpec => []OrderedGroupsDisjoint
<1>1. ASSUME ScheduleInv PROVE OrderedGroupsDisjoint
  <2>1. PICK reach : reach = Reachability(GroupCount, edges)
    OBVIOUS
  <2>2. TraceInv /\ Apart(trace, reach)
    BY <1>1, <2>1 DEF ScheduleInv, TraceInv, TraceOK
  <2>3. \A x : /\ \A k : k \in Positions(x) <=> k \in 1 .. Len(trace) /\ trace[k] = x
               /\ Positions(x) # {} <=> Has(trace, x)
    BY <2>2, OnePosition
  <2>4. ASSUME NEW g \in Groups, NEW h \in Groups, <<g, h>> \in reach,
               NEW k \in Positions(<<"before", h>>)
        PROVE  /\ \A j \in Positions(<<"before", g>>) : j < k
               /\ Positions(<<"before", g>>) # {} =>
                    \E j \in Positions(<<"after", g>>) : j < k
    <3>1. k \in 1 .. Len(trace) /\ trace[k] = <<"before", h>>
      BY <2>3
    <3>2. /\ \A j \in 1 .. Len(trace) : trace[j] = <<"before", g>> => j < k
          /\ Has(trace, <<"before", g>>) =>
               \E j \in 1 .. Len(trace) : j < k /\ trace[j] = <<"after", g>>
      BY <2>2, <2>4, <3>1 DEF Apart
    <3> QED
      BY <2>3, <3>2
  <2> QED
    BY <2>1, <2>4 DEF OrderedGroupsDisjoint
<1> QED
  BY <1>1, ScheduleInvariant, PTL

\* Unless a hook raises every opened group is closed, and without any exception
\* the finally clause of run_sorted_systems finds none open.
THEOREM ClosedCorrect == ScheduleSpec => []GroupsClosed
<1>1. ASSUME ScheduleInv PROVE GroupsClosed
  <2>1. TraceInv /\ HookInv
    BY <1>1 DEF ScheduleInv
  <2>2. \A x : Cardinality(Positions(x)) = IF Has(trace, x) THEN 1 ELSE 0
    BY <2>1, OnePosition
  <2>3. ASSUME pc = "idle", "hook" \notin raised, NEW g \in Groups
        PROVE  Cardinality(Positions(<<"before", g>>))
                 = Cardinality(Positions(<<"after", g>>))
    <3>1. Range(active) = {}
      BY <2>1, <2>3 DEF HookInv, Range
    <3>2. Opened(g) => Closed(g)
      BY <2>1, <2>3, <3>1 DEF HookInv
    <3>3. Closed(g) => Opened(g)
      BY <2>1, ClosedOpened
    <3> QED
      BY <2>2, <3>2, <3>3 DEF Opened, Closed
  <2>4. pc = "unwind" /\ raised = {} => active = <<>>
    BY <2>1 DEF HookInv
  <2> QED
    BY <2>3, <2>4 DEF GroupsClosed
<1> QED
  BY <1>1, ScheduleInvariant, PTL

\* No system runs twice, and after a frame in which nothing raised the eligible
\* systems are the ones that ran (_run_schedule_phase, _collect_physical_batch).
THEOREM EligibleCorrect == ScheduleSpec => []RunsEligibleOnce
<1>1. ASSUME ScheduleInv PROVE RunsEligibleOnce
  <2>1. TraceInv /\ WantInv /\ wanted \subseteq DOMAIN systems
    BY <1>1 DEF ScheduleInv, FrameInv
  <2>2. \A x : Positions(x) # {} <=> Has(trace, x)
    BY <2>1, OnePosition
  <2>3. \A i \in DOMAIN systems : Cardinality(Positions(<<"run", i>>)) <= 1
    <3> SUFFICES ASSUME NEW i \in DOMAIN systems
                 PROVE  Cardinality(Positions(<<"run", i>>)) <= 1
      OBVIOUS
    <3>1. Cardinality(Positions(<<"run", i>>)) \in {0, 1}
      BY <2>1, OnePosition
    <3> QED
      BY <3>1
  <2>4. ASSUME pc = "idle", raised = {}
        PROVE  {i \in DOMAIN systems : Positions(<<"run", i>>) # {}} = wanted
    <3>1. \A i \in DOMAIN systems : i \in wanted <=> HasRun(i)
      BY <2>1, <2>4 DEF WantInv, Running
    <3> QED
      BY <2>1, <2>2, <3>1 DEF HasRun
  <2> QED
    BY <2>3, <2>4 DEF RunsEligibleOnce
<1> QED
  BY <1>1, ScheduleInvariant, PTL
=============================================================================
