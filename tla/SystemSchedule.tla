--------------------------- MODULE SystemSchedule ---------------------------
(***************************************************************************)
(* One ECS frame of the Python facade (ecs/world_runtime/systems.py): the  *)
(* sorted systems are checked, batched and run, and every group they       *)
(* belong to is opened by a before_<group> and closed by an after_<group>  *)
(* plugin hook.  Run conditions, system bodies and hooks are user code     *)
(* that answers anything and may raise.                                    *)
(*                                                                         *)
(* Kinds of system: "plan" runs in Rust, together with neighbours of the   *)
(* same groups; "alone" is a Python system, a plan with UDF actions or one *)
(* with a canvas command that has to be replayed in its turn.              *)
(***************************************************************************)
EXTENDS GroupSort

CONSTANTS
  GroupCount,     \* groups 1 .. GroupCount, in the order they were noted
  Registrations,  \* the registered systems: sequences of [groups, kind]
  EdgeSets        \* the group graphs: sets of <<group, later group>>

ASSUME ScheduleAssumption ==
  /\ GroupCount \in Nat
  /\ \A systems \in Registrations :
       systems \in Seq([groups : Seq(1 .. GroupCount),
                        kind : {"plan", "alone"}])
  /\ EdgeSets \subseteq SUBSET ((1 .. GroupCount) \X (1 .. GroupCount))

VARIABLES
  systems,    \* world._systems, by id
  edges,      \* the group graph of the registered configuration
  pc,         \* where run_sorted_systems is
  schedule,   \* the sorted systems of this frame
  index,      \* the next system to look at
  active,     \* frame.active_groups
  remaining,  \* frame.remaining_by_group
  batch,      \* systems collected for one bridge call, or run alone
  settled,    \* systems whose groups are still to be advanced, in order
  after,      \* where to go on when they are
  trace,      \* ghost: hooks and bodies of this frame, in order
  checks,     \* ghost: how often each system's run condition was evaluated
  wanted,     \* ghost: systems that were eligible when last asked
  raised      \* ghost: what raised in this frame, a hook or other code

frameVars == <<schedule, index, active, remaining, batch, settled, after>>
ghostVars == <<trace, checks, wanted, raised>>
scheduleVars == <<systems, edges, pc, frameVars, ghostVars>>

Groups == 1 .. GroupCount

System(k) == systems[schedule[k]]

ScheduleInit ==
  /\ systems \in Registrations
  /\ edges \in EdgeSets
  /\ Schedulable(systems, GroupCount, edges)
  /\ pc = "idle"
  /\ schedule = <<>>
  /\ index = 1
  /\ active = <<>>
  /\ remaining = [g \in Groups |-> 0]
  /\ batch = <<>>
  /\ settled = <<>>
  /\ after = "phase"
  /\ trace = <<>>
  /\ checks = [i \in DOMAIN systems |-> 0]
  /\ wanted = {}
  /\ raised = {}

MemberCount(g) == Cardinality({i \in DOMAIN systems : g \in GroupsOf(systems[i])})

\* Mutant: a system counts for the first of its groups only.
StartCountingFirst ==
  /\ pc = "idle"
  /\ pc' = "phase"
  /\ schedule' = SystemOrder(systems, GroupCount, edges)
  /\ index' = 1
  /\ remaining' =
       [g \in Groups |-> Cardinality({i \in DOMAIN systems : systems[i].groups[1] = g})]
  /\ active' = <<>> /\ batch' = <<>> /\ settled' = <<>> /\ after' = "phase"
  /\ trace' = <<>>
  /\ checks' = [i \in DOMAIN systems |-> 0]
  /\ wanted' = {} /\ raised' = {}
  /\ UNCHANGED <<systems, edges>>

\* run_sorted_systems and _new_schedule_frame
StartFrame ==
  /\ pc = "idle"
  /\ pc' = "phase"
  /\ schedule' = SystemOrder(systems, GroupCount, edges)
  /\ index' = 1
  /\ remaining' = [g \in Groups |-> MemberCount(g)]
  /\ active' = <<>> /\ batch' = <<>> /\ settled' = <<>> /\ after' = "phase"
  /\ trace' = <<>>
  /\ checks' = [i \in DOMAIN systems |-> 0]
  /\ wanted' = {} /\ raised' = {}
  /\ UNCHANGED <<systems, edges>>

Raise(what) == pc' = "unwind" /\ raised' = raised \union {what}

-----------------------------------------------------------------------------
(* _run_schedule_phase and _system_is_eligible.                            *)

\* A disabled system is not asked; one whose condition is false is skipped.
Skipped(k) ==
  LET i == schedule[k] IN
  /\ \/ UNCHANGED checks
     \/ checks' = [checks EXCEPT ![i] = @ + 1]
  /\ wanted' = wanted \ {i}
  /\ settled' = <<i>>
  /\ UNCHANGED <<trace, raised>>

Eligible(k) ==
  LET i == schedule[k] IN
  /\ checks' = [checks EXCEPT ![i] = @ + 1]
  /\ wanted' = wanted \union {i}
  /\ UNCHANGED <<trace, raised>>

ConditionRaises(k) ==
  /\ checks' = [checks EXCEPT ![schedule[k]] = @ + 1]
  /\ Raise("code")
  /\ UNCHANGED <<trace, wanted>>

\* The next system has the groups of the batch.
MayJoin ==
  /\ index <= Len(schedule)
  /\ System(index).groups = systems[batch[1]].groups

SkipSystem ==
  /\ pc = "phase" /\ index <= Len(schedule)
  /\ Skipped(index)
  /\ index' = index + 1
  /\ pc' = "advance" /\ after' = "phase"
  /\ UNCHANGED <<systems, edges, schedule, active, remaining, batch>>

TakeSystem ==
  /\ pc = "phase" /\ index <= Len(schedule)
  /\ Eligible(index)
  /\ pc' = "enter"
  /\ UNCHANGED <<systems, edges, frameVars>>

CheckFails ==
  /\ \/ pc = "phase" /\ index <= Len(schedule)
     \/ pc = "collect" /\ MayJoin
  /\ ConditionRaises(index)
  /\ UNCHANGED <<systems, edges, frameVars>>

\* The while loop ends; the finally clause finds what is still open.
EndPhases ==
  /\ pc = "phase" /\ index > Len(schedule)
  /\ pc' = "unwind"
  /\ UNCHANGED <<systems, edges, frameVars, ghostVars>>

-----------------------------------------------------------------------------
(* _enter_group_hooks                                                      *)

Unopened == {m \in DOMAIN System(index).groups : System(index).groups[m] \notin Range(active)}

Earliest(M) == CHOOSE m \in M : \A n \in M : m <= n

\* The before hook of the next group that is not active; one that raises leaves
\* its group closed.
EnterGroup ==
  /\ pc = "enter" /\ Unopened # {}
  /\ LET group == System(index).groups[Earliest(Unopened)] IN
     /\ trace' = Append(trace, <<"before", group>>)
     /\ \/ active' = Append(active, group) /\ UNCHANGED <<pc, raised>>
        \/ Raise("hook") /\ UNCHANGED active
  /\ UNCHANGED <<systems, edges, schedule, index, remaining, batch, settled,
                 after, checks, wanted>>

\* A plan starts a batch; a system of another kind runs alone.
Entered ==
  /\ pc = "enter" /\ Unopened = {}
  /\ batch' = <<schedule[index]>>
  /\ index' = index + 1
  /\ pc' = IF System(index).kind = "plan" THEN "collect" ELSE "run"
  /\ UNCHANGED <<systems, edges, schedule, active, remaining, settled, after,
                 ghostVars>>

-----------------------------------------------------------------------------
(* _collect_physical_batch                                                 *)

CollectEnds ==
  /\ pc = "collect" /\ ~MayJoin
  /\ pc' = "run"
  /\ UNCHANGED <<systems, edges, frameVars, ghostVars>>

\* Mutant: a neighbour that is skipped is not taken off its groups.
CollectSkipsSilently ==
  /\ pc = "collect" /\ MayJoin
  /\ checks' = [checks EXCEPT ![schedule[index]] = @ + 1]
  /\ wanted' = wanted \ {schedule[index]}
  /\ index' = index + 1
  /\ UNCHANGED <<systems, edges, pc, schedule, active, remaining, batch, settled,
                 after, trace, raised>>

\* A neighbour that is not eligible is passed over; its groups are advanced
\* before the batch has run.
CollectSkips ==
  /\ pc = "collect" /\ MayJoin
  /\ Skipped(index)
  /\ index' = index + 1
  /\ pc' = "advance" /\ after' = "collect"
  /\ UNCHANGED <<systems, edges, schedule, active, remaining, batch>>

\* Mutant: a system that ends the batch is taken as dealt with.
CollectDropsLast ==
  /\ pc = "collect" /\ MayJoin
  /\ Eligible(index)
  /\ index' = index + 1
  /\ IF System(index).kind = "plan"
       THEN batch' = Append(batch, schedule[index]) /\ UNCHANGED pc
       ELSE pc' = "run" /\ UNCHANGED batch
  /\ UNCHANGED <<systems, edges, schedule, active, remaining, settled, after>>

\* An eligible neighbour joins the batch if it is a plan; otherwise the batch
\* ends before it, and the next phase asks it again.
CollectTakes ==
  /\ pc = "collect" /\ MayJoin
  /\ Eligible(index)
  /\ IF System(index).kind = "plan"
       THEN /\ batch' = Append(batch, schedule[index])
            /\ index' = index + 1
            /\ UNCHANGED pc
       ELSE pc' = "run" /\ UNCHANGED <<batch, index>>
  /\ UNCHANGED <<systems, edges, schedule, active, remaining, settled, after>>

-----------------------------------------------------------------------------
(* run_system_action, run_physical_systems_batch.                          *)

Ran(k) == [j \in 1 .. k |-> <<"run", batch[j]>>]

RunSystems ==
  /\ pc = "run"
  /\ trace' = trace \o Ran(Len(batch))
  /\ pc' = "advance" /\ settled' = batch /\ after' = "phase"
  /\ UNCHANGED <<systems, edges, schedule, index, active, remaining, batch,
                 checks, wanted, raised>>

\* The batch cannot be prepared, and none of its systems runs; or the k-th system
\* raises, and the ones before it have run.
RunFails ==
  /\ pc = "run"
  /\ \E k \in 0 .. Len(batch) : trace' = trace \o Ran(k)
  /\ Raise("code")
  /\ UNCHANGED <<systems, edges, frameVars, checks, wanted>>

-----------------------------------------------------------------------------
(* _advance_group_hooks and _close_active_group_hooks.                     *)

Completed == {k \in DOMAIN active : remaining[active[k]] = 0}

Latest(K) == CHOOSE k \in K : \A j \in K : j <= k

\* The groups of a settled system have one member less to come.
Advance ==
  /\ pc = "advance" /\ Completed = {} /\ settled # <<>>
  /\ remaining' =
       [g \in Groups |->
          IF g \in GroupsOf(systems[Head(settled)]) /\ remaining[g] > 0
            THEN remaining[g] - 1 ELSE remaining[g]]
  /\ settled' = Tail(settled)
  /\ UNCHANGED <<systems, edges, pc, schedule, index, active, batch, after,
                 ghostVars>>

\* Mutant: the group leaves the active groups after its hook.
CloseThenRemove ==
  /\ pc = "advance" /\ Completed # {}
  /\ LET k == Latest(Completed) IN
     /\ trace' = Append(trace, <<"after", active[k]>>)
     /\ \/ active' = RemoveAt(active, k) /\ UNCHANGED <<pc, raised>>
        \/ Raise("hook") /\ UNCHANGED active
  /\ UNCHANGED <<systems, edges, schedule, index, remaining, batch, settled,
                 after, checks, wanted>>

\* A group with no member to come leaves the active groups, then its after hook
\* runs; the group opened last goes first.
CloseCompleted ==
  /\ pc = "advance" /\ Completed # {}
  /\ LET k == Latest(Completed) IN
     /\ active' = RemoveAt(active, k)
     /\ trace' = Append(trace, <<"after", active[k]>>)
  /\ UNCHANGED <<pc, raised>> \/ Raise("hook")
  /\ UNCHANGED <<systems, edges, schedule, index, remaining, batch, settled,
                 after, checks, wanted>>

Advanced ==
  /\ pc = "advance" /\ Completed = {} /\ settled = <<>>
  /\ pc' = after
  /\ UNCHANGED <<systems, edges, frameVars, ghostVars>>

\* The finally clause: after hooks in reverse order of opening.  One that
\* raises ends the frame with the others still open.
Unwind ==
  /\ pc = "unwind" /\ active # <<>>
  /\ trace' = Append(trace, <<"after", Last(active)>>)
  /\ \/ active' = Front(active) /\ UNCHANGED <<pc, raised>>
     \/ /\ active' = Front(active)
        /\ pc' = "idle"
        /\ raised' = raised \union {"hook"}
  /\ UNCHANGED <<systems, edges, schedule, index, remaining, batch, settled,
                 after, checks, wanted>>

EndFrame ==
  /\ pc = "unwind" /\ active = <<>>
  /\ pc' = "idle"
  /\ UNCHANGED <<systems, edges, frameVars, ghostVars>>

ScheduleNext ==
  \/ StartFrame \/ SkipSystem \/ TakeSystem \/ CheckFails \/ EndPhases
  \/ EnterGroup \/ Entered
  \/ CollectEnds \/ CollectSkips \/ CollectTakes
  \/ RunSystems \/ RunFails
  \/ Advance \/ CloseCompleted \/ Advanced \/ Unwind \/ EndFrame

ScheduleSpec == ScheduleInit /\ [][ScheduleNext]_scheduleVars

-----------------------------------------------------------------------------
(* Properties.                                                             *)

\* The systems a frame has still to settle: the ones it has not come to, the
\* collected ones that have not run and the ones whose groups are not advanced.
Unsettled ==
  {schedule[k] : k \in index .. Len(schedule)}
    \union (IF pc \in {"collect", "run"} \/ after = "collect"
              THEN Range(batch) ELSE {})
    \union Range(settled)

\* The counters that decide when a group closes are exact at every step of a
\* frame that has not failed, and an active group is listed once.
ScheduleTypeOK ==
  /\ pc \in {"idle", "phase", "enter", "collect", "run", "advance", "unwind"}
  /\ index \in 1 .. (Len(systems) + 1)
  /\ active \in Seq(Groups) /\ Cardinality(Range(active)) = Len(active)
  /\ pc \notin {"idle", "unwind"} =>
       \A g \in Groups :
         remaining[g] = Cardinality({i \in Unsettled : g \in GroupsOf(systems[i])})

Positions(entry) == {k \in DOMAIN trace : trace[k] = entry}

\* A system runs between the before and the after hook of each of its groups,
\* and each of the two runs at most once in a frame, whatever was skipped,
\* batched or raised (docs/reference/ecs.md, "Plugins observe each group").
HooksSurround ==
  /\ \A g \in Groups :
       /\ Cardinality(Positions(<<"before", g>>)) <= 1
       /\ Cardinality(Positions(<<"after", g>>)) <= 1
       /\ \A k \in Positions(<<"after", g>>) :
            \E j \in Positions(<<"before", g>>) : j < k
  /\ \A i \in DOMAIN systems : \A k \in Positions(<<"run", i>>) :
       \A g \in GroupsOf(systems[i]) :
         /\ \E j \in Positions(<<"before", g>>) : j < k
         /\ \A j \in Positions(<<"after", g>>) : k < j

\* A group that is ordered before another is closed before that one opens: no
\* hook or system of the later group comes before the after hook of the earlier.
OrderedGroupsDisjoint ==
  \A g, h \in Groups : <<g, h>> \in Reachability(GroupCount, edges) =>
    \A k \in Positions(<<"before", h>>) :
      /\ \A j \in Positions(<<"before", g>>) : j < k
      /\ Positions(<<"before", g>>) # {} =>
           \E j \in Positions(<<"after", g>>) : j < k

\* Unless a hook raises, every group that was opened is closed when the frame
\* ends, also when a system or a condition raised; without any exception no
\* group is left for the finally clause to close.
GroupsClosed ==
  /\ pc = "idle" /\ "hook" \notin raised =>
       \A g \in Groups : Cardinality(Positions(<<"before", g>>))
                           = Cardinality(Positions(<<"after", g>>))
  /\ pc = "unwind" /\ raised = {} => active = <<>>

\* No system runs twice in a frame; when nothing raised, the ones that ran are
\* exactly those that were eligible when they were last asked.
RunsEligibleOnce ==
  /\ \A i \in DOMAIN systems : Cardinality(Positions(<<"run", i>>)) <= 1
  /\ pc = "idle" /\ raised = {} /\ schedule # <<>> =>
       {i \in DOMAIN systems : Positions(<<"run", i>>) # {}} = wanted

\* "Python run_if callbacks are evaluated once per frame/system on the lifecycle
\* path" (docs/reference/ecs.md:186).
ConditionsAskedOnce == \A i \in DOMAIN systems : checks[i] <= 1
=============================================================================
