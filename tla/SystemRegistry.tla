--------------------------- MODULE SystemRegistry ---------------------------
(***************************************************************************)
(* The systems registered in an EcsWorld, the groups and orders that       *)
(* schedule them, and the compiled plans they hold in the Rust world: from *)
(* add_system to remove_system, with the configuration calls and frames in *)
(* between.  A frame here is the snapshot of the sorted systems and what   *)
(* running each does to plan handles; SystemSchedule has hooks and         *)
(* conditions.  A Python system may make any of the calls in the frame.    *)
(***************************************************************************)
EXTENDS GroupSort, PlanCache

CONSTANTS
  Requests,     \* what add_system may be asked for: [name, groups, before, after,
                \* kind, plan, keys]; groups = <<>> for the implicit one
  GroupCalls,   \* gs.group calls: [group, before, after]
  OrderCalls,   \* gs.order calls: sequences of distinct group names
  Implicit,     \* [system name -> its implicit group]
  MaxSystems,   \* bound: systems ever numbered
  MaxOrders,    \* bound: orders in force
  MaxSchema,    \* bound: schema registrations
  MaxHandles    \* bound: plan handles ever given out

\* A "plan" is compiled once per schema, a "dynamic" one for every run; a
\* "sequence" has a Python part and compiles its children as it runs them;
\* "python" has no plan.
Kinds == {"plan", "dynamic", "sequence", "python"}
Compiled == {"plan", "dynamic"}

ASSUME RegistryAssumption ==
  /\ \A r \in Requests : /\ r.kind \in Kinds
                         /\ r.groups # <<>> => r.before = <<>> /\ r.after = <<>>
                         /\ Listed(r.groups) /\ Listed(r.before) /\ Listed(r.after)
  /\ \A c \in GroupCalls : Listed(c.before) /\ Listed(c.after)
  /\ \A o \in OrderCalls : Listed(o)
  /\ {MaxSystems, MaxOrders, MaxSchema, MaxHandles} \subseteq Nat

VARIABLES
  sets,       \* _system_sets: a sequence of [group, before, after], as inserted
  orders,     \* _group_orders
  systems,    \* _systems: the ids, in the order of the last accepted sort
  details,    \* what was asked for, by id: every _ScheduledSystem ever made
  held,       \* [handle, schema] of each, handle 0 for None
  schema,     \* the schema version (and fingerprint)
  cache,      \* the Rust plan cache
  frame,      \* the ids of the frame's snapshot that have not run
  pc,         \* "idle", "frame", or "python" inside a Python system
  unsorted,   \* ghost: gs.group or gs.order was called since the last accepted
              \* add_system
  orphans,    \* ghost: handles whose last holder forgot or outlived them
  refused     \* ghost: systems whose handle the Rust executor refused

scheduleVars == <<sets, orders, systems, details, unsorted>>
planVars == <<held, cache, orphans, refused>>
frameVars == <<frame, pc>>
registryVars == <<scheduleVars, schema, planVars, frameVars>>

Ids == DOMAIN details
Named(name) == {i \in Range(systems) : details[i].name = name}

RegistryInit ==
  /\ sets = <<>> /\ orders = <<>> /\ systems = <<>> /\ details = <<>>
  /\ held = <<>> /\ schema = 0 /\ cache = EmptyCache
  /\ frame = <<>> /\ pc = "idle"
  /\ unsorted = FALSE
  /\ orphans = {} /\ refused = {}

-----------------------------------------------------------------------------
(* The group graph, built again for every sort.                            *)

Noted(names, name) == IF name \in Range(names) THEN names ELSE Append(names, name)

\* _resolve_group_reference: a group that is known by now, else the group of the
\* system of that name, else a new group.
Resolved(names, memberships, ref) ==
  IF ref \notin Range(names) /\ ref \in DOMAIN memberships
  THEN memberships[ref][1] ELSE ref

Links(group, refs, side) == [k \in DOMAIN refs |-> <<group, refs[k], side>>]

\* The edges to add, in the order of _build_group_graph: those of systems, of
\* configurations and of orders; the last need no resolving.
Declared(confs, os, list, info) ==
  Joined([k \in DOMAIN list |->
                LET s == info[list[k]] IN
                Links(s.groups[1], s.before, "before") \o Links(s.groups[1], s.after, "after")])
  \o Joined([k \in DOMAIN confs |->
                   Links(confs[k].group, confs[k].before, "before")
                     \o Links(confs[k].group, confs[k].after, "after")])
  \o Joined([k \in DOMAIN os |->
                   [m \in 1 .. Len(os[k]) - 1 |-> <<os[k][m], os[k][m + 1], "order">>]])

\* One more edge; a reference to a system of several groups has no group.
WithEdge(memberships, g, d) ==
  LET other == IF d[3] = "order" THEN d[2]
               ELSE Resolved(g.names, memberships, d[2])
      edge  == IF d[3] = "after" THEN <<other, d[1]>> ELSE <<d[1], other>>
  IN [names |-> Noted(Noted(g.names, edge[1]), edge[2]),
      edges |-> g.edges \union {edge},
      valid |-> g.valid /\ edge[1] # edge[2]
                  /\ (other # d[2] => Len(memberships[d[2]]) = 1)]

\* _build_group_graph: the groups in the order they are noted, the edges between
\* them, and whether every reference could be resolved.
GroupGraph(confs, os, list, info) ==
  LET memberships == [n \in {info[i].name : i \in Range(list)} |->
                        info[CHOOSE i \in Range(list) : info[i].name = n].groups]
      known == Accumulated(Noted, <<>>, [k \in DOMAIN confs |-> confs[k].group]
                                          \o Joined([k \in DOMAIN list |-> info[list[k]].groups]))
  IN Accumulated(LAMBDA g, d : WithEdge(memberships, g, d),
                 [names |-> known, edges |-> {}, valid |-> TRUE],
                 Declared(confs, os, list, info))

\* The graph and the systems in the numbering of GroupSort: groups as noted,
\* systems by id.
Position(seq, x) == CHOOSE k \in DOMAIN seq : seq[k] = x
Numbered(g) == {<<Position(g.names, e[1]), Position(g.names, e[2])>> : e \in g.edges}
ById(list) == InOrder(Range(list), <)
Members(g, list, info) ==
  [k \in 1 .. Len(list) |->
     [groups |-> [m \in DOMAIN info[ById(list)[k]].groups |->
                    Position(g.names, info[ById(list)[k]].groups[m])]]]

\* sorted_scheduled_systems: whether it raises, and the ids it returns.
Sorts(confs, os, list, info) ==
  LET g == GroupGraph(confs, os, list, info) IN
  g.valid /\ Schedulable(Members(g, list, info), Len(g.names), Numbered(g))

SortedIds(confs, os, list, info) ==
  LET g == GroupGraph(confs, os, list, info) IN
  [k \in DOMAIN list |->
     ById(list)[SystemOrder(Members(g, list, info), Len(g.names), Numbered(g))[k]]]

\* sorted_system_groups: only the groups are sorted, and each system alone is
\* checked against them.
GroupsSort(confs, os, list, info) ==
  LET g         == GroupGraph(confs, os, list, info)
      reachable == Reachability(Len(g.names), Numbered(g))
      members   == Members(g, list, info)
  IN /\ g.valid
     /\ Len(GroupOrder(Len(g.names), Numbered(g))) = Len(g.names)
     /\ \A k \in DOMAIN members :
          \A i, j \in DOMAIN members[k].groups :
            i # j => <<members[k].groups[i], members[k].groups[j]>> \notin reachable

-----------------------------------------------------------------------------
(* Compiling and releasing plans.  st is [cache, held].                    *)

Content(i) == [plan |-> details[i].plan, schema |-> schema, keys |-> details[i].keys]

\* build_and_compile_payload: the old handle is released, a new one taken.
Compile(st, i, content) ==
  [cache |-> Insert(Release(st.cache, st.held[i].handle), content),
   held  |-> [st.held EXCEPT ![i] = [handle |-> st.cache.next, schema |-> content.schema]]]

\* Mutant: a plan compiled for an older schema is run again.
NeedsCompileOnce(st, i) == st.held[i].handle = 0 \/ details[i].kind = "dynamic"

\* _needs_physical_recompile
NeedsCompile(st, i) ==
  \/ st.held[i].handle = 0
  \/ st.held[i].schema # schema
  \/ details[i].kind = "dynamic"

Refresh(st, i) == IF NeedsCompile(st, i) THEN Compile(st, i, Content(i)) ELSE st

\* validated_compiled_plan
Runnable(st, i) ==
  /\ st.held[i].handle \in DOMAIN st.cache.handles
  /\ ContentOf(st.cache, st.held[i].handle).schema = schema

Current == [cache |-> cache, held |-> held]
NoHandle == [handle |-> 0, schema |-> 0]
Forgotten(holding) == [handle |-> 0, schema |-> holding.schema]

\* The handles of ids that st has and that are live in a later cache.
HandlesOf(st, ids, after) ==
  {st.held[i].handle : i \in ids} \intersect DOMAIN after.handles

-----------------------------------------------------------------------------
(* The calls, outside a frame or from a Python system in it.               *)

MayCall == pc \in {"idle", "python"}

Unconfigured(name) == [group |-> name, before |-> <<>>, after |-> <<>>]
SetGroups(confs) == [k \in DOMAIN confs |-> confs[k].group]
\* _system_sets.setdefault(name, _SystemSetConfig()) for each name.
EnsureSets(confs, names) ==
  Accumulated(LAMBDA cs, n : IF n \in Range(SetGroups(cs)) THEN cs
                             ELSE Append(cs, Unconfigured(n)), confs, names)

GroupsFor(r) == IF r.groups = <<>> THEN <<Implicit[r.name]>> ELSE r.groups

\* add_system until it prepares the plan; the groups exist from here on, also when
\* the rest fails.  The number a failed call uses up is not counted: numbers are
\* only compared.
NewSystem(r) ==
  /\ MayCall /\ Named(r.name) = {}
  /\ Len(details) < MaxSystems /\ cache.next <= MaxHandles
  /\ sets' = EnsureSets(sets, GroupsFor(r))
  /\ UNCHANGED <<orders, schema, frameVars, orphans, refused>>

\* The _ScheduledSystem it makes.
Scheduled(r) ==
  [name |-> r.name, groups |-> GroupsFor(r), before |-> r.before, after |-> r.after,
   kind |-> r.kind, plan |-> r.plan, keys |-> r.keys]

WithSystem(r) == Append(details, Scheduled(r))
NewList == Append(systems, Len(details) + 1)

\* prepare_scheduled_physical_plan raises.
AddUnprepared(r) ==
  /\ NewSystem(r)
  /\ r.kind \in Compiled
  /\ UNCHANGED <<systems, details, held, cache, unsorted>>

\* The plan of a new system, compiled, its indexes built or not (warm-up errors
\* are suppressed).
Prepared(r) ==
  LET st == [cache |-> cache, held |-> Append(held, NoHandle)]
      c  == [plan |-> r.plan, schema |-> schema, keys |-> r.keys]
      compiled == Compile(st, Len(details) + 1, c)
  IN IF r.kind \notin Compiled THEN {st}
     ELSE {compiled, [cache |-> Indexed(compiled.cache, {cache.next}),
                      held  |-> compiled.held]}

\* Mutant: a system that cannot be sorted stays in the list.
AddUnsorted(r) ==
  /\ NewSystem(r)
  /\ systems' = NewList
  /\ details' = WithSystem(r)
  /\ \E st \in Prepared(r) : held' = st.held /\ cache' = st.cache
  /\ UNCHANGED unsorted

\* The sort accepts the new system.
AddAccepted(r) ==
  /\ NewSystem(r)
  /\ Sorts(sets', orders, NewList, WithSystem(r))
  /\ systems' = SortedIds(sets', orders, NewList, WithSystem(r))
  /\ details' = WithSystem(r)
  /\ \E st \in Prepared(r) : held' = st.held /\ cache' = st.cache
  /\ unsorted' = FALSE

\* The sort refuses it: it leaves the list and its plan is released.
AddRefused(r) ==
  /\ NewSystem(r)
  /\ ~Sorts(sets', orders, NewList, WithSystem(r))
  /\ \E st \in Prepared(r) : cache' = Release(st.cache, Last(st.held).handle)
  /\ UNCHANGED <<systems, details, held, unsorted>>

AddSystem(r) == AddUnprepared(r) \/ AddAccepted(r) \/ AddRefused(r)

\* remove_system: the object keeps the number of the handle it has lost.
RemoveSystem(name) ==
  /\ MayCall
  /\ \E i \in Named(name) :
       /\ systems' = Select(systems, {k \in DOMAIN systems : systems[k] # i})
       /\ cache' = Release(cache, held[i].handle)
  /\ UNCHANGED <<sets, orders, details, unsorted, schema, held,
                 orphans, refused, frameVars>>

\* configure_system_group: the configuration is stored first and stays when the
\* groups cannot be sorted with it; an empty before or after keeps the old one.
ConfigureSystemGroup(call) ==
  LET keep(new, old) == IF new = <<>> THEN old ELSE new
      merged(conf) == IF conf.group # call.group THEN conf
                      ELSE [group  |-> conf.group,
                            before |-> keep(call.before, conf.before),
                            after  |-> keep(call.after, conf.after)]
  IN /\ MayCall
     /\ LET ensured == EnsureSets(sets, <<call.group>>) IN
          sets' = [k \in DOMAIN ensured |-> merged(ensured[k])]
     /\ unsorted' = TRUE
     /\ UNCHANGED <<orders, systems, details, schema, planVars, frameVars>>

\* configure_group_order: the order is taken back when the groups cannot be
\* sorted with it, and its groups exist afterwards when they can.
ConfigureGroupOrder(order) ==
  /\ MayCall /\ Len(orders) < MaxOrders
  /\ GroupsSort(sets, Append(orders, order), systems, details)
  /\ orders' = Append(orders, order)
  /\ sets' = EnsureSets(sets, order)
  /\ unsorted' = TRUE
  /\ UNCHANGED <<systems, details, schema, planVars, frameVars>>

\* A component type is registered, by a call of the host or by an entity.
RegisterSchema ==
  /\ MayCall /\ schema < MaxSchema
  /\ schema' = schema + 1
  /\ UNCHANGED <<scheduleVars, planVars, frameVars>>

Call ==
  \/ \E r \in Requests : AddSystem(r)
  \/ \E r \in Requests : RemoveSystem(r.name)
  \/ \E c \in GroupCalls : ConfigureSystemGroup(c)
  \/ \E o \in OrderCalls : ConfigureGroupOrder(o)
  \/ RegisterSchema

-----------------------------------------------------------------------------
(* The frame.                                                              *)

\* run_sorted_systems sorts again; when that raises the frame does nothing.
StartFrame ==
  /\ pc = "idle" /\ systems # <<>>
  /\ Sorts(sets, orders, systems, details)
  /\ frame' = SortedIds(sets, orders, systems, details)
  /\ pc' = "frame"
  /\ UNCHANGED <<scheduleVars, schema, planVars>>

EndFrame ==
  /\ pc = "frame" /\ frame = <<>>
  /\ pc' = "idle"
  /\ UNCHANGED <<scheduleVars, schema, planVars, frame>>

\* A system that is disabled or whose condition is false.
SkipSystem ==
  /\ pc = "frame" /\ frame # <<>>
  /\ frame' = Tail(frame)
  /\ UNCHANGED <<scheduleVars, schema, planVars, pc>>

EnterPython ==
  /\ pc = "frame" /\ frame # <<>> /\ details[Head(frame)].kind \notin Compiled
  /\ pc' = "python"
  /\ UNCHANGED <<scheduleVars, schema, planVars, frame>>

LeavePython ==
  /\ pc = "python"
  /\ \/ pc' = "frame" /\ frame' = Tail(frame)
     \/ pc' = "idle"  /\ frame' = <<>>          \* it or a child's compilation raised
  /\ UNCHANGED <<scheduleVars, schema, planVars>>

\* A child of a sequence that is not Python: compiled through the system's own
\* handle, which is then taken back, executed, and released in every case.
RunChild ==
  /\ pc = "python" /\ details[Head(frame)].kind = "sequence"
  /\ cache.next <= MaxHandles
  /\ LET st == Compile(Current, Head(frame), Content(Head(frame))) IN
       /\ cache' = Release(Indexed(st.cache, {cache.next}), cache.next)
       /\ held' = [held EXCEPT ![Head(frame)] = NoHandle]
  /\ \/ UNCHANGED frameVars
     \/ pc' = "idle" /\ frame' = <<>>           \* the execution raised
  /\ UNCHANGED <<scheduleVars, schema, orphans, refused>>

\* The members of a batch: the head of the frame and later systems in exactly its
\* groups, all with plans; those between them that are not taken are skipped.
Batches ==
  {B \in SUBSET (DOMAIN frame) :
     /\ 1 \in B
     /\ \A k \in B : details[frame[k]].kind \in Compiled
     /\ \A k \in 1 .. Max(B) :
          details[frame[k]].groups = details[Head(frame)].groups}

BatchIds(B) == Select(frame, B)

\* The plans of ids are brought up to date one after another.
Refreshed(ids) == Accumulated(Refresh, Current, ids)

\* A batch of several with a dynamic plan among them is run one by one, after the
\* members before that one have been brought up to date.
BatchFallsBack ==
  /\ pc = "frame" /\ frame # <<>> /\ cache.next <= MaxHandles
  /\ \E B \in Batches :
       LET ids == BatchIds(B)
           stop == {k \in DOMAIN ids : details[ids[k]].kind = "dynamic"}
       IN /\ Len(ids) > 1 /\ stop # {}
          /\ LET st == Refreshed(SubSeq(ids, 1, Min(stop) - 1)) IN
               held' = st.held /\ cache' = st.cache
                 /\ orphans' = orphans \union
                      HandlesOf(st, Range(ids) \ Range(systems), st.cache)
  /\ UNCHANGED <<scheduleVars, schema, refused, frameVars>>

\* Those that run through one call: one system, or several static plans.
Together(ids) ==
  Len(ids) = 1 \/ \A k \in DOMAIN ids : details[ids[k]].kind = "plan"

\* run_physical_systems_batch, run_physical_system: every plan is compiled if it
\* must be, then all are executed.  A system that was removed after the frame
\* began still runs; a plan it compiles has no owner any more.
RunBatch ==
  /\ pc = "frame" /\ frame # <<>> /\ cache.next <= MaxHandles
  /\ \E B \in Batches :
       LET ids == BatchIds(B)
           st  == Refreshed(ids)
       IN /\ Together(ids)
          /\ \A k \in DOMAIN ids : Runnable(st, ids[k])
          /\ held' = st.held
          /\ cache' = Indexed(st.cache, {st.held[i].handle : i \in Range(ids)})
          /\ frame' = SubSeq(frame, Max(B) + 1, Len(frame))
          /\ orphans' = orphans \union HandlesOf(st, Range(ids) \ Range(systems), st.cache)
  /\ UNCHANGED <<scheduleVars, schema, refused, pc>>

\* The execution raises, on its own account or because a handle is not runnable:
\* every system of the batch forgets its handle without releasing it.  Plans that
\* had begun to run leave the indexes they have built.
ExecutionFails ==
  /\ pc = "frame" /\ frame # <<>> /\ cache.next <= MaxHandles
  /\ \E B \in Batches :
       LET ids == BatchIds(B)
           st  == Refreshed(ids)
       IN /\ Together(ids)
          /\ held' = [i \in Ids |-> IF i \in Range(ids) THEN Forgotten(st.held[i])
                                                        ELSE st.held[i]]
          /\ \E begun \in SUBSET {i \in Range(ids) : Runnable(st, i)} :
               cache' = Indexed(st.cache, {st.held[i].handle : i \in begun})
          /\ orphans' = orphans \union HandlesOf(st, Range(ids), st.cache)
          /\ refused' = refused \union {i \in Range(ids) : ~Runnable(st, i)}
  /\ pc' = "idle" /\ frame' = <<>>
  /\ UNCHANGED <<scheduleVars, schema>>

\* The k-th plan of the batch cannot be compiled: its handle is forgotten when
\* the payload could not be built, released when Rust refused it.
CompilationFails ==
  /\ pc = "frame" /\ frame # <<>> /\ cache.next <= MaxHandles
  /\ \E B \in Batches :
       LET ids == BatchIds(B) IN
       \E k \in DOMAIN ids, built \in BOOLEAN :
         LET st == Refreshed(SubSeq(ids, 1, k - 1))
             i  == ids[k]
         IN /\ Together(ids) /\ NeedsCompile(st, i)
            /\ cache' = IF built THEN Release(st.cache, st.held[i].handle) ELSE st.cache
            /\ held' = [st.held EXCEPT ![i] = Forgotten(@)]
            /\ orphans' = orphans \union
                 HandlesOf(st, {i} \union (Range(SubSeq(ids, 1, k)) \ Range(systems)), cache')
  /\ pc' = "idle" /\ frame' = <<>>
  /\ UNCHANGED <<scheduleVars, schema, refused>>

Frame ==
  \/ StartFrame \/ EndFrame \/ SkipSystem \/ EnterPython \/ LeavePython \/ RunChild
  \/ BatchFallsBack \/ RunBatch \/ ExecutionFails \/ CompilationFails

RegistryNext == Call \/ Frame

RegistrySpec == RegistryInit /\ [][RegistryNext]_registryVars

-----------------------------------------------------------------------------
(* Properties.                                                             *)

\* Every handle the Rust cache keeps belongs to one registered system, whose plan
\* it is, unless an error made its holder forget it or a removed system compiled
\* it; no registered system holds a handle that is gone, nor is one refused by the
\* executor: only a system removed in the frame that still runs it can be
\* (add_system's rollback, remove_system, recompilation after a registration of a
\* component, children run through the system's handle).
HandlesHeld ==
  LET holders == {i \in Range(systems) : held[i].handle # 0} IN
  /\ \A i \in holders :
       /\ held[i].handle \in DOMAIN cache.handles
       /\ ContentOf(cache, held[i].handle).plan = details[i].plan
       /\ \A j \in holders : i # j => held[i].handle # held[j].handle
  /\ DOMAIN cache.handles \subseteq {held[i].handle : i \in holders} \union orphans
  /\ refused \intersect Range(systems) = {}

\* Equal plans are prepared once and owned by exactly their handles; canonical
\* names no freed plan; a key is counted once per handle that reads it, and an
\* index is only kept while a handle reads it.
CacheExact ==
  /\ DOMAIN cache.prepared = Range(cache.handles)
  /\ \A a, b \in DOMAIN cache.prepared : cache.prepared[a] = cache.prepared[b] => a = b
  /\ DOMAIN cache.owners = DOMAIN cache.prepared
  /\ \A a \in DOMAIN cache.owners :
       cache.owners[a] = Cardinality({h \in DOMAIN cache.handles : cache.handles[h] = a})
  /\ cache.canonical = DOMAIN cache.prepared
  /\ DOMAIN cache.keyRefs = UNION {cache.prepared[a].keys : a \in DOMAIN cache.prepared}
  /\ \A k \in DOMAIN cache.keyRefs :
       cache.keyRefs[k] = Cardinality({h \in DOMAIN cache.handles :
                                         k \in ContentOf(cache, h).keys})
  /\ cache.indexes \subseteq DOMAIN cache.keyRefs

\* No name is registered twice, and only gs.group and gs.order can leave systems
\* that no frame can sort: whatever fails in add_system after it has created
\* groups, and whatever is removed while others refer to it, the rest stays
\* schedulable.
RegisteredSchedulable ==
  /\ Cardinality({details[i].name : i \in Range(systems)}) = Len(systems)
  /\ unsorted \/ Sorts(sets, orders, systems, details)
=============================================================================
