# Gummy Snake in TLA+: its ECS, frame loop and audio mixer

Gummy Snake is a creative-coding runtime: a Python facade (`src/gummysnake`)
over Rust crates (`crates/`). Its core is an entity-component-system: user
code registers *systems*, a frame runs them in group order, and most of them
execute inside the Rust world (`crates/gummy_ecs`) which stores entities in
archetypes. Those are the parts whose state is shared, cached and changed from
many places. Around it stand the loop that draws frames and dispatches events,
and a mixer thread that plays sounds. This directory models them, model-checks
them and proves theorems about the storage core and its refinement, the
queries, the staged barrier, the change journal, the event rings, the order of
systems in a frame, the registration of systems with their plan handles, the
frame loop and the mixer.
Paths below are relative to the repository.

## The system

| Component | State it keeps | Operations | What is hard about it |
|---|---|---|---|
| Entity allocator (`gummy_ecs/src/entity.rs`) | generations, alive, free list | spawn, despawn, validate | stale handles after slot reuse |
| Archetype storage (`archetype.rs`, `world/entity_archetype.rs`, `location.rs`, `fields.rs`) | archetypes with rows and columns, location index, cached transitions | spawn, despawn, add and remove component, set field | swap-remove, moves between archetypes, three structures kept in step |
| Tags (`tag.rs`) | tags by slot | add, remove, clear at despawn | slot reuse |
| Queries (`query.rs`, `world/queries.rs`) | archetype lists per filter, row plans per query, structural revision | query, execution query | caches that are never emptied |
| Staged barrier (`command.rs`, `world/commands.rs`) | command buffer | stage, apply | preflight must foresee every refusal |
| Change journal (`world/change_journal.rs`) | stamps per entity and component, summaries, epoch | record, added, removed, changed | order of stamps, batch summaries, frame change |
| Typed events (`event.rs`, `world/resources_events.rs`) | one ring per type, shared sequence, reader cursors | emit, read, clear, begin frame, set capacity and retention | eviction under a reader, retention at frame boundaries |
| Group order (`ecs/scheduling_helpers.py`) | group graph | stable topological sorts | systems in several groups |
| Frame schedule (`ecs/world_runtime/systems.py`, `state.py`) | active groups, members left, batch | phases, batches, hooks | user code may raise anywhere |
| System registration (`systems.py`, `state.py`) | systems, groups, orders | add, remove, configure, order | rollback after a failed sort, references by name resolved again at every sort |
| Physical plans (`physical_execution/planning.py`, `plan/cache.rs`, `world/plan_cache.rs`) | handles, canonical plans, reference counts | compile, execute, release | schema changes and removals inside the frame, handles lost on errors |
| Waves (`scheduler.rs`) | none between calls | build waves, merge command batches | conflicts and dependencies together |
| Sketch loop (`sketch/runtime.py`, `backend/canvas_runtime/host/`) | two running flags, looping, redraw, window, frame counters | run, stop, no_loop, loop, redraw, three loops | callbacks that stop, close or raise anywhere; pacing |
| Input (`host/events.py`, `context_mixins/input.py`) | batch of events, motion of the frame | poll, dispatch | events between frames, the close button inside a batch |
| Audio (`gummy_canvas/src/sound.rs`, `sound/audio_manager.rs`, `Sound`, `TrackPlayback`) | channel, voices, snapshots, handles | play, control, stop, join, drop; mix | two threads; ends, failures and device errors race with calls |
| Executor kernels, spatial indexes, schemas, renderer, GPU, assets, synthesiser, accelerator, 3D | data | | arithmetic and pixels, not protocol |

A frame goes: `Sketch._draw_frame` calls `run_pre_draw_systems`, which moves
the change epoch and event frame of the world (`World::set_frame`), then
`run_sorted_systems`. Consecutive plan systems of the same groups go to Rust in
one bridge call; Python systems and UDFs call back into the world one
operation at a time. The Rust world is reached through `&mut self` under the
interpreter lock, so each of its operations is atomic; what interleaves is the
*order* of operations of many callers, reads of caches between them, and user
code that raises in the middle of a frame. The audio mixer is the one part
with threads of its own.

## Modules

```
EcsStore        what the world promises (abstract)
   ^ refined by
EcsWorld        allocator, archetypes, locations, tags, fields
   ^            ^             ^
EcsQueries   EcsBarrier    EcsChanges        each EXTENDS EcsWorld
EcsWorld   <-  EcsWorldProofs                 theorems about EcsWorld
EcsWorldProofs <- EcsClientsProofs            about EcsQueries and EcsBarrier
EcsWorldProofs <- EcsChangesProofs            about EcsChanges
EcsEvents  <-  EcsEventsProofs                typed event rings and cursors
Orders     <-  GroupSort                      sequences; order of groups and systems
GroupSort  <-  OrderLemmas                    about Orders and GroupSort
GroupSort  <-  SystemSchedule                 one frame
SystemSchedule <- SystemScheduleProofs        about SystemSchedule
GroupSort, PlanCache  <-  SystemRegistry      systems, groups, plan handles
SystemRegistry <- SystemRegistryProofs        about PlanCache and SystemRegistry
SketchLoop, AudioMixer <- HostProofs          a run's loop; the mixer's two threads
```

**EcsStore** maps each live handle to its components' values and tags, and
remembers which handles were issued. It knows no rows or slots.

**EcsWorld** is the storage core. `slotCount`, `generations`, `alive`, `free`
are `EntityAllocator`; `arch` is the vector of archetypes (rows `entities`,
`columns` per component, cached `add`/`remove` transitions, 0 for none); `loc`
is `DenseEntityLocations`; `slotTags` is `EntityTags`; `order` is
`entity_order`. Archetypes and rows are numbered from 1. `Spawn`, `Despawn`,
`AddComponent`, `RemoveComponent`, `AddTag`, `RemoveTag`, `SetField` are the
operations of `World`, each with everything it calls: looking up or creating
the archetype, caching the edge in both directions, the swap-remove in the
entity vector and in every column, and the repair of the location of the
entity that moved. `spawn_batch` is a sequence of `Spawn`s (it ensures the
archetypes in row order before it fills them, with the same result). A
component has one field with an opaque value. Calls the code refuses leave the
world as it was and are stuttering steps.

**EcsQueries** adds `structural_revision` and the two caches. A new archetype
is appended to every cached list it matches, in the step that creates it; rows
are reused while the revision stands.

**EcsBarrier** adds the command buffer. `apply_staged` is one step that
validates the whole buffer against an overlay of component sets and drains
it, then one step per command; nothing else runs in between, and a
command that failed there would be seen as outcome `"failed"`. Commands name
live, stale and soon-dead handles and names without a schema; direct calls go
on between staging and applying.

**EcsChanges** records every mutation as the journal does (a revision per
record, the per-component numbers `added`, `removed`, `changed`, batches of
rows under one summary, nothing but the latest epoch) and answers the query
terms from them.

**EcsEvents** models the rings, their one shared sequence, capacity and
retention with their floors of one, eviction and trimming, pruning at the start
of a frame, clearing, and one cursor per type.

**Orders** gives the elements of a finite set in order, and the elements of a
sequence at chosen places, by rank: the i-th element is the one that i - 1 others
precede. `EcsQueries` (rows sorted by handle), `EcsEvents` (records that a reader or a
retention rule selects) and `GroupSort` (the key of a system) use it instead of
`SetToSortSeq` and `SelectSeq`, which are recursive and about which nothing
could be proved. For the same reason `Accumulated` and `Joined` stand for
`FoldLeft` and `FlattenSeq`: a loop of the code over a list, with what it has
accumulated so far, as a recursive function of a number. `Listed` says that a
value is a sequence, of whatever elements.

**GroupSort** writes the two stable topological sorts as recursive functions:
of the groups, and of the systems under the order of all their memberships.
**SystemSchedule** is `run_sorted_systems` in steps, with `pc` for where it is:
a phase, opening groups, collecting a batch, running it, advancing and closing
groups, and the `finally` clause. Conditions, bodies and hooks answer anything
and may raise. A plan runs in a batch; `"alone"` stands for Python systems,
UDF plans and plans with a canvas barrier, which run in a phase of their own. A
batch may also fail before its first system, when it cannot be prepared.

**PlanCache** is the Rust side of compiled plans as operators on one record:
handles that are never reused, prepared plans shared by equal content, owner
counts, weak canonical references, and reference counts of the spatial indexes
that plans read. An execution that raises leaves the indexes of the plans it had
begun. Prepared plans live at addresses, and a free address is taken
again, as an allocator does. **SystemRegistry** composes it with `GroupSort`:
`add_system` in its three outcomes (preparation fails, the sort refuses it, it is
accepted), `remove_system`, `gs.group`, `gs.order` and the registration of a
component type, each also callable by a Python system in the middle of a frame
whose snapshot of systems was taken before. A frame takes batches from the
snapshot, compiles what has no plan for the current schema, runs it, and may
fail in building, compiling or executing; a sequence with a Python part compiles
its children through the system's own handle. Hooks and conditions are
`SystemSchedule`'s; here any system may be skipped. Every reference in `before`
and `after` is resolved again at every sort, to a group of that name if there is
one by then, else to the group of the system of that name.

**SketchLoop** is `Sketch.run` with the loop of the backend inside it:
headless, interactive with `max_frames`, or interactive. `pc` says where the
run is; in a callback (`preload`, `setup`, `draw`, an event handler) the sketch's
code may call `no_loop`, `loop`, `redraw` and `stop` any number of times, then
return or raise. Outside callbacks opening the window, polling and dispatching
events, and presenting a frame may raise. A poll delivers any batch of pointer motions and at most one
close event; the window counts as closed from the poll on, the sketch is stopped
when the event is dispatched. The next frame time is the flag `due`. A frame's
ECS part is `SystemSchedule`; here it is the state `draw`.

**AudioMixer** has the owner thread (methods of `Sound` and `TrackPlayback`, as
sequences of native calls each of which sends a command and waits for its
reply) and the manager thread (commands, blocks mixed voice by voice, the
device's failures), the channel between them and the snapshots the owner reads
without asking. Dropping a handle sends a `Close` that nobody waits for. The
voice limit is a variable that is chosen at the start. Volume, rate, pan, looping
and seeking are one command: they change neither what plays nor what is counted,
and positions are not modelled.

## What the runs check

| Run | Question | Bounds |
|---|---|---|
| `WorldTransitions` | do rows, columns, locations and cached edges stay exact through chains of moves; does each entity keep its own values | 2 components (interchangeable), 2 slots, 2 generations, 2 values |
| `WorldSlots` | are slots, handles and tags kept apart when slots are reused | 1 component, 1 tag, 3 slots, 2 generations, 2 values |
| `QueryCaches` | is a cached answer ever wrong | 2 components, 1 tag, 3 filters of which two share an archetype list, 2 slots, 4 structural changes |
| `StagedBarrier` | is a barrier all or nothing, and what its commands say | 1 registered and 1 unregistered component, 2 slots, 2 commands |
| `ChangeFilters` | do Added, Removed, Changed match what happened to the store | 1 component, 2 slots, 2 values, 9 revisions, 2 epochs |
| `EventRings` | can a reader lose, repeat or reorder a record that is there | 2 types (interchangeable), 4 records, 4 frames, capacity and retention up to 2 |
| `FrameSchedule` | are groups ordered and hooks balanced whatever is skipped, batched or raised | all registrations of 3 systems in up to 2 of 3 groups, 4 group graphs |
| `RunConditions` | is a run condition asked once per frame | as `FrameSchedule`; a violation |
| `SystemRegistry` | does every plan handle have an owner, is the cache exact, can the systems always be sorted | 2 systems out of 5 requests (equal plans, dynamic plan, Python, sequence with an order by name), 1 group call, 1 order, 1 schema change, 3 handles |
| `SketchLoop` | is motion shown once, is a pending frame drawn, does a loop end when and only when it should, and clean up | 3 loops, max_frames up to 2, 3 motions, batches of 2 |
| `StopInSetup` | does stop end the run whenever it is called | as `SketchLoop`; a violation |
| `AudioMixer` | can a voice be lost, a playback lie, an end be told twice, a caller wait for ever | 1 sound, 1 track, limits of 1 and 2 voices, 3 voice ids |

Why the bounds are enough for the cases they aim at: three slots are the least
with a swap-remove in the middle of an archetype while a third entity stands by;
two components give the four archetypes among which a move can reach one
archetype along two paths and find a cached edge from either side; two
generations are a reuse, after which a handle is stale. Two filters that share
an archetype list but not their rows are what distinguishes the caches. Two
staged commands are the least in which a later one depends on an earlier one.
`QueryCaches` has one field value, so that field writes do not show in TLC: the
rows a query caches are entities and not values, and `CachedRowsCorrect` holds for
every set of values.
Four records with a capacity of two evict under a reader and leave gaps for the
other type. Three systems give a batch of two followed or split by another, and
two memberships of each give groups that overlap.
Two systems are enough for one to share the other's plan, to refer to it by name
and to remove it in the frame that still runs it; three handles are one for each
and one more to compile again, after which an address is used a second time; one
schema change outdates both. Two frames tell the last one of a bounded loop from
the others, and two events put something after the close button in its batch.
Two objects and a limit of one voice make the second `play` meet a full mixer,
also while the close of the first is still in the channel; three ids let a sound
be played again while the end of its earlier voice has not been seen.
`MaxSlots`, `MaxGeneration`, `MaxRevision`, `MaxEpoch`, `MaxEmits`, `MaxFrame`,
`MaxStaged`, `MaxSystems`, `MaxOrders`, `MaxSchema`, `MaxHandles`, `MaxMoves`,
`MaxBatch`, `MaxVoices` and `MaxIds` are bounds of the model, not of the code. A run whose bound ends
behaviours switches deadlock checking off; the schedule and the world have no
such end and are checked for it.

The main properties, and the code they are about:

- `StaleStaysStale`: no operation revives a handle. `ImplementsStore`: the
  storage implements `EcsStore` under the mapping that reads each live handle's
  row. Together they say what a caller may rely on.
- `AllocatorExact`, `LocationsExact`, `ColumnsAligned`, `TransitionsExact`,
  `SlotIndexesExact`: the indexes agree with each other in both directions.
- `ArchetypeCacheExact`, `CachedRowsFresh`: a cache that counts as current
  gives the answer a full scan would give, in the same order.
- `AllOrNothing`: an accepted barrier has the effect of its commands one after
  another; a refused one leaves world and buffer alone; none stops half way.
- `FiltersFitStore`, `NoChangeMissed`, `MatchesHold`: change filters against the
  store at the start of the epoch, a ghost variable.
- `RingsExact`, `CountersBalance`, `ReadersExactlyOnce`, `NextPassSees`: rings
  against the log of all emits, a ghost variable.
- `HooksSurround`, `GroupsClosed`, `OrderedGroupsDisjoint`, `RunsEligibleOnce`:
  over `trace`, the hooks and bodies of a frame in order.
- `HandlesHeld`: each plan handle in Rust belongs to one registered system, whose
  plan it is, and the executor refuses no registered system; `CacheExact`: the
  counts behind the handles. `RegisteredSchedulable`: no failure and no removal
  leaves systems that cannot be sorted; only `gs.group` and `gs.order` can.
- `MotionShownOnce`, `PendingFrameDrawn`, `EndsForAReason`, `LoopEnds`,
  `ReleasedAtEnd`: what goes into a frame, when frames come, when they stop, and
  what is left.
- `VoicesAccounted`, `PlaybackTruthful`, `EndDeliveredOnce`, `CommandsSettled`:
  voices against handles, snapshots against voices, callbacks against ends, and
  every call against its reply. An end is told at most once: a `Sound` that plays
  again before its end was polled never tells it.

Ghost variables (`atStart`, `before`, `batch`, `log`, `lost`, `horizon`,
`delivered`, `trace`, `checks`, `wanted`, `raised`, `unsorted`, `orphans`, `refused`,
`frames`, `moves`, `shown`, `cause`, `stopped`, `failed`) record history for the
properties; no guard of the code's part reads them. Definitions whose comment
starts with "Mutant" are wrong variants of the definition after them, each
named for the bug it would be; they are not used by a specification and show
that the properties can tell.

### Findings

`docs/reference/ecs.md:186` says a `run_if` callback is evaluated once per
frame and system. `_collect_physical_batch` (`ecs/world_runtime/systems.py:222`)
evaluates the condition of the system after the batch to see whether it joins;
when it is of another kind and cannot, its own phase evaluates it again. A
condition with side effects (a counter, a timer) fires twice, and the answer
that counts comes after the batch has run. `RunConditions` shows the shortest
such frame.

`sketch/runtime.py:81` says that `stop` makes the backend stop scheduling the
sketch. Called in `preload` or `setup` it clears both flags, but the backend's
loop then sets its own again and opens the window anew
(`backend/canvas_runtime/host/runtime.py:50`). Since `Sketch._running` stays
false no frame is drawn and none is counted: the interactive loop polls for ever
until the window is closed, also when `max_frames` should bound it.
`StopInSetup` shows the shortest such run. Related, and within what
`EndsForAReason` allows: the bounded interactive loop tests its bound after a
frame, so `max_frames=0` draws one.

Met while modelling, without a run of their own:

- `gs.group` and `gs.order` check the order of groups only. Two orders that cross
  over systems of several groups are accepted, and every later frame raises;
  `gs.group` even keeps a configuration that it has refused
  (`world_runtime/state.py:159`). `RegisteredSchedulable` excludes what follows
  either call until the next accepted `add_system`.
- A system that fails in execution forgets its plan handle without releasing it
  (`planning.py:318`, `planning.py:248`), as does one whose payload cannot be
  built any more. The plan stays in the Rust cache. `HandlesHeld` counts these
  handles as `orphans` and shows that there are no others.
- A synth voice whose rendering fails is taken out like one that ended, but its
  snapshot still says playing (`audio_manager.rs:467`): `is_playing` stays true
  and `join` does not return. `PlaybackTruthful` names this as the one exception.
- `TrackPlayback.join` on a paused track returns at once and closes it, since it
  waits for `playing` to be false.

## Fairness

The world's operations are synchronous calls that end when they return, and
nothing promises that any of them is called again: its modules assume no
fairness and state safety only. Two modules have liveness.

`SketchLoop`: `WF(Program)`, because the thread that called `run` goes on and
callbacks return (a callback that never returns blocks any program), and
`WF(Clock)`, because time passes the next frame time. Nothing is assumed of what
the sketch's code asks for, of events, or of errors: they may happen or not, any
number of times. `PendingFrameDrawn` therefore allows the request to be
withdrawn, and `LoopEnds` does not promise that an interactive loop ends unless
somebody stops it or closes the window.

`AudioMixer`: `WF(Owner)` for the native calls a method has begun (not for
calling methods), `WF(Worker)` for the manager thread, and `SF(QueueFilled)`: the
thread mixes blocks until the device's queue is full without looking at its
commands, and since a block is mixed faster than it plays, a queue that is asked
again and again is found full at some time. Without that the commands could wait
for ever behind a device that drains as fast as it is fed. `join` is not required
to return: a track may be paused by nobody and never end while it is rendered.

## What is proved

`EcsWorldProofs` proves about `WorldSpec`, for every set of components, tags and
values, every number of slots and every bound on generations, under the
assumption `WorldAssumption` of `EcsWorld`:

| Theorem | Statement |
|---|---|
| `WorldInvariant` | `WorldSpec => []IInv` |
| `TypeCorrect` | `WorldSpec => []TypeOK` |
| `AllocatorCorrect` | `WorldSpec => []AllocatorExact` |
| `LocationsCorrect` | `WorldSpec => []LocationsExact` |
| `ColumnsCorrect` | `WorldSpec => []ColumnsAligned` |
| `TransitionsCorrect` | `WorldSpec => []TransitionsExact` |
| `SlotIndexesCorrect` | `WorldSpec => []SlotIndexesExact` |
| `StaleHandlesStayStale` | `WorldSpec => StaleStaysStale` |
| `StoreImplemented` | `WorldSpec => ImplementsStore` |

The invariant `IInv` is the conjunction of `AllocatorInv`, `StorageInv` and
`SlotInv`: the checked invariants, regrouped by what changes together. None of
them is inductive alone. A row is removed where the location index says it is,
so `ColumnsAligned` after a despawn needs `LocationsExact` before; the repaired
location is that of the entity in the last row, so `LocationsExact` needs that
each live entity has one row; the row pushed for a new entity is new because
the allocator hands out a dead slot, which is `AllocatorExact`; a cached
transition may be followed without a look at its target because
`TransitionsExact` holds.

The first lemmas of `EcsWorldProofs` say what the helpers do: creating an archetype and caching
an edge keep the vector indexed and its other entries (`EnsureArchetype`,
`CacheEdges`); a swap-remove and a push change one archetype in a known way
(`RemoveRowVector`, `PushRowVector`); and a purely positional pair of lemmas
(`PlacedRemove`, `PlacedPush`) that a swap-remove with repair, and a push, keep
every entity where its location says. Then there is one lemma per action, both component moves sharing `MoveIInv`. Stale handles follow from
`IInv` and the fact that no step lowers the generation of an existing slot
(`GenerationsGrow`): a handle that stops being valid is of an earlier
generation from then on. `StoreImplemented` has one lemma per action
(`SpawnEffect`, `MoveEffect` and the like) that says what the action does to the
row each handle reads, hence which operation of `EcsStore` it is; the rows that
a swap-remove shifts keep their values by `ColumnsAligned`, and a handle that is
issued was not issued before because generations only grow. `FiniteOrder` shows that
the live entities stay finitely many. The proof takes generations as natural
numbers; the code wraps at 2^32.

`HostProofs` proves about `LoopSpec`, under `LoopAssumption`, for every
bound on frames, every number of motions and batches of any length:

| Theorem | Statement | Inductive invariant |
|---|---|---|
| `MotionCorrect` | `LoopSpec => []MotionShownOnce` | `MotionInv` |
| `ReleaseCorrect` | `LoopSpec => []ReleasedAtEnd` | `ReleaseInv` |
| `ReasonCorrect` | `LoopSpec => []EndsForAReason` | `ReasonInv` |
| `LoopTypesCorrect` | `LoopSpec => []LoopTypeOK` | `FlagsOK`, `BatchOK` |

Motion needs no more than that its accounts are natural numbers: each step moves
an amount from one to the next. `ReleaseInv` adds that nothing is open before the
loop starts, because opening the window may fail outside of the backend's
`finally`. `ReasonInv` adds where the frame counters stand at each place of the
loop, what the flags are while nobody has disturbed the run (with a close event
that is still in the batch), and that the headless loop has no frame that could
become pending between two others.

It proves about `AudioSpec`, under `AudioAssumption`, for every
set of sounds and tracks, every voice limit and every number of ids:

| Theorem | Statement |
|---|---|
| `ProtocolCorrect` | `AudioSpec => []ProtocolInv` |
| `TruthCorrect` | `AudioSpec => []PlaybackTruthful` |
| `DeliveryCorrect` | `AudioSpec => []EndDeliveredOnce` |
| `AccountCorrect` | `AudioSpec => []VoicesAccounted` |

The argument is layered, each invariant proved with those before it.
`ProtocolInv` ties the threads together: types, one outstanding call whose command
is the last of the channel, an id kept for an add that is not answered yet, no
two objects with one id. `TruthInv` compares each snapshot with its voice in the
three situations a voice can be in: it goes on, it was found ended or failing in
the block being mixed, or it is gone; commands are applied between blocks only,
so they never meet the second. `DeliveryInv` adds that an id an object is about
to get was never delivered an end. For `VoicesAccounted`, `CallsInv` says what
the remaining calls of a method are about (a stop is followed by its close, a
control is about a playback its object still has) and that a thread that hears
no commands has no voices; `CountInv` follows the number of voices, finite since
ids are numbers below the next one, and `AnswerInv` who answers for each. The
bound `MaxIds` is a parameter there; the code's `u64` would wrap.

`EcsClientsProofs` proves about `QuerySpec`, for every set of filters and every
bound, with the assumptions `WorldAssumption` and `QueryAssumption`:

| Theorem | Statement |
|---|---|
| `QueryInvariant` | `QuerySpec => []QueryInv` |
| `QueryTypesCorrect` | `QuerySpec => []QueryTypeOK` |
| `ArchetypeListsCorrect` | `QuerySpec => []ArchetypeCacheExact` |
| `CachedRowsCorrect` | `QuerySpec => []CachedRowsFresh` |

`QueryInv` is `IInv` with `CacheInv` and `RowInv`. The lemma that carries it is
`ArchetypesGrow`: no operation of the world changes the components of an archetype
that exists, and none adds more than one at the end. So the scan of a filter
changes only by that one (`ScanFollows`), which is what the code appends to the
cached lists. Rows need that every change of membership raises the revision and
that what does not raise it (`FieldKeeps`) moves no row.

It proves about `BarrierSpec`, with `WorldAssumption` and `BarrierAssumption`, for
every length of the buffer:

| Theorem | Statement |
|---|---|
| `BarrierInvariant` | `BarrierSpec => []BarrierInv` |
| `BarrierTypesCorrect` | `BarrierSpec => []BarrierTypeOK` |
| `BarrierCorrect` | `BarrierSpec => []AllOrNothing` |

The preflight and the loop never look at the same thing: one works on an overlay
of component sets, the other on archetypes and rows. `Meant` is what the commands
mean, one after the other, for the component sets there were. `ValidIsLegal`
shows that the overlay agrees with it after every command, so each command of a
valid buffer is `Legal` where the ones before it leave the entities. `LoopInv`
then says that the commands taken have done what they mean (`Applied`): with
`LegalSucceeds` the next one cannot fail, with the effects of the world's
operations (`SpawnKeys`, `OtherKeys`) it does what it means (`AppliedStep`). New
entities are counted by their component sets; they are not among the old ones
because their handles were not issued before.

`EcsChangesProofs` proves about `ChangeSpec`, with `WorldAssumption` and
`ChangesAssumption` (among it that there are finitely many components, as a schema
registry has):

| Theorem | Statement |
|---|---|
| `ChangeInvariant` | `ChangeSpec => []ChangeInv` |
| `JournalTypesCorrect` | `ChangeSpec => []JournalTypeOK` |
| `FiltersCorrect` | `ChangeSpec => []FiltersFitStore` |
| `ChangesCorrect` | `ChangeSpec => []NoChangeMissed` |
| `MatchesCorrect` | `ChangeSpec => MatchesHold` |

`Fits` relates the numbers of one entry to what the entity has now and had when
the epoch began. `FitInv` says it of every live entity and component; the
lemmas show that one mark of each kind keeps it (`MarkFits`), that an operation
marks the components it touches and no others (`OthersFit`), and what a batch of
rows under one summary writes and marks (`RowsEffect`, `SummariseIs`). The effect
of the other operations on the store is that of `EcsWorldProofs`.

`EcsEventsProofs` proves about `EventsSpec`, under `EventsAssumption`, for every
set of event types, every capacity and every retention:

| Theorem | Statement |
|---|---|
| `EventsInvariant` | `EventsSpec => []EventsInv` |
| `EventTypesCorrect` | `EventsSpec => []EventsTypeOK` |
| `RingsCorrect` | `EventsSpec => []RingsExact` |
| `CountersCorrect` | `EventsSpec => []CountersBalance` |
| `ReadersCorrect` | `EventsSpec => []ReadersExactlyOnce` |
| `NextPassCorrect` | `EventsSpec => NextPassSees` |

`RingsExact` selects from the log what neither was evicted nor has expired, by a
function whose value would have to be followed through every step. `RingsInv`
says the same with an index: beyond it the log is the ring, and the records up to
it are those that are lost or behind the horizon; `RingIsSelected` and
`RingIsSuffix` lead back. Every way a ring shrinks takes from its front
(`RingShrinks`, `ShrinkStep`), also where the code filters by frame, since frames
never fall along a ring. `GoneIs` then says what left, and with `CountSplit` the
counters balance: records are counted by their places in the log. Which records
survive an eviction is a set closed downwards among the newest, and such a set of
n numbers is an interval (`DownClosed`, by pigeonhole).

`OrderLemmas` proves of `Orders` that the enumeration of a finite set under a
strict total order lists each element once and in order (`EnumerationLists`),
that it is the only such sequence (`ListsUnique`), that an element above all
others is appended (`InOrderAppends`), and that what every step of an
`Accumulated` keeps holds of its result (`AccumulatedKeeps`). Of the sorts of
`GroupSort` it proves, for any number of groups and systems:

| Theorem | Statement |
|---|---|
| `ReachabilityCloses` | the edges closed under composition group by group are the least transitive relation that has them |
| `SystemOrderSorted` | a schedulable list of systems is sorted: each system once, and none before one that must precede it |
| `SortCompletes` | the sort places every node exactly when the links have no cycle |
| `SchedulableMaps` | what can be sorted still can with fewer systems and with groups that are numbered otherwise, if every edge and membership left is the image of one there was |

The sort is a recursive function; it is unfolded with `FiniteNatInductiveDef`
and followed by a least counterexample instead of an induction
(`TopologicalPlaces`). The order of the ready list must be total for its least
element to exist, which is why the stable keys with the registration number are
shown to be a strict total order (`LexTotal`, `SystemsOrdered`).
"No cycle" is that some transitive relation without a loop has all the links
(`Acyclic`): as long as a node is left one of them comes after no other
(`FirstExists`, by counting the nodes ahead of each), so the sort goes on
(`PlaceNextGrows`); and a sort that came to the end gives such a relation. Said
so, it carries over to any links that a function takes to these (`AcyclicMaps`),
and so do paths (`ReachabilityMaps`): that is `SchedulableMaps`.
`AccumulatedKeeps` is used in the same way: what is kept and the step are its
parameters, and it holds because a first stage that broke what is kept would have
a predecessor.

`SystemScheduleProofs` proves about `ScheduleSpec` under `ScheduleAssumption`, for
every set of registrations and of group graphs:

| Theorem | Statement |
|---|---|
| `ScheduleInvariant` | `ScheduleSpec => []ScheduleInv` |
| `ScheduleTypesCorrect` | `ScheduleSpec => []ScheduleTypeOK` |
| `HooksCorrect` | `ScheduleSpec => []HooksSurround` |
| `OrderedCorrect` | `ScheduleSpec => []OrderedGroupsDisjoint` |
| `ClosedCorrect` | `ScheduleSpec => []GroupsClosed` |
| `EligibleCorrect` | `ScheduleSpec => []RunsEligibleOnce` |

In `ScheduleInv`, `PlaceInv` has each system in one place (to come, collected, to
be settled, done), `CountInv` makes `remaining` the number of members not yet
done, and `HookInv` ties the active groups to the hooks in `trace`: together they
say that a group closes exactly when its last member is done. `RunInv` says that
the frame has come to a member of every group that was opened. When a group opens
after another, the sorted schedule and these counts therefore exclude that it
should have come before, or that the other, having to come before, is still open;
that is what each append to the trace has to keep (`AppendSurrounded`,
`AppendApart`). `WantInv` follows the answers of the conditions to the runs they
lead to.

`SystemRegistryProofs` proves about `RegistrySpec` under `RegistryAssumption`, for
every set of requests, group calls and orders and for every bound:

| Theorem | Statement |
|---|---|
| `RegistryInvariant` | `RegistrySpec => []RegistryInv` |
| `CacheCorrect` | `RegistrySpec => []CacheExact` |
| `HandlesCorrect` | `RegistrySpec => []HandlesHeld` |
| `SortsMaps` | a sort that succeeds still does with fewer systems, in another order and with more groups |
| `SchedulingInvariant` | `RegistrySpec => []SchedulingInv` |
| `SchedulableCorrect` | `RegistrySpec => []RegisteredSchedulable` |

`CacheInv` is `CacheExact` in a form that one handle changes in one place: the
owners of an address and the references of a key are the sizes of the sets of
handles that lead to it, also where there is none. `InsertKeeps` and `ReleaseKeeps`
show it of one more handle and of one less, with the case of the last reader that
frees a plan and an index; a handle is new because the next one is above all others,
an address because there are more of them than plans (`FreeAddressIsFree`, by
counting).

`HandlesHeld` is not inductive, because a step is not of one system. While a
batch is compiled the plans of its first systems are replaced and the last one may
fail, and a system removed in the frame that still runs it is compiled with the
others. `HeldInv` therefore speaks of every system there ever was, gives two of
them no handle in common, and ties the schema a system remembers to that of the
plan it holds; which systems are registered, which of them must account for
a live handle and which handles are lost are its parameters. It is shown of the
compilation of one system (`CompileKeeps`: the plan it had is released first,
what a removed system compiles is lost), then by `AccumulatedKeeps` of a batch
(`RefreshedKeeps`), then of a system that is added, released or forgotten
(`HeldExtended`, `HeldReleased`, `HeldForgotten`). Two things make the lists of the
registry matter for that: a sort returns the systems it was given, each once
(`SortPermutes`, from `TopologicalPlaces`), so a frame and a batch name no system
twice (`BatchIs`); and the graph that is sorted is built from lists of names that are
sequences whatever was configured (`NamesListed`). A plan that the executor refuses
would be one of another schema; `RunBatchInv` and `RunChildInv` show that only a
removed system, which nothing brings up to date, can have one.

`RegisteredSchedulable` asks more than that a sort which was accepted is accepted
again. Between two calls of `add_system` groups appear (a call that fails has
created its groups), systems disappear, and the list is in the order of the last
sort. The graph is built anew each time: its groups have other numbers, and a
reference may resolve to another group than it did, because the system it named
is gone or because its name has become that of a group. `SchedulingInv` adds that
every group which a system or an order names is configured and that names are
distinct. Then no edge depends on the edges before it (`WithEdgeBuilds`: a
system's name becomes a group only by being configured), so the graph is the set
of the declared edges (`GraphIs`, with `DeclaredHas` for where they come from).
`Origin` takes every group of the new graph to the one its name stood for in the
old one; `TargetMaps` shows that it takes the new edge of a declaration to the old
edge of the same declaration, and that a reference which could be resolved still
can. What follows is `SchedulableMaps`. The three cases of the invariant are
instances of `SortsMaps`: groups that stay after a failed call (`GroupsStay`), the
new order of an accepted one (`AddAcceptedSchedules`), a removal
(`RemoveSystemSchedules`).

With this every invariant that a run checks is proved. Out of this prover's reach,
and left to TLC: the liveness properties under fairness (`PendingFrameDrawn`,
`LoopEnds`, `CommandsSettled`) and anything with `ENABLED`.

## What is not modelled, and the plan

Left out: arithmetic on field values, spatial indexes, plan interpretation,
schemas and conversion of values, rendering, the GPU, images and fonts, the
synthesiser, the accelerator. They make up most of the code's lines and compute
data from data: their state is private to one call, what can go wrong is
arithmetic over floating-point numbers and pixels, and a model would repeat the
function it is about. The repository's tests compare their results with
references. Assets are loaded and awaited before a sketch draws. The plugin
registry is a list of hooks, whose calls are inputs of `SystemSchedule`. The
waves of `scheduler.rs` are computed afresh by one function of a list of systems
and keep no state.

Left out of the modelled parts: several fields per component, typed columns and
their dense slices, resources, payload schemas of events, the growth of the
journal's stamp tables, most diagnostics and their reset, and the wrap-around of
counters;
`enabled` and `run_if` in the registry (any system may be skipped there);
prepared plans and input states of plans; keys, touches, resizes and scrolling
(kept as motion is); positions in a sound, and with them seeking and a sound that
is played again at its end; rolling tracks, which do not end.

Simplified in the modelled parts, without an effect on what the properties say:
the components of one spawn or despawn share a revision, where the journal takes
consecutive ones (`RecordSpawn`, `RecordDespawn`; no query looks in
between); the frames of the event rings only go up, as the world's do (`SetFrame`); a
child that cannot be compiled is one way in which its sequence raises
(`LeavePython`: the system has no handle before nor after); a control value that is
refused, or a synth that cannot seek, is an error to the caller and changes nothing
(`ApplyUpdate`); and `join` gives up its playback together with its last look at
the snapshot, before the close call instead of after it (`JoinReturns`).

Next, in this order:

1. `build_deterministic_waves` against its definition over all small inputs.
2. The composition of a frame of `SketchLoop` with `SystemSchedule` and
   `SystemRegistry`.

## Running

```
tlasany EcsWorld.tla
tlc -workers 2 -config WorldSlots.cfg MCEcsWorld
tlapm EcsWorldProofs.tla
tlapm EcsClientsProofs.tla
tlapm EcsChangesProofs.tla
tlapm OrderLemmas.tla
tlapm EcsEventsProofs.tla
tlapm SystemScheduleProofs.tla
tlapm SystemRegistryProofs.tla
tlapm HostProofs.tla
```

`PROJECT.json` lists the runs with their modules and configurations, the source
lines each definition models, the hazards, the mutants and the theorems.
