------------------------------ MODULE EcsWorld ------------------------------
(***************************************************************************)
(* The storage core of crates/gummy_ecs: the generational entity allocator,*)
(* archetypes with one column per component, the dense entity -> row       *)
(* location index, cached archetype transitions, per-slot tags and the     *)
(* ordered set of live entities.  One action per mutating method of World. *)
(*                                                                         *)
(* A method that returns Err leaves the world as it was, so a refused call *)
(* is a stuttering step.  Rows and archetypes are numbered from 1 here and *)
(* from 0 in the code; archetype number 0 means "none".                    *)
(***************************************************************************)
EXTENDS Naturals, Sequences, FiniteSets

CONSTANTS
  Components,     \* registered component schemas
  Tags,           \* tag names
  Values,         \* values of a component (all its fields taken together)
  Default,        \* what push_default_row writes
  MaxSlots,       \* bound: slots the allocator may ever create
  MaxGeneration   \* bound: the u32 generation is not followed past this

ASSUME WorldAssumption ==
  /\ Default \in Values
  /\ MaxSlots \in Nat
  /\ MaxGeneration \in Nat

VARIABLES
  slotCount,    \* generations.len()
  generations,  \* per slot: the generation a handle must carry
  alive,        \* per slot: whether an entity lives in it
  free,         \* stack of slots to reuse; the last element is popped first
  arch,         \* the archetypes, in creation order
  loc,          \* per slot: DenseEntityLocations
  slotTags,     \* per slot: EntityTags
  order         \* entity_order, the set of entities a query walks

allocVars == <<slotCount, generations, alive, free>>
worldVars == <<slotCount, generations, alive, free, arch, loc, slotTags, order>>

Slots == 0 .. (MaxSlots - 1)

Entity == [index : Slots, generation : Nat]

Component(K) == [K -> Values]

NoEdges == [c \in Components |-> 0]

NoLocation == [arch |-> 0, row |-> 0, generation |-> 0]

-----------------------------------------------------------------------------
(* Entity allocator and location index.                                    *)

\* EntityAllocator::validate: the slot exists, is alive and has this generation.
ValidHandle(e) ==
  /\ e.index < slotCount
  /\ alive[e.index]
  /\ generations[e.index] = e.generation

\* World::location: validate, then the generation-checked location entry.
Located(e) ==
  /\ ValidHandle(e)
  /\ loc[e.index].arch # 0
  /\ loc[e.index].generation = e.generation

\* The handle EntityAllocator::spawn returns.
NextHandle ==
  IF free # <<>>
    THEN [index |-> free[Len(free)], generation |-> generations[free[Len(free)]]]
    ELSE [index |-> slotCount, generation |-> 0]

\* Mutant: the slot taken from the free stack stays on it.
SpawnKeepsFreeSlot ==
  LET e == NextHandle IN
  /\ free = <<>> => slotCount < MaxSlots
  /\ alive' = [alive EXCEPT ![e.index] = TRUE]
  /\ slotCount' = IF free = <<>> THEN slotCount + 1 ELSE slotCount
  /\ UNCHANGED <<generations, free>>

\* Mutant: a reused slot is counted as a new one.
SpawnAlwaysGrows ==
  LET e == NextHandle IN
  /\ free = <<>> => slotCount < MaxSlots
  /\ alive' = [alive EXCEPT ![e.index] = TRUE]
  /\ slotCount' = slotCount + 1
  /\ free' = IF free = <<>> THEN free ELSE SubSeq(free, 1, Len(free) - 1)
  /\ UNCHANGED generations

AllocatorSpawn ==
  LET e == NextHandle IN
  /\ free = <<>> => slotCount < MaxSlots
  /\ alive' = [alive EXCEPT ![e.index] = TRUE]
  /\ IF free # <<>>
       THEN /\ free' = SubSeq(free, 1, Len(free) - 1)
            /\ UNCHANGED <<slotCount, generations>>
       ELSE /\ slotCount' = slotCount + 1
            /\ generations' = [generations EXCEPT ![e.index] = 0]
            /\ UNCHANGED free

\* Mutant: the slot is freed under the generation it had.
DespawnKeepsGeneration(e) ==
  /\ alive' = [alive EXCEPT ![e.index] = FALSE]
  /\ free' = Append(free, e.index)
  /\ UNCHANGED <<slotCount, generations>>

AllocatorDespawn(e) ==
  /\ generations[e.index] < MaxGeneration
  /\ alive' = [alive EXCEPT ![e.index] = FALSE]
  /\ generations' = [generations EXCEPT ![e.index] = @ + 1]
  /\ free' = Append(free, e.index)
  /\ UNCHANGED slotCount

-----------------------------------------------------------------------------
(* Archetypes: a key, the entities of its rows, a column per component of  *)
(* the key (a component outside it has no table: <<>>) and the transition  *)
(* caches.                                                                 *)

NewArchetype(key) ==
  [key |-> key, entities |-> <<>>, columns |-> [c \in Components |-> <<>>],
   add |-> NoEdges, remove |-> NoEdges]

HasArchetype(archs, key) == \E a \in 1 .. Len(archs) : archs[a].key = key

ArchetypeOf(archs, key) == CHOOSE a \in 1 .. Len(archs) : archs[a].key = key

EnsureArchetype(archs, key) ==
  IF HasArchetype(archs, key) THEN archs ELSE Append(archs, NewArchetype(key))

\* Vec::swap_remove: the last element takes the place of the removed one.
SwapRemove(s, row) ==
  [i \in 1 .. (Len(s) - 1) |-> IF i = row THEN s[Len(s)] ELSE s[i]]

PushRow(a, e, comps) ==
  [key      |-> a.key,
   entities |-> Append(a.entities, e),
   columns  |-> [c \in Components |->
                   IF c \in a.key THEN Append(a.columns[c], comps[c])
                                  ELSE a.columns[c]],
   add      |-> a.add,
   remove   |-> a.remove]

\* Mutant: the row leaves the entity vector only.
RemoveEntityOnly(a, row) == [a EXCEPT !.entities = SwapRemove(@, row)]

RemoveRow(a, row) ==
  [key      |-> a.key,
   entities |-> SwapRemove(a.entities, row),
   columns  |-> [c \in Components |->
                   IF c \in a.key THEN SwapRemove(a.columns[c], row)
                                  ELSE a.columns[c]],
   add      |-> a.add,
   remove   |-> a.remove]

\* Mutant: every column of the target starts from its default.
DefaultedComponents(archs, source, row, target) ==
  [c \in archs[target].key |-> Default]

\* ComponentTable: one cell of a column is overwritten.
WriteCell(a, c, row, v) ==
  [key      |-> a.key,
   entities |-> a.entities,
   columns  |-> [a.columns EXCEPT ![c] = [@ EXCEPT ![row] = v]],
   add      |-> a.add,
   remove   |-> a.remove]

\* Archetype::move_row_to: columns both archetypes have move, columns only the
\* target has get a default, columns only the source has lose the row.
MovedComponents(archs, source, row, target) ==
  [c \in archs[target].key |->
     IF c \in archs[source].key THEN archs[source].columns[c][row] ELSE Default]

MoveRow(archs, source, row, target, e) ==
  LET removed == [archs EXCEPT ![source] = RemoveRow(@, row)]
  IN [removed EXCEPT ![target] =
        PushRow(@, e, MovedComponents(archs, source, row, target))]

\* Mutant: the displaced entity's location is left as it was.
LeaveSwapped(entities, a, row, where) == where

\* The last row moved into the hole: its entity's location is rewritten.
RepairSwapped(entities, a, row, where) ==
  IF row < Len(entities)
    THEN LET moved == entities[Len(entities)]
         IN [where EXCEPT ![moved.index] =
               [arch |-> a, row |-> row, generation |-> moved.generation]]
    ELSE where

Place(where, e, a, row) ==
  [where EXCEPT ![e.index] =
     [arch |-> a, row |-> row, generation |-> e.generation]]

WithEdges(a, add, remove) ==
  [key |-> a.key, entities |-> a.entities, columns |-> a.columns,
   add |-> add, remove |-> remove]

\* Mutant: both edges are cached at the smaller archetype.
CacheEdgesAtOne(archs, small, c, large) ==
  [archs EXCEPT ![small] =
     WithEdges(@, [@.add EXCEPT ![c] = large], [@.remove EXCEPT ![c] = large])]

\* large has the components of small and c.
CacheEdges(archs, small, c, large) ==
  LET out == [archs EXCEPT ![small] =
                WithEdges(@, [@.add EXCEPT ![c] = large], @.remove)]
  IN [out EXCEPT ![large] =
        WithEdges(@, @.add, [@.remove EXCEPT ![c] = small])]

\* add_transition / remove_transition: the cached edge, or the archetype of the
\* new key, created if need be, with the edge cached in both directions.
AddTransition(source, c) ==
  IF arch[source].add[c] # 0
    THEN [archetypes |-> arch, target |-> arch[source].add[c]]
    ELSE LET key == arch[source].key \union {c}
             archs  == EnsureArchetype(arch, key)
             t   == ArchetypeOf(archs, key)
         IN [archetypes |-> CacheEdges(archs, source, c, t), target |-> t]

RemoveTransition(source, c) ==
  IF arch[source].remove[c] # 0
    THEN [archetypes |-> arch, target |-> arch[source].remove[c]]
    ELSE LET key == arch[source].key \ {c}
             archs  == EnsureArchetype(arch, key)
             t   == ArchetypeOf(archs, key)
         IN [archetypes |-> CacheEdges(archs, t, c, source), target |-> t]

\* move_entity_to_archetype after the transition has been resolved.
MoveEntity(e, transition) ==
  LET archs     == transition.archetypes
      target == transition.target
      source == loc[e.index].arch
      row    == loc[e.index].row
  IN /\ arch' = MoveRow(archs, source, row, target, e)
     /\ loc' = Place(RepairSwapped(archs[source].entities, source, row, loc),
                     e, target, Len(archs[target].entities) + 1)

-----------------------------------------------------------------------------
(* The mutating methods of World.                                          *)

WorldInit ==
  /\ slotCount = 0
  /\ generations = [i \in Slots |-> 0]
  /\ alive = [i \in Slots |-> FALSE]
  /\ free = <<>>
  /\ arch = <<>>
  /\ loc = [i \in Slots |-> NoLocation]
  /\ slotTags = [i \in Slots |-> {}]
  /\ order = {}

\* spawn_empty, spawn_with_defaults and each row of spawn_batch.
Spawn(comps, tags) ==
  LET e  == NextHandle
      archs == EnsureArchetype(arch, DOMAIN comps)
      a  == ArchetypeOf(archs, DOMAIN comps)
  IN /\ AllocatorSpawn
     /\ arch' = [archs EXCEPT ![a] = PushRow(@, e, comps)]
     /\ loc' = Place(loc, e, a, Len(archs[a].entities) + 1)
     /\ slotTags' = [slotTags EXCEPT ![e.index] = tags]
     /\ order' = order \union {e}

\* Mutant: the slot keeps the tags of the entity that left it.
DespawnStorageOnly(e) ==
  LET a   == loc[e.index].arch
      row == loc[e.index].row
  IN /\ Located(e)
     /\ arch' = [arch EXCEPT ![a] = RemoveRow(@, row)]
     /\ loc' = RepairSwapped(arch[a].entities, a, row,
                             [loc EXCEPT ![e.index] = NoLocation])
     /\ AllocatorDespawn(e)
     /\ order' = order \ {e}
     /\ UNCHANGED slotTags

Despawn(e) ==
  LET a   == loc[e.index].arch
      row == loc[e.index].row
  IN /\ Located(e)
     /\ arch' = [arch EXCEPT ![a] = RemoveRow(@, row)]
     /\ loc' = RepairSwapped(arch[a].entities, a, row,
                             [loc EXCEPT ![e.index] = NoLocation])
     /\ AllocatorDespawn(e)
     /\ order' = order \ {e}
     /\ slotTags' = [slotTags EXCEPT ![e.index] = {}]

AddComponent(e, c) ==
  /\ Located(e)
  /\ c \notin arch[loc[e.index].arch].key
  /\ MoveEntity(e, AddTransition(loc[e.index].arch, c))
  /\ UNCHANGED <<allocVars, slotTags, order>>

RemoveComponent(e, c) ==
  /\ Located(e)
  /\ c \in arch[loc[e.index].arch].key
  /\ MoveEntity(e, RemoveTransition(loc[e.index].arch, c))
  /\ UNCHANGED <<allocVars, slotTags, order>>

AddTag(e, t) ==
  /\ Located(e)
  /\ t \notin slotTags[e.index]
  /\ slotTags' = [slotTags EXCEPT ![e.index] = @ \union {t}]
  /\ UNCHANGED <<allocVars, arch, loc, order>>

RemoveTag(e, t) ==
  /\ Located(e)
  /\ t \in slotTags[e.index]
  /\ slotTags' = [slotTags EXCEPT ![e.index] = @ \ {t}]
  /\ UNCHANGED <<allocVars, arch, loc, order>>

SetField(e, c, v) ==
  LET a == loc[e.index].arch IN
  /\ Located(e)
  /\ c \in arch[a].key
  /\ arch' = [arch EXCEPT ![a] = WriteCell(@, c, loc[e.index].row, v)]
  /\ UNCHANGED <<allocVars, loc, slotTags, order>>

-----------------------------------------------------------------------------
WorldNext ==
  \/ \E K \in SUBSET Components, tags \in SUBSET Tags :
       \E comps \in Component(K) : Spawn(comps, tags)
  \/ \E e \in order :
       \/ Despawn(e)
       \/ \E c \in Components :
            \/ AddComponent(e, c)
            \/ RemoveComponent(e, c)
            \/ \E v \in Values : SetField(e, c, v)
       \/ \E t \in Tags : AddTag(e, t) \/ RemoveTag(e, t)

WorldSpec == WorldInit /\ [][WorldNext]_worldVars

-----------------------------------------------------------------------------
(* Properties.                                                             *)

HandleIn(i) == [index |-> i, generation |-> generations[i]]

ArchetypeType ==
  [key : SUBSET Components, entities : Seq(Entity),
   columns : [Components -> Seq(Values)],
   add : [Components -> Nat], remove : [Components -> Nat]]

\* Every vector of the storage core holds entries of its own kind, within the
\* slots the allocator has created.
TypeOK ==
  /\ slotCount \in 0 .. MaxSlots
  /\ generations \in [Slots -> Nat]
  /\ alive \in [Slots -> BOOLEAN]
  /\ free \in Seq(Slots)
  /\ arch \in Seq(ArchetypeType)
  /\ loc \in [Slots -> [arch : Nat, row : Nat, generation : Nat]]
  /\ slotTags \in [Slots -> SUBSET Tags]
  /\ order \subseteq Entity

\* The free stack holds every dead slot the allocator has created, each once:
\* a slot is never lost, and never handed out while an entity lives in it
\* (EntityAllocator::spawn and ::despawn).
AllocatorExact ==
  /\ {free[k] : k \in 1 .. Len(free)}
       = {i \in Slots : i < slotCount /\ ~alive[i]}
  /\ \A j, k \in 1 .. Len(free) : free[j] = free[k] => j = k
  /\ \A i \in Slots : i >= slotCount => ~alive[i]

\* The entities of live and the rows of the archetypes in archs are the same
\* things: where leads from each entity to its row, and back.
RowsExact(archs, where, live) ==
  /\ \A e \in live :
       LET l == where[e.index] IN
       /\ l.generation = e.generation
       /\ l.arch \in 1 .. Len(archs)
       /\ l.row \in 1 .. Len(archs[l.arch].entities)
       /\ archs[l.arch].entities[l.row] = e
  /\ \A a \in 1 .. Len(archs) : \A row \in 1 .. Len(archs[a].entities) :
       LET e == archs[a].entities[row] IN
       /\ e \in live
       /\ where[e.index].arch = a
       /\ where[e.index].row = row

\* Every live entity has one row, and its location says which: swap_remove and
\* the archetype moves repair the location of the entity they displace
\* (remove_entity_row and move_entity_to_archetype).
LocationsExact ==
  /\ \A i \in Slots : alive[i] <=> loc[i].arch # 0
  /\ RowsExact(arch, loc, order)

Aligned(a) ==
  \A c \in Components :
    Len(a.columns[c]) = IF c \in a.key THEN Len(a.entities) ELSE 0

\* All columns of an archetype have one entry per entity row, so a row number
\* means the same entity in every column (Archetype's tables and entities are
\* separate vectors, each swap-removed on its own).
ColumnsAligned == \A a \in 1 .. Len(arch) : Aligned(arch[a])

KeysUnique(archs) ==
  \A a, b \in 1 .. Len(archs) : archs[a].key = archs[b].key => a = b

EdgeExact(archs, a, c) ==
  /\ archs[a].add[c] # 0 =>
       /\ archs[a].add[c] \in 1 .. Len(archs)
       /\ c \notin archs[a].key
       /\ archs[archs[a].add[c]].key = archs[a].key \union {c}
  /\ archs[a].remove[c] # 0 =>
       /\ archs[a].remove[c] \in 1 .. Len(archs)
       /\ c \in archs[a].key
       /\ archs[archs[a].remove[c]].key = archs[a].key \ {c}

EdgesExact(archs) ==
  \A a \in 1 .. Len(archs) : \A c \in Components : EdgeExact(archs, a, c)

\* No two archetypes have one key, and a cached transition leads to the
\* archetype whose key is the source's with the component added or removed
\* (add_transition, remove_transition).
TransitionsExact == KeysUnique(arch) /\ EdgesExact(arch)

\* entity_order, which every query walks, is exactly the live entities under
\* their current handles, and a slot nobody lives in carries no tags its next
\* tenant could be found by (World::despawn, EntityTags::clear_slot).
SlotIndexesExact ==
  /\ order = {HandleIn(i) : i \in {j \in Slots : alive[j]}}
  /\ \A i \in Slots : ~alive[i] => slotTags[i] = {}

\* Handles the allocator has issued: the current generation of a live slot and
\* every earlier generation of a slot.
Issued ==
  {e \in [index : Slots, generation : 0 .. MaxGeneration] :
     /\ e.index < slotCount
     /\ \/ e.generation < generations[e.index]
        \/ e.generation = generations[e.index] /\ alive[e.index]}

\* A handle that was valid once and is no longer never becomes valid again,
\* however often its slot is reused (docs/contribute/ecs_debugging.md, "Stale
\* entity handles").
StaleStaysStale ==
  \A e \in [index : Slots, generation : 0 .. MaxGeneration] :
    [](ValidHandle(e) => [](~ValidHandle(e) => []~ValidHandle(e)))

\* The storage core implements the abstract store: whatever rows are swapped
\* and moved, each live handle keeps its own components, values and tags.
StoreOf(e) ==
  LET a == loc[e.index].arch IN
  [comps |-> [c \in arch[a].key |-> arch[a].columns[c][loc[e.index].row]],
   tags  |-> slotTags[e.index]]

Store == INSTANCE EcsStore WITH
  Handle <- [index : Slots, generation : 0 .. MaxGeneration],
  store  <- [e \in order |-> StoreOf(e)],
  issued <- Issued

ImplementsStore == Store!StoreSpec
=============================================================================
