----------------------------- MODULE EcsQueries -----------------------------
(***************************************************************************)
(* The query caches of gummy_ecs on top of the storage core.  A filter's   *)
(* matching archetypes are computed once and then only appended to when an *)
(* archetype appears; an execution query's rows and locations are reused   *)
(* while structural_revision has not moved.  Neither cache is ever emptied,*)
(* so both must follow every structural change exactly.                    *)
(***************************************************************************)
EXTENDS EcsWorld, SequencesExt, Orders

CONSTANTS
  Filters,      \* [with, without : SUBSET Components, tagged, untagged : SUBSET Tags]
  MaxRevision   \* bound: structural changes followed

ASSUME QueryAssumption ==
  /\ Filters \subseteq [with : SUBSET Components, without : SUBSET Components,
                        tagged : SUBSET Tags, untagged : SUBSET Tags]
  /\ MaxRevision \in Nat

VARIABLES
  revision,       \* structural_revision
  archetypeCache, \* filtered_query_cache: archetype filter -> archetype list
  rowCache        \* execution_query_cache: filter -> revision, rows, locations

cacheVars == <<archetypeCache, rowCache>>
queryVars == <<worldVars, revision, cacheVars>>

\* Filters that differ only in tags share one ArchetypeFilterKey.
ArchetypeFilter(f) == [with |-> f.with, without |-> f.without]

ArchetypeFilters == {ArchetypeFilter(f) : f \in Filters}

\* HashMap::insert
Insert(map, key, value) ==
  [k \in DOMAIN map \union {key} |-> IF k = key THEN value ELSE map[k]]

FilterMatches(af, key) == af.with \subseteq key /\ af.without \cap key = {}

\* Entities are ordered by raw(): generation in the high bits, then index.
Before(d, e) ==
  \/ d.generation < e.generation
  \/ d.generation = e.generation /\ d.index < e.index

\* collect_ordered_matches: walk entity_order, keep rows of listed archetypes.
CollectRows(f, archetypes) ==
  InOrder({e \in order : /\ loc[e.index].arch \in ToSet(archetypes)
                         /\ f.tagged \subseteq slotTags[e.index]
                         /\ f.untagged \cap slotTags[e.index] = {}},
          Before)

RowLocations(rows) ==
  [i \in 1 .. Len(rows) |->
     <<loc[rows[i].index].arch, loc[rows[i].index].row>>]

\* matching_archetypes_for_filter on a miss: scan every archetype in order.
ScanArchetypes(af) ==
  InOrder({a \in 1 .. Len(arch) : FilterMatches(af, arch[a].key)}, <)

\* Mutant: the excluded components are not looked at.
ConsiderRequired(af, cached) ==
  IF Len(arch') > Len(arch) /\ af.with \subseteq arch'[Len(arch')].key
    THEN Append(cached, Len(arch'))
    ELSE cached

\* CachedQuery::consider_archetype, once for the archetype a step may create.
ConsiderArchetype(af, cached) ==
  IF /\ Len(arch') > Len(arch)
     /\ FilterMatches(af, arch'[Len(arch')].key)
     /\ \/ cached = <<>>
        \/ cached[Len(cached)] # Len(arch')
    THEN Append(cached, Len(arch'))
    ELSE cached

\* update_query_caches_for_new_archetype
FollowArchetypes ==
  archetypeCache' =
    [af \in DOMAIN archetypeCache |-> ConsiderArchetype(af, archetypeCache[af])]

QueryInit ==
  /\ WorldInit
  /\ revision = 0
  /\ archetypeCache = [af \in {} |-> <<>>]
  /\ rowCache = [f \in {} |-> <<>>]

\* Mutant: only a change of some archetype moves the revision.
StructuralOfRows(step) ==
  /\ revision < MaxRevision
  /\ step
  /\ revision' = IF arch' = arch THEN revision ELSE revision + 1
  /\ FollowArchetypes
  /\ UNCHANGED rowCache

\* Every structural method of World ends by advancing structural_revision;
\* the ones that may create an archetype also update the query caches.
Structural(step) ==
  /\ revision < MaxRevision
  /\ step
  /\ revision' = revision + 1
  /\ FollowArchetypes
  /\ UNCHANGED rowCache

StructuralChange ==
  \/ \E K \in SUBSET Components, tags \in SUBSET Tags :
       Structural(Spawn([c \in K |-> Default], tags))
  \/ \E e \in order :
       \/ Structural(Despawn(e))
       \/ \E c \in Components :
            \/ Structural(AddComponent(e, c))
            \/ Structural(RemoveComponent(e, c))
       \/ \E t \in Tags :
            \/ Structural(AddTag(e, t))
            \/ Structural(RemoveTag(e, t))

\* set_field and its variants leave the revision alone.
FieldChange ==
  /\ \E e \in order, c \in Components, v \in Values : SetField(e, c, v)
  /\ UNCHANGED <<revision, cacheVars>>

\* Whether execution_query answers from its cache.
RowsCached(f) == f \in DOMAIN rowCache /\ rowCache[f].revision = revision

\* Mutant: the archetype list found on the way is not kept.
RowsOnlyMiss(f) ==
  LET rows == CollectRows(f, ScanArchetypes(ArchetypeFilter(f)))
  IN /\ ~RowsCached(f)
     /\ rowCache' = Insert(rowCache, f,
          [revision |-> revision, rows |-> rows,
           locations |-> RowLocations(rows)])
     /\ UNCHANGED <<worldVars, revision, archetypeCache>>

\* execution_query when no row entry of this revision is cached: the rows are
\* collected through the archetype cache and both caches keep what was found.
ExecutionQueryMiss(f) ==
  LET af         == ArchetypeFilter(f)
      archetypes == IF af \in DOMAIN archetypeCache
                      THEN archetypeCache[af] ELSE ScanArchetypes(af)
      rows       == CollectRows(f, archetypes)
  IN /\ ~RowsCached(f)
     /\ archetypeCache' = Insert(archetypeCache, af, archetypes)
     /\ rowCache' = Insert(rowCache, f,
          [revision |-> revision, rows |-> rows,
           locations |-> RowLocations(rows)])
     /\ UNCHANGED <<worldVars, revision>>

QueryNext ==
  \/ StructuralChange
  \/ FieldChange
  \/ \E f \in Filters : ExecutionQueryMiss(f)

QuerySpec == QueryInit /\ [][QueryNext]_queryVars

-----------------------------------------------------------------------------
(* Properties.                                                             *)

\* The caches hold what they are declared to, and rows are only ever cached
\* together with the archetype list they were collected through.
QueryTypeOK ==
  /\ TypeOK
  /\ revision \in 0 .. MaxRevision
  /\ DOMAIN archetypeCache \subseteq ArchetypeFilters
  /\ \A af \in DOMAIN archetypeCache :
       archetypeCache[af] \in Seq(1 .. Len(arch))
  /\ DOMAIN rowCache \subseteq Filters
  /\ \A f \in DOMAIN rowCache :
       /\ rowCache[f].revision \in 0 .. revision
       /\ rowCache[f].rows \in Seq(Entity)
       /\ ArchetypeFilter(f) \in DOMAIN archetypeCache

\* A cached archetype list, though only ever appended to, is always the list a
\* fresh scan would give: every matching archetype once, in creation order.
ArchetypeCacheExact ==
  \A af \in DOMAIN archetypeCache : archetypeCache[af] = ScanArchetypes(af)

\* What a filter means, with no cache in it.
Satisfies(e, f) ==
  /\ f.with \subseteq DOMAIN StoreOf(e).comps
  /\ f.without \cap DOMAIN StoreOf(e).comps = {}
  /\ f.tagged \subseteq slotTags[e.index]
  /\ f.untagged \cap slotTags[e.index] = {}

\* Rows cached at the current revision are what execution_query may return
\* without looking at the world: they are exactly the live entities the filter
\* selects, in handle order, at the places those entities are now.
CachedRowsFresh ==
  \A f \in Filters :
    RowsCached(f) =>
      LET rows == rowCache[f].rows IN
      /\ ToSet(rows) = {e \in order : Satisfies(e, f)}
      /\ \A i, j \in 1 .. Len(rows) : i < j => Before(rows[i], rows[j])
      /\ \A i \in 1 .. Len(rows) :
           LET l == rowCache[f].locations[i] IN
           arch[l[1]].entities[l[2]] = rows[i]
=============================================================================
