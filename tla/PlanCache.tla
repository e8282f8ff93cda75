------------------------------ MODULE PlanCache -----------------------------
(***************************************************************************)
(* The compiled plans of a Rust world (gummy_ecs plan/cache.rs and         *)
(* world/plan_cache.rs) as operators on one record.  Handles are numbers   *)
(* that are never used twice; several handles may share one prepared plan, *)
(* which is known by its address; an address that is free is used again.   *)
(* A plan's content is what PhysicalPlan's equality compares: a record     *)
(* with the plan, the schema it was compiled for and, in keys, the spatial *)
(* indexes it reads.                                                       *)
(***************************************************************************)
EXTENDS Naturals, FiniteSets, Functions, FiniteSetsExt

EmptyCache ==
  [next      |-> 1,                   \* next_handle
   handles   |-> [h \in {} |-> 1],    \* handles: handle -> address
   prepared  |-> [a \in {} |-> 1],    \* what is at the addresses in use
   owners    |-> [a \in {} |-> 0],    \* owner_counts
   canonical |-> {},                  \* the addresses canonical has weakly
   keyRefs   |-> [k \in {} |-> 0],    \* spatial_cache_ref_counts
   indexes   |-> {}]                  \* the keys of spatial_index_cache

Count(f, x) == IF x \in DOMAIN f THEN f[x] ELSE 0

Raised(f, xs) ==
  [x \in DOMAIN f \union xs |-> Count(f, x) + (IF x \in xs THEN 1 ELSE 0)]

Without(f, xs) == [x \in DOMAIN f \ xs |-> f[x]]

\* One owner less for each of xs; what has no owner left is removed.
Lowered(f, xs) ==
  [x \in DOMAIN f \ {y \in xs : f[y] = 1} |-> f[x] - (IF x \in xs THEN 1 ELSE 0)]

FreeAddress(c) ==
  CHOOSE a \in 1 .. Cardinality(c.canonical) + Cardinality(DOMAIN c.prepared) + 1 :
    a \notin c.canonical \union DOMAIN c.prepared

\* find_equivalent: a weak reference that still leads to an equal plan.
Equivalent(c, content) ==
  {a \in c.canonical \intersect DOMAIN c.prepared : c.prepared[a] = content}

Put(f, x, v) == [y \in DOMAIN f \union {x} |-> IF y = x THEN v ELSE f[y]]

\* The address a plan is stored at: that of an equal one if there is one.
AddressFor(c, content) ==
  IF Equivalent(c, content) = {} THEN FreeAddress(c)
  ELSE CHOOSE a \in Equivalent(c, content) : TRUE

\* store_compiled_plan: insert_with_schemas, then the references of its keys.
Insert(c, content) ==
  LET a == AddressFor(c, content)
  IN [next      |-> c.next + 1,
      handles   |-> Put(c.handles, c.next, a),
      prepared  |-> Put(c.prepared, a, content),
      owners    |-> Raised(c.owners, {a}),
      canonical |-> c.canonical \union {a},
      keyRefs   |-> Raised(c.keyRefs, content.keys),
      indexes   |-> c.indexes]

\* Mutant: an index stays although its last plan is gone.
NoKeys(c, keys) == {}

\* release_spatial_cache_refs: the keys whose last reference goes.
LastKeys(c, keys) == {k \in keys : c.keyRefs[k] = 1}

\* release_compiled_plan: the handle's share of the prepared plan goes; the last
\* one frees it and takes its address out of canonical, before it can be used
\* again; the last reference to a key drops the index kept for it.
Release(c, h) ==
  IF h \notin DOMAIN c.handles THEN c
  ELSE LET a       == c.handles[h]
           handles == Without(c.handles, {h})
           keys    == c.prepared[a].keys
       IN [next      |-> c.next,
           handles   |-> handles,
           prepared  |-> Restrict(c.prepared, Range(handles)),
           owners    |-> Lowered(c.owners, {a}),
           canonical |-> {b \in c.canonical : /\ b \in DOMAIN c.prepared
                                              /\ ~(b = a /\ c.owners[a] = 1)},
           keyRefs   |-> Lowered(c.keyRefs, keys),
           indexes   |-> c.indexes \ LastKeys(c, keys)]

ContentOf(c, h) == c.prepared[c.handles[h]]

\* An execution, or the warm-up of a new plan, leaves the indexes it has built.
Indexed(c, hs) ==
  [next      |-> c.next,
   handles   |-> c.handles,
   prepared  |-> c.prepared,
   owners    |-> c.owners,
   canonical |-> c.canonical,
   keyRefs   |-> c.keyRefs,
   indexes   |-> c.indexes \union UNION {ContentOf(c, h).keys : h \in hs}]
=============================================================================
