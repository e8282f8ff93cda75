------------------------ MODULE SystemRegistryProofs ------------------------
(***************************************************************************)
(* Theorems about SystemRegistry and PlanCache, for any requests, calls    *)
(* and bounds: the counts behind the plan handles are exact, every handle  *)
(* of the Rust cache belongs to the system that holds it, and what is      *)
(* registered can be sorted.                                               *)
(***************************************************************************)
EXTENDS SystemRegistry, OrderLemmas

-----------------------------------------------------------------------------
(* The plan cache.                                                         *)

HandlesAt(c, a) == {h \in DOMAIN c.handles : c.handles[h] = a}

Readers(c, k) == {h \in DOMAIN c.handles : k \in ContentOf(c, h).keys}

\* Plans are at the addresses that handles lead to, equal ones at one address.
PlansInv(c) ==
  /\ c.next \in Nat /\ c.next >= 1
  /\ DOMAIN c.handles \subseteq 1 .. (c.next - 1)
  /\ DOMAIN c.prepared = {c.handles[h] : h \in DOMAIN c.handles}
  /\ \A a, b \in DOMAIN c.prepared : c.prepared[a] = c.prepared[b] => a = b
  /\ c.canonical = DOMAIN c.prepared

\* Owners and references are counted.
CountsInv(c) ==
  /\ DOMAIN c.owners = DOMAIN c.prepared
  /\ \A a : Count(c.owners, a) = Cardinality(HandlesAt(c, a))
  /\ \A k : k \in DOMAIN c.keyRefs <=> Readers(c, k) # {}
  /\ \A k : Count(c.keyRefs, k) = Cardinality(Readers(c, k))
  /\ c.indexes \subseteq DOMAIN c.keyRefs

CacheInv(c) == PlansInv(c) /\ CountsInv(c)

\* There are finitely many handles, of one address or one key.
LEMMA HandlesFinite ==
  ASSUME NEW c, PlansInv(c)
  PROVE  /\ IsFiniteSet(DOMAIN c.handles)
         /\ \A a : IsFiniteSet(HandlesAt(c, a)) /\ IsFiniteSet(Readers(c, a))
<1>1. IsFiniteSet(DOMAIN c.handles)
  <2>1. PICK n : n = c.next - 1
    OBVIOUS
  <2>2. n \in Int /\ DOMAIN c.handles \in SUBSET (1 .. n)
    BY <2>1 DEF PlansInv
  <2>3. IsFiniteSet(1 .. n)
    BY <2>2, FS_Interval
  <2> QED
    BY <2>2, <2>3, FS_Subset
<1>2. \A a : /\ HandlesAt(c, a) \in SUBSET DOMAIN c.handles
             /\ Readers(c, a) \in SUBSET DOMAIN c.handles
  BY DEF HandlesAt, Readers
<1> QED
  BY <1>1, <1>2, FS_Subset

\* There is an address that no plan is at.
LEMMA FreeAddressIsFree ==
  ASSUME NEW c, PlansInv(c)
  PROVE  FreeAddress(c) \notin DOMAIN c.prepared
<1>1. PICK used : used = DOMAIN c.prepared
  OBVIOUS
<1>2. IsFiniteSet(used)
  <2>1. used = {c.handles[h] : h \in DOMAIN c.handles}
    BY <1>1 DEF PlansInv
  <2>2. PICK f : f = [h \in DOMAIN c.handles |-> c.handles[h]]
    OBVIOUS
  <2>3. f \in Surjection(DOMAIN c.handles, used)
    BY <2>1, <2>2 DEF Surjection
  <2> QED
    BY <2>3, HandlesFinite, FS_Surjection
<1>3. PICK n : n = Cardinality(used)
  OBVIOUS
<1>4. n \in Nat
  BY <1>2, <1>3, FS_CardinalityType
<1>5. PICK m : m = n + n + 1
  OBVIOUS
<1>6. \E a \in 1 .. m : a \notin used
  <2> SUFFICES ASSUME 1 .. m \subseteq used PROVE FALSE
    OBVIOUS
  <2>1. m \in Nat /\ 1 <= m
    BY <1>4, <1>5
  <2>2. Cardinality(1 .. m) = m
    BY <2>1, FS_Interval
  <2>3. (1 .. m) \in SUBSET used
    OBVIOUS
  <2>4. m <= n
    BY <1>2, <1>3, <2>2, <2>3, FS_Subset
  <2> QED
    BY <1>4, <1>5, <2>4
<1>7. c.canonical = used /\ used \union used = used
  BY <1>1 DEF PlansInv
<1>8. FreeAddress(c) = CHOOSE a \in 1 .. m : a \notin used
  BY <1>1, <1>3, <1>5, <1>7 DEF FreeAddress
<1> QED
  BY <1>1, <1>6, <1>8

\* Where a plan is stored: no other address has an equal one
\* (PhysicalPlanCache::insert_with_schemas).
LEMMA AddressIs ==
  ASSUME NEW c, PlansInv(c), NEW content
  PROVE  LET a == AddressFor(c, content) IN
         /\ a \in DOMAIN c.prepared => c.prepared[a] = content
         /\ \A b \in DOMAIN c.prepared : c.prepared[b] = content => b = a
<1>1. PICK a : a = AddressFor(c, content)
  OBVIOUS
<1>2. Equivalent(c, content) = {b \in DOMAIN c.prepared : c.prepared[b] = content}
  BY DEF Equivalent, PlansInv
<1>3. CASE Equivalent(c, content) = {}
  BY <1>1, <1>2, <1>3, FreeAddressIsFree DEF AddressFor
<1>4. CASE Equivalent(c, content) # {}
  <2>1. a \in Equivalent(c, content)
    BY <1>1, <1>4 DEF AddressFor
  <2>2. \A b \in DOMAIN c.prepared : c.prepared[b] = content => b = a
    BY <1>2, <2>1 DEF PlansInv
  <2> QED
    BY <1>1, <1>2, <2>1, <2>2
<1> QED
  BY <1>3, <1>4

\* i is c with one more handle, which leads to content at address a.
Inserted(i, c, content, a) ==
  /\ i.next = c.next + 1 /\ c.next \notin DOMAIN c.handles
  /\ DOMAIN i.handles = DOMAIN c.handles \union {c.next}
  /\ i.handles[c.next] = a
  /\ \A h \in DOMAIN c.handles : i.handles[h] = c.handles[h]
  /\ DOMAIN i.prepared = DOMAIN c.prepared \union {a}
  /\ i.prepared[a] = content
  /\ \A b \in DOMAIN c.prepared : i.prepared[b] = c.prepared[b]
  /\ DOMAIN i.owners = DOMAIN c.owners \union {a}
  /\ \A x : Count(i.owners, x) = IF x = a THEN Count(c.owners, x) + 1
                                ELSE IF x \in DOMAIN c.owners THEN Count(c.owners, x) + 0
                                ELSE 0
  /\ i.canonical = c.canonical \union {a}
  /\ DOMAIN i.keyRefs = DOMAIN c.keyRefs \union content.keys
  /\ \A k : Count(i.keyRefs, k) = IF k \in content.keys THEN Count(c.keyRefs, k) + 1
                                 ELSE IF k \in DOMAIN c.keyRefs
                                   THEN Count(c.keyRefs, k) + 0 ELSE 0
  /\ i.indexes = c.indexes
  /\ ContentOf(i, c.next) = content
  /\ \A h \in DOMAIN c.handles : ContentOf(i, h) = ContentOf(c, h)

\* What store_compiled_plan makes of the cache.
LEMMA InsertIs ==
  ASSUME NEW c, PlansInv(c), NEW content, NEW i, i = Insert(c, content),
         NEW a, a = AddressFor(c, content)
  PROVE  Inserted(i, c, content, a)
<1>1. i = Insert(c, content) /\ a = AddressFor(c, content)
  OBVIOUS
<1>2. /\ i.next = c.next + 1
      /\ i.handles = Put(c.handles, c.next, a)
      /\ i.prepared = Put(c.prepared, a, content)
      /\ i.canonical = c.canonical \union {a}
      /\ i.indexes = c.indexes
  BY <1>1 DEF Insert
<1>9. /\ DOMAIN i.owners = DOMAIN c.owners \union {a}
      /\ \A x : Count(i.owners, x) = IF x = a THEN Count(c.owners, x) + 1
                                    ELSE IF x \in DOMAIN c.owners THEN Count(c.owners, x) + 0
                                    ELSE 0
  <2>1. i.owners = [x \in DOMAIN c.owners \union {a} |->
                      Count(c.owners, x) + (IF x \in {a} THEN 1 ELSE 0)]
    BY <1>1 DEF Insert, Raised
  <2> QED
    BY <2>1 DEF Count
<1>10. /\ DOMAIN i.keyRefs = DOMAIN c.keyRefs \union content.keys
       /\ \A k : Count(i.keyRefs, k) = IF k \in content.keys THEN Count(c.keyRefs, k) + 1
                                      ELSE IF k \in DOMAIN c.keyRefs
                                        THEN Count(c.keyRefs, k) + 0 ELSE 0
  <2>1. i.keyRefs = [x \in DOMAIN c.keyRefs \union content.keys |->
                       Count(c.keyRefs, x) + (IF x \in content.keys THEN 1 ELSE 0)]
    BY <1>1 DEF Insert, Raised
  <2> QED
    BY <2>1 DEF Count
<1>3. c.next \notin DOMAIN c.handles
  BY DEF PlansInv
<1>4. /\ DOMAIN i.handles = DOMAIN c.handles \union {c.next}
      /\ i.handles[c.next] = a
      /\ \A h \in DOMAIN c.handles : i.handles[h] = c.handles[h]
  BY <1>2, <1>3 DEF Put
<1>5. a \in DOMAIN c.prepared => c.prepared[a] = content
  BY <1>1, AddressIs
<1>6. /\ DOMAIN i.prepared = DOMAIN c.prepared \union {a}
      /\ i.prepared[a] = content
      /\ \A b \in DOMAIN c.prepared : i.prepared[b] = c.prepared[b]
  BY <1>2, <1>5 DEF Put
<1>7. \A h \in DOMAIN c.handles : c.handles[h] \in DOMAIN c.prepared
  BY DEF PlansInv
<1>8. /\ ContentOf(i, c.next) = content
      /\ \A h \in DOMAIN c.handles : ContentOf(i, h) = ContentOf(c, h)
  BY <1>4, <1>6, <1>7 DEF ContentOf
<1> QED
  BY <1>1, <1>2, <1>3, <1>4, <1>6, <1>8, <1>9, <1>10 DEF Inserted

\* A compiled plan is stored with its counts (store_compiled_plan).
LEMMA InsertKeeps ==
  ASSUME NEW c, CacheInv(c), NEW content
  PROVE  CacheInv(Insert(c, content))
<1>1. PICK i, a : i = Insert(c, content) /\ a = AddressFor(c, content)
  OBVIOUS
<1>2. PlansInv(c) /\ CountsInv(c)
  BY DEF CacheInv
<1>3. /\ i.next = c.next + 1 /\ c.next \notin DOMAIN c.handles
      /\ DOMAIN i.handles = DOMAIN c.handles \union {c.next}
      /\ i.handles[c.next] = a
      /\ \A h \in DOMAIN c.handles : i.handles[h] = c.handles[h]
      /\ DOMAIN i.prepared = DOMAIN c.prepared \union {a}
      /\ i.prepared[a] = content
      /\ \A b \in DOMAIN c.prepared : i.prepared[b] = c.prepared[b]
      /\ DOMAIN i.owners = DOMAIN c.owners \union {a}
      /\ \A x : Count(i.owners, x) = IF x = a THEN Count(c.owners, x) + 1
                                    ELSE IF x \in DOMAIN c.owners THEN Count(c.owners, x) + 0
                                    ELSE 0
      /\ i.canonical = c.canonical \union {a}
      /\ DOMAIN i.keyRefs = DOMAIN c.keyRefs \union content.keys
      /\ \A k : Count(i.keyRefs, k) = IF k \in content.keys THEN Count(c.keyRefs, k) + 1
                                     ELSE IF k \in DOMAIN c.keyRefs
                                       THEN Count(c.keyRefs, k) + 0 ELSE 0
      /\ i.indexes = c.indexes
      /\ ContentOf(i, c.next) = content
      /\ \A h \in DOMAIN c.handles : ContentOf(i, h) = ContentOf(c, h)
  <2>1. Inserted(i, c, content, a)
    BY <1>1, <1>2, InsertIs
  <2> QED
    BY <2>1 DEF Inserted
<1> DEFINE n == c.next
<1>4. PlansInv(i)
  <2>1. n \in Nat /\ n >= 1 /\ DOMAIN c.handles \subseteq 1 .. (n - 1)
    BY <1>1, <1>2 DEF PlansInv
  <2>2. i.next \in Nat /\ i.next >= 1 /\ DOMAIN i.handles \subseteq 1 .. (i.next - 1)
    BY <1>3, <2>1
  <2>3. DOMAIN i.prepared = {i.handles[h] : h \in DOMAIN i.handles}
    <3>1. DOMAIN c.prepared = {c.handles[h] : h \in DOMAIN c.handles}
      BY <1>2 DEF PlansInv
    <3> QED
      BY <1>3, <3>1
  <2>4. \A b, d \in DOMAIN i.prepared : i.prepared[b] = i.prepared[d] => b = d
    <3>1. \A b \in DOMAIN c.prepared : c.prepared[b] = content => b = a
      BY <1>1, <1>2, AddressIs
    <3>2. \A b, d \in DOMAIN c.prepared : c.prepared[b] = c.prepared[d] => b = d
      BY <1>2 DEF PlansInv
    <3> QED
      BY <1>3, <3>1, <3>2
  <2>5. i.canonical = DOMAIN i.prepared
    BY <1>2, <1>3 DEF PlansInv
  <2> QED
    BY <2>2, <2>3, <2>4, <2>5 DEF PlansInv
<1>5. \A x : /\ HandlesAt(i, x) = IF x = a THEN HandlesAt(c, x) \union {n} ELSE HandlesAt(c, x)
             /\ n \notin HandlesAt(c, x)
  BY <1>3 DEF HandlesAt
<1>6. \A k : /\ Readers(i, k) = IF k \in content.keys THEN Readers(c, k) \union {n}
                                                       ELSE Readers(c, k)
             /\ n \notin Readers(c, k)
  BY <1>3 DEF Readers
<1>7. \A x : Cardinality(HandlesAt(i, x)) =
               IF x = a THEN Cardinality(HandlesAt(c, x)) + 1 ELSE Cardinality(HandlesAt(c, x))
  BY <1>2, <1>5, HandlesFinite, FS_AddElement
<1>8. \A k : Cardinality(Readers(i, k)) =
               IF k \in content.keys THEN Cardinality(Readers(c, k)) + 1
                                     ELSE Cardinality(Readers(c, k))
  BY <1>2, <1>6, HandlesFinite, FS_AddElement
<1>9. \A x : /\ Cardinality(HandlesAt(c, x)) \in Nat
             /\ Count(c.owners, x) = Cardinality(HandlesAt(c, x))
             /\ Cardinality(Readers(c, x)) \in Nat
             /\ Count(c.keyRefs, x) = Cardinality(Readers(c, x))
  BY <1>2, HandlesFinite, FS_CardinalityType DEF CountsInv
<1>10. \A x : /\ x \notin DOMAIN c.owners => Count(c.owners, x) = 0
              /\ x \notin DOMAIN c.keyRefs => Count(c.keyRefs, x) = 0
  BY DEF Count
<1>11. DOMAIN i.owners = DOMAIN i.prepared
  BY <1>2, <1>3 DEF CountsInv
<1>12. \A x : Count(i.owners, x) = Cardinality(HandlesAt(i, x))
  BY <1>3, <1>7, <1>9, <1>10
<1>13. \A k : Count(i.keyRefs, k) = Cardinality(Readers(i, k))
  BY <1>3, <1>8, <1>9, <1>10
<1>14. DOMAIN i.keyRefs = DOMAIN c.keyRefs \union content.keys
  BY <1>3
<1>15. \A k : k \in DOMAIN i.keyRefs <=> Readers(i, k) # {}
  BY <1>2, <1>6, <1>14 DEF CountsInv
<1>16. i.indexes \subseteq DOMAIN i.keyRefs
  BY <1>2, <1>3, <1>14 DEF CountsInv
<1> QED
  BY <1>1, <1>4, <1>11, <1>12, <1>13, <1>15, <1>16 DEF CacheInv, CountsInv

-----------------------------------------------------------------------------
(* Releasing a handle, and building indexes.                               *)

\* i is c without the handle h.
Released(i, c, h) ==
  /\ i.next = c.next
  /\ DOMAIN i.handles = DOMAIN c.handles \ {h}
  /\ \A g \in DOMAIN i.handles : i.handles[g] = c.handles[g]
  /\ DOMAIN i.prepared = {c.handles[g] : g \in DOMAIN i.handles}
  /\ \A b \in DOMAIN i.prepared : i.prepared[b] = c.prepared[b]
  /\ \A g \in DOMAIN i.handles : ContentOf(i, g) = ContentOf(c, g)

\* What release_compiled_plan does to the plans.
LEMMA ReleaseIs ==
  ASSUME NEW c, NEW h \in DOMAIN c.handles, NEW i, i = Release(c, h)
  PROVE  Released(i, c, h)
<1>1. i = Release(c, h)
  OBVIOUS
<1>2. /\ i.next = c.next
      /\ i.handles = Without(c.handles, {h})
      /\ i.prepared = Restrict(c.prepared, Range(i.handles))
  BY <1>1 DEF Release
<1>3. /\ DOMAIN i.handles = DOMAIN c.handles \ {h}
      /\ \A g \in DOMAIN i.handles : i.handles[g] = c.handles[g]
  BY <1>2 DEF Without
<1>4. Range(i.handles) = {c.handles[g] : g \in DOMAIN i.handles}
  BY <1>3 DEF Range
<1>5. /\ DOMAIN i.prepared = {c.handles[g] : g \in DOMAIN i.handles}
      /\ \A b \in DOMAIN i.prepared : i.prepared[b] = c.prepared[b]
  BY <1>2, <1>4 DEF Restrict
<1>6. \A g \in DOMAIN i.handles : ContentOf(i, g) = ContentOf(c, g)
  BY <1>3, <1>5 DEF ContentOf
<1> QED
  BY <1>2, <1>3, <1>5, <1>6 DEF Released

\* One owner less for those of xs that have one (release_spatial_cache_refs).
LEMMA LoweredCounts ==
  ASSUME NEW f, NEW xs, xs \subseteq DOMAIN f,
         \A x \in DOMAIN f : f[x] \in Nat /\ f[x] >= 1
  PROVE  /\ \A x : x \in DOMAIN Lowered(f, xs) <=> x \in DOMAIN f /\ ~(x \in xs /\ f[x] = 1)
         /\ \A x : Count(Lowered(f, xs), x) = IF x \in xs THEN Count(f, x) - 1
                                              ELSE IF x \in DOMAIN f THEN Count(f, x) - 0
                                              ELSE 0
<1>1. PICK l : l = Lowered(f, xs)
  OBVIOUS
<1>2. l = [x \in DOMAIN f \ {y \in xs : f[y] = 1} |-> f[x] - (IF x \in xs THEN 1 ELSE 0)]
  BY <1>1 DEF Lowered
<1>3. \A x : x \in DOMAIN l <=> x \in DOMAIN f /\ ~(x \in xs /\ f[x] = 1)
  BY <1>2
<1>4. \A x \in DOMAIN l : l[x] = f[x] - (IF x \in xs THEN 1 ELSE 0)
  BY <1>2
<1>5. \A x : Count(l, x) = IF x \in xs THEN Count(f, x) - 1
                           ELSE IF x \in DOMAIN f THEN Count(f, x) - 0 ELSE 0
  BY <1>3, <1>4 DEF Count
<1> QED
  BY <1>1, <1>3, <1>5

\* A released handle leaves the counts exact (release_compiled_plan).
LEMMA ReleaseKeeps ==
  ASSUME NEW c, CacheInv(c), NEW h
  PROVE  CacheInv(Release(c, h))
<1>1. CASE h \notin DOMAIN c.handles
  BY <1>1 DEF Release
<1>2. CASE h \in DOMAIN c.handles
  <2>1. PICK i, a, keys : i = Release(c, h) /\ a = c.handles[h] /\ keys = c.prepared[a].keys
    OBVIOUS
  <2>2. PlansInv(c) /\ CountsInv(c)
    BY DEF CacheInv
  <2>3. /\ i.next = c.next
        /\ DOMAIN i.handles = DOMAIN c.handles \ {h}
        /\ \A g \in DOMAIN i.handles : i.handles[g] = c.handles[g]
        /\ DOMAIN i.prepared = {c.handles[g] : g \in DOMAIN i.handles}
        /\ \A b \in DOMAIN i.prepared : i.prepared[b] = c.prepared[b]
        /\ \A g \in DOMAIN i.handles : ContentOf(i, g) = ContentOf(c, g)
    <3>1. Released(i, c, h)
      BY <1>2, <2>1, ReleaseIs
    <3> QED
      BY <3>1 DEF Released
  <2>4. /\ i.owners = Lowered(c.owners, {a})
        /\ i.canonical = {b \in c.canonical
                            : b \in DOMAIN c.prepared /\ ~(b = a /\ c.owners[a] = 1)}
        /\ i.keyRefs = Lowered(c.keyRefs, keys)
        /\ i.indexes = c.indexes \ LastKeys(c, keys)
    BY <1>2, <2>1 DEF Release
  <2>5. ContentOf(c, h).keys = keys
    BY <2>1 DEF ContentOf
  <2>6. \A x : /\ HandlesAt(i, x) = IF x = a THEN HandlesAt(c, x) \ {h} ELSE HandlesAt(c, x)
               /\ h \in HandlesAt(c, x) <=> x = a
    BY <1>2, <2>1, <2>3 DEF HandlesAt
  <2>7. \A k : /\ Readers(i, k) = IF k \in keys THEN Readers(c, k) \ {h} ELSE Readers(c, k)
               /\ h \in Readers(c, k) <=> k \in keys
    BY <1>2, <2>3, <2>5 DEF Readers
  <2>8. \A x : /\ Cardinality(HandlesAt(c, x)) \in Nat
               /\ Count(c.owners, x) = Cardinality(HandlesAt(c, x))
               /\ Cardinality(Readers(c, x)) \in Nat
               /\ Count(c.keyRefs, x) = Cardinality(Readers(c, x))
    BY <2>2, HandlesFinite, FS_CardinalityType DEF CountsInv
  <2>9. \A x : /\ Cardinality(HandlesAt(i, x)) =
                    IF x = a THEN Cardinality(HandlesAt(c, x)) - 1 ELSE Cardinality(HandlesAt(c, x))
               /\ Cardinality(Readers(i, x)) =
                    IF x \in keys THEN Cardinality(Readers(c, x)) - 1
                    ELSE Cardinality(Readers(c, x))
    BY <2>2, <2>6, <2>7, HandlesFinite, FS_RemoveElement
  <2>10. \A x : /\ HandlesAt(c, x) = {} <=> Cardinality(HandlesAt(c, x)) = 0
                /\ Readers(c, x) = {} <=> Cardinality(Readers(c, x)) = 0
    BY <2>2, HandlesFinite, FS_EmptySet
  <2>11. \A x : x \in DOMAIN c.owners <=> HandlesAt(c, x) # {}
    BY <2>2 DEF PlansInv, CountsInv, HandlesAt
  <2>12. \A x \in DOMAIN c.owners : c.owners[x] \in Nat /\ c.owners[x] >= 1
    BY <2>8, <2>10, <2>11 DEF Count
  <2>13. \A x : x \in DOMAIN c.keyRefs <=> Readers(c, x) # {}
    BY <2>2 DEF CountsInv
  <2>14. \A x \in DOMAIN c.keyRefs : c.keyRefs[x] \in Nat /\ c.keyRefs[x] >= 1
    BY <2>8, <2>10, <2>13 DEF Count
  <2>15. keys \subseteq DOMAIN c.keyRefs
    BY <2>7, <2>13
  <2>16. a \in DOMAIN c.owners
    BY <2>6, <2>11
  <2>17. PICK one : one = {a}
    OBVIOUS
  <2>18. one \subseteq DOMAIN c.owners /\ \A x : x \in one <=> x = a
    BY <2>16, <2>17
  <2>19. /\ \A x : x \in DOMAIN i.owners
                   <=> x \in DOMAIN c.owners /\ ~(x \in one /\ c.owners[x] = 1)
         /\ \A x : Count(i.owners, x) = IF x \in one THEN Count(c.owners, x) - 1
                                        ELSE IF x \in DOMAIN c.owners THEN Count(c.owners, x) - 0
                                        ELSE 0
    <3>1. i.owners = Lowered(c.owners, one)
      BY <2>4, <2>17
    <3> QED
      BY <2>12, <2>18, <3>1, LoweredCounts
  <2>20. /\ \A x : x \in DOMAIN i.keyRefs
                   <=> x \in DOMAIN c.keyRefs /\ ~(x \in keys /\ c.keyRefs[x] = 1)
         /\ \A x : Count(i.keyRefs, x) = IF x \in keys THEN Count(c.keyRefs, x) - 1
                                         ELSE IF x \in DOMAIN c.keyRefs THEN Count(c.keyRefs, x) - 0
                                         ELSE 0
    BY <2>4, <2>14, <2>15, LoweredCounts
  <2>21. \A x : x \notin DOMAIN c.owners => Count(c.owners, x) = 0
    BY DEF Count
  <2>22. \A x : x \notin DOMAIN c.keyRefs => Count(c.keyRefs, x) = 0
    BY DEF Count
  <2>23. /\ \A x \in DOMAIN c.owners : Count(c.owners, x) = c.owners[x]
         /\ \A x \in DOMAIN c.keyRefs : Count(c.keyRefs, x) = c.keyRefs[x]
    BY DEF Count
  <2>24. \A x : Count(i.owners, x) = Cardinality(HandlesAt(i, x))
    BY <2>8, <2>9, <2>18, <2>19, <2>21
  <2>25. \A k : Count(i.keyRefs, k) = Cardinality(Readers(i, k))
    BY <2>8, <2>9, <2>20, <2>22
  <2>26. \A x : /\ IsFiniteSet(HandlesAt(i, x)) /\ IsFiniteSet(Readers(i, x))
    BY <2>2, <2>6, <2>7, HandlesFinite, FS_RemoveElement
  <2>27. \A x : /\ HandlesAt(i, x) = {} <=> Cardinality(HandlesAt(i, x)) = 0
                /\ Readers(i, x) = {} <=> Cardinality(Readers(i, x)) = 0
    BY <2>26, FS_EmptySet
  <2>28. \A x : x \in DOMAIN i.owners <=> HandlesAt(i, x) # {}
    BY <2>8, <2>9, <2>10, <2>11, <2>18, <2>19, <2>23, <2>27
  <2>29. \A x : x \in DOMAIN i.keyRefs <=> Readers(i, x) # {}
    <3>1. \A x \in keys : /\ x \in DOMAIN i.keyRefs <=> c.keyRefs[x] # 1
                         /\ Cardinality(Readers(i, x)) = c.keyRefs[x] - 1
      BY <2>8, <2>9, <2>15, <2>20, <2>23
    <3>2. \A x \in keys : x \in DOMAIN i.keyRefs <=> Readers(i, x) # {}
      BY <2>14, <2>15, <2>27, <3>1
    <3>3. \A x : x \notin keys => Readers(i, x) = Readers(c, x)
      BY <2>7
    <3> QED
      BY <2>13, <2>20, <3>2, <3>3
  <2>30. \A x : x \in DOMAIN i.prepared <=> HandlesAt(i, x) # {}
    BY <2>3 DEF HandlesAt
  <2>31. DOMAIN i.owners = DOMAIN i.prepared
    BY <2>28, <2>30
  <2>32. PlansInv(i)
    <3>1. /\ c.next \in Nat /\ c.next >= 1 /\ DOMAIN c.handles \subseteq 1 .. (c.next - 1)
          /\ DOMAIN c.prepared = {c.handles[g] : g \in DOMAIN c.handles}
          /\ \A b, d \in DOMAIN c.prepared : c.prepared[b] = c.prepared[d] => b = d
          /\ c.canonical = DOMAIN c.prepared
          /\ DOMAIN c.owners = DOMAIN c.prepared
      BY <2>2 DEF PlansInv, CountsInv
    <3>2. /\ i.next \in Nat /\ i.next >= 1 /\ DOMAIN i.handles \subseteq 1 .. (i.next - 1)
      BY <2>3, <3>1
    <3>3. DOMAIN i.prepared = {i.handles[g] : g \in DOMAIN i.handles}
      BY <2>3
    <3>4. DOMAIN i.prepared \subseteq DOMAIN c.prepared
      BY <2>3, <3>1
    <3>5. \A b, d \in DOMAIN i.prepared : i.prepared[b] = i.prepared[d] => b = d
      BY <2>3, <3>1, <3>4
    <3>6. \A x : x \in i.canonical <=> x \in DOMAIN i.owners
      BY <2>4, <2>18, <2>19, <3>1
    <3> QED
      BY <2>31, <3>2, <3>3, <3>5, <3>6 DEF PlansInv
  <2>33. i.indexes \subseteq DOMAIN i.keyRefs
    <3>1. c.indexes \subseteq DOMAIN c.keyRefs
      BY <2>2 DEF CountsInv
    <3>2. \A k : k \in i.indexes => k \in c.indexes /\ ~(k \in keys /\ c.keyRefs[k] = 1)
      BY <2>4 DEF LastKeys
    <3> QED
      BY <2>20, <3>1, <3>2
  <2> QED
    BY <2>1, <2>24, <2>25, <2>29, <2>31, <2>32, <2>33 DEF CacheInv, CountsInv
<1> QED
  BY <1>1, <1>2

\* Indexes are kept for plans that are held (execute_compiled_plans).
LEMMA IndexedKeeps ==
  ASSUME NEW c, CacheInv(c), NEW hs, hs \subseteq DOMAIN c.handles
  PROVE  CacheInv(Indexed(c, hs))
<1>1. PICK i : i = Indexed(c, hs)
  OBVIOUS
<1>2. /\ i.next = c.next /\ i.handles = c.handles /\ i.prepared = c.prepared
      /\ i.owners = c.owners /\ i.canonical = c.canonical /\ i.keyRefs = c.keyRefs
      /\ i.indexes = c.indexes \union UNION {ContentOf(c, h).keys : h \in hs}
  BY <1>1 DEF Indexed
<1>3. PlansInv(i)
  BY <1>2 DEF CacheInv, PlansInv
<1>4. \A x : HandlesAt(i, x) = HandlesAt(c, x) /\ Readers(i, x) = Readers(c, x)
  BY <1>2 DEF HandlesAt, Readers, ContentOf
<1>5. \A h \in hs : ContentOf(c, h).keys \subseteq DOMAIN c.keyRefs
  BY DEF CacheInv, CountsInv, Readers
<1>6. i.indexes \subseteq DOMAIN i.keyRefs
  BY <1>2, <1>5 DEF CacheInv, CountsInv
<1>7. CountsInv(i)
  BY <1>2, <1>4, <1>6 DEF CacheInv, CountsInv, Count
<1> QED
  BY <1>1, <1>3, <1>7 DEF CacheInv

\* A new world has no plans.
LEMMA EmptyCacheExact == CacheInv(EmptyCache)
<1>1. PICK c : c = EmptyCache
  OBVIOUS
<1>2. /\ c.next = 1 /\ DOMAIN c.handles = {} /\ DOMAIN c.prepared = {} /\ DOMAIN c.owners = {}
      /\ c.canonical = {} /\ DOMAIN c.keyRefs = {} /\ c.indexes = {}
  BY <1>1 DEF EmptyCache
<1>3. \A x : HandlesAt(c, x) = {} /\ Readers(c, x) = {}
  BY <1>2 DEF HandlesAt, Readers
<1>4. PlansInv(c)
  BY <1>2 DEF PlansInv
<1>5. CountsInv(c)
  BY <1>2, <1>3, FS_EmptySet DEF CountsInv, Count
<1> QED
  BY <1>1, <1>4, <1>5 DEF CacheInv

-----------------------------------------------------------------------------
(* The handles that systems hold.                                          *)

Holding == [handle : Nat, schema : Nat]

\* With the cache c, hs is what each system of info holds: no handle twice, a live
\* handle leads to the system's plan for the schema it remembers, those of
\* registered are live, and every live one is held by one of holders or is in lost.
HeldInv(c, hs, info, registered, holders, lost) ==
  /\ CacheInv(c)
  /\ hs \in [DOMAIN info -> Holding]
  /\ \A i \in DOMAIN info : hs[i].handle < c.next
  /\ \A i, j \in DOMAIN info : hs[i].handle = hs[j].handle /\ i # j => hs[i].handle = 0
  /\ \A i \in DOMAIN info : hs[i].handle \in DOMAIN c.handles =>
       /\ ContentOf(c, hs[i].handle).plan = info[i].plan
       /\ ContentOf(c, hs[i].handle).schema = hs[i].schema
  /\ \A i \in registered : hs[i].handle = 0 \/ hs[i].handle \in DOMAIN c.handles
  /\ \A h \in DOMAIN c.handles : h \in lost \/ \E i \in holders : hs[i].handle = h

\* r is c without the handle h, if it has that.
Fewer(r, c, h) ==
  /\ CacheInv(r) /\ r.next = c.next
  /\ DOMAIN r.handles = DOMAIN c.handles \ {h}
  /\ \A g \in DOMAIN r.handles : ContentOf(r, g) = ContentOf(c, g)

\* Releasing takes away one handle at most (release_compiled_plan).
LEMMA ReleaseFewer ==
  ASSUME NEW c, CacheInv(c), NEW h
  PROVE  Fewer(Release(c, h), c, h)
<1>1. CacheInv(Release(c, h))
  BY ReleaseKeeps
<1>2. CASE h \notin DOMAIN c.handles
  <2>1. Release(c, h) = c /\ DOMAIN c.handles \ {h} = DOMAIN c.handles
    BY <1>2 DEF Release
  <2> QED
    BY <1>1, <2>1 DEF Fewer
<1>3. CASE h \in DOMAIN c.handles
  <2>1. Released(Release(c, h), c, h)
    BY <1>3, ReleaseIs
  <2> QED
    BY <1>1, <2>1 DEF Fewer, Released
<1> QED
  BY <1>2, <1>3

\* What is known of the systems that were not compiled, and of the one that was.
OneCompiled(st, c, hs, i, content) ==
  /\ st.held[i] = [handle |-> c.next, schema |-> content.schema]
  /\ c.next \in DOMAIN st.cache.handles
  /\ ContentOf(st.cache, c.next) = content
  /\ \A j \in DOMAIN hs \ {i} :
       /\ st.held[j] = hs[j]
       /\ hs[j].handle \in DOMAIN c.handles =>
            /\ hs[j].handle \in DOMAIN st.cache.handles
            /\ ContentOf(st.cache, hs[j].handle) = ContentOf(c, hs[j].handle)

\* Compiling gives a system a handle of its own (build_and_compile_payload).
LEMMA CompileKeeps ==
  ASSUME NEW from, NEW c, NEW hs, c = from.cache, hs = from.held,
         NEW info, NEW registered \in SUBSET DOMAIN info, NEW holders \in SUBSET DOMAIN info,
         NEW lost, HeldInv(c, hs, info, registered, holders, lost),
         NEW i \in DOMAIN info, NEW content, content.plan = info[i].plan, content.schema \in Nat,
         NEW st, st = Compile(from, i, content),
         NEW more, holders \subseteq more, i \in more
  PROVE  /\ HeldInv(st.cache, st.held, info, registered, more, lost)
         /\ OneCompiled(st, c, hs, i, content)
<1>1. PICK h, r : h = hs[i].handle /\ r = Release(c, h)
  OBVIOUS
<1>2. PICK d, new : d = st.cache /\ new = st.held
  OBVIOUS
<1>3. /\ d = Insert(r, content)
      /\ new = [hs EXCEPT ![i] = [handle |-> c.next, schema |-> content.schema]]
  BY <1>1, <1>2 DEF Compile
<1>4. /\ CacheInv(c) /\ hs \in [DOMAIN info -> Holding]
      /\ \A j \in DOMAIN info : hs[j].handle < c.next
      /\ \A j, k \in DOMAIN info : hs[j].handle = hs[k].handle /\ j # k => hs[j].handle = 0
      /\ \A j \in DOMAIN info : hs[j].handle \in DOMAIN c.handles =>
           /\ ContentOf(c, hs[j].handle).plan = info[j].plan
           /\ ContentOf(c, hs[j].handle).schema = hs[j].schema
      /\ \A j \in registered : hs[j].handle = 0 \/ hs[j].handle \in DOMAIN c.handles
      /\ \A g \in DOMAIN c.handles : g \in lost \/ \E j \in holders : hs[j].handle = g
  BY DEF HeldInv
<1>5. /\ CacheInv(r) /\ r.next = c.next
      /\ DOMAIN r.handles = DOMAIN c.handles \ {h}
      /\ \A g \in DOMAIN r.handles : ContentOf(r, g) = ContentOf(c, g)
  <2>1. Fewer(r, c, h)
    BY <1>1, <1>4, ReleaseFewer
  <2> QED
    BY <2>1 DEF Fewer
<1>6. /\ CacheInv(d) /\ d.next = c.next + 1
      /\ DOMAIN d.handles = DOMAIN r.handles \union {c.next}
      /\ ContentOf(d, c.next) = content
      /\ \A g \in DOMAIN r.handles : ContentOf(d, g) = ContentOf(r, g)
  <2>1. PICK a : a = AddressFor(r, content)
    OBVIOUS
  <2>2. Inserted(d, r, content, a)
    BY <1>3, <1>5, <2>1, InsertIs DEF CacheInv
  <2>3. CacheInv(d)
    BY <1>3, <1>5, InsertKeeps
  <2> QED
    BY <1>5, <2>2, <2>3 DEF Inserted
<1>7. c.next \in Nat /\ c.next >= 1 /\ DOMAIN c.handles \subseteq 1 .. (c.next - 1)
  BY <1>4 DEF CacheInv, PlansInv
<1>8. /\ DOMAIN hs = DOMAIN info /\ DOMAIN new = DOMAIN info
      /\ new[i] = [handle |-> c.next, schema |-> content.schema]
      /\ \A j \in DOMAIN info \ {i} : new[j] = hs[j]
  BY <1>3, <1>4
<1>9. \A j \in DOMAIN info : hs[j] \in Holding /\ hs[j].handle \in Nat
  BY <1>4 DEF Holding
<1>10. new[i] \in Holding /\ new[i].handle = c.next /\ new[i].schema = content.schema
  BY <1>7, <1>8 DEF Holding
<1>11. new \in [DOMAIN info -> Holding]
  <2>1. new = [j \in DOMAIN info |-> new[j]]
    BY <1>3, <1>8
  <2>2. \A j \in DOMAIN info : new[j] \in Holding
    BY <1>8, <1>9, <1>10
  <2> QED
    BY <2>1, <2>2
<1>12. \A j \in DOMAIN info \ {i} : hs[j].handle \in DOMAIN c.handles =>
         /\ hs[j].handle \in DOMAIN d.handles /\ hs[j].handle # c.next
         /\ ContentOf(d, hs[j].handle) = ContentOf(c, hs[j].handle)
  <2> SUFFICES ASSUME NEW j \in DOMAIN info \ {i}, hs[j].handle \in DOMAIN c.handles
               PROVE  /\ hs[j].handle \in DOMAIN d.handles /\ hs[j].handle # c.next
                      /\ ContentOf(d, hs[j].handle) = ContentOf(c, hs[j].handle)
    OBVIOUS
  <2>1. hs[j].handle # 0 /\ hs[j].handle # c.next
    BY <1>7
  <2>2. hs[j].handle # h
    BY <1>1, <1>4, <2>1
  <2> QED
    BY <1>5, <1>6, <2>1, <2>2
<1>13. \A j \in DOMAIN info \ {i} : hs[j].handle \in DOMAIN d.handles =>
         hs[j].handle \in DOMAIN c.handles
  BY <1>4, <1>5, <1>6, <1>7, <1>9
<1>14. OneCompiled(st, c, hs, i, content)
  BY <1>2, <1>6, <1>8, <1>12 DEF OneCompiled
<1>15. \A j \in DOMAIN info : new[j].handle < d.next
  <2>1. \A j \in DOMAIN info \ {i} : hs[j].handle < d.next
    BY <1>4, <1>6, <1>7, <1>9
  <2> QED
    BY <1>6, <1>7, <1>8, <1>10, <2>1
<1>16. \A j, k \in DOMAIN info : new[j].handle = new[k].handle /\ j # k => new[j].handle = 0
  <2>1. \A j \in DOMAIN info \ {i} : hs[j].handle # c.next
    BY <1>4, <1>7, <1>9
  <2> QED
    BY <1>4, <1>8, <1>10, <2>1
<1>17. \A j \in DOMAIN info : new[j].handle \in DOMAIN d.handles =>
         /\ ContentOf(d, new[j].handle).plan = info[j].plan
         /\ ContentOf(d, new[j].handle).schema = new[j].schema
  BY <1>4, <1>6, <1>8, <1>10, <1>12, <1>13
<1>18. \A j \in registered : new[j].handle = 0 \/ new[j].handle \in DOMAIN d.handles
  BY <1>4, <1>6, <1>8, <1>10, <1>12
<1>19. \A g \in DOMAIN d.handles : g \in lost \/ \E j \in more : new[j].handle = g
  <2> SUFFICES ASSUME NEW g \in DOMAIN d.handles, g \notin lost
               PROVE  \E j \in more : new[j].handle = g
    OBVIOUS
  <2>1. CASE g = c.next
    BY <1>10, <2>1
  <2>2. CASE g # c.next
    <3>1. g \in DOMAIN c.handles /\ g # h
      BY <1>5, <1>6, <2>2
    <3>2. PICK j \in holders : hs[j].handle = g
      BY <1>4, <3>1
    <3>3. j # i /\ j \in DOMAIN info
      BY <1>1, <3>1, <3>2
    <3> QED
      BY <1>8, <3>2, <3>3
  <2> QED
    BY <2>1, <2>2
<1>20. HeldInv(d, new, info, registered, more, lost)
  BY <1>6, <1>11, <1>15, <1>16, <1>17, <1>18, <1>19 DEF HeldInv
<1> QED
  BY <1>2, <1>14, <1>20

\* More systems may hold what is held, and more handles be lost.
LEMMA HeldGrows ==
  ASSUME NEW c, NEW hs, NEW info, NEW registered, NEW holders, NEW lost,
         HeldInv(c, hs, info, registered, holders, lost),
         NEW less, less \subseteq registered,
         NEW more, NEW gone, lost \subseteq gone,
         \A g \in DOMAIN c.handles :
           (\E i \in holders : hs[i].handle = g) => g \in gone \/ \E i \in more : hs[i].handle = g
  PROVE  HeldInv(c, hs, info, less, more, gone)
BY DEF HeldInv

\* A plan is compiled when it must be, and then can be run
\* (_needs_physical_recompile).
LEMMA RefreshKeeps ==
  ASSUME NEW from, NEW registered \in SUBSET Ids, NEW holders \in SUBSET Ids, NEW lost,
         HeldInv(from.cache, from.held, details, registered, holders, lost),
         schema \in Nat, NEW i \in holders, NEW st, st = Refresh(from, i)
  PROVE  /\ HeldInv(st.cache, st.held, details, registered, holders, lost)
         /\ i \in registered => Runnable(st, i)
         /\ \A j \in Ids : Runnable(from, j) => Runnable(st, j)
<1>1. PICK c, hs : c = from.cache /\ hs = from.held
  OBVIOUS
<1>2. HeldInv(c, hs, details, registered, holders, lost) /\ i \in Ids /\ DOMAIN hs = Ids
  BY <1>1 DEF HeldInv, Ids
<1>3. CASE ~NeedsCompile(from, i)
  <2>1. st = from
    BY <1>3 DEF Refresh
  <2>2. hs[i].handle # 0 /\ hs[i].schema = schema
    BY <1>1, <1>3 DEF NeedsCompile
  <2>3. i \in registered => /\ hs[i].handle \in DOMAIN c.handles
                            /\ ContentOf(c, hs[i].handle).schema = schema
    BY <1>2, <2>2 DEF HeldInv, Ids
  <2> QED
    BY <1>1, <1>2, <2>1, <2>3 DEF Runnable
<1>4. CASE NeedsCompile(from, i)
  <2>1. PICK content : content = Content(i)
    OBVIOUS
  <2>2. content.plan = details[i].plan /\ content.schema = schema
    BY <2>1 DEF Content
  <2>3. st = Compile(from, i, content)
    BY <1>4, <2>1 DEF Refresh
  <2>4. holders \subseteq holders /\ i \in holders
    OBVIOUS
  <2>5. /\ HeldInv(st.cache, st.held, details, registered, holders, lost)
        /\ OneCompiled(st, c, hs, i, content)
    BY <1>1, <1>2, <2>2, <2>3, <2>4, CompileKeeps DEF Ids
  <2>6. Runnable(st, i)
    <3>1. st.held[i] = [handle |-> c.next, schema |-> content.schema]
      BY <2>5 DEF OneCompiled
    <3>2. st.held[i].handle = c.next
      BY <3>1
    <3> QED
      BY <2>2, <2>5, <3>2 DEF OneCompiled, Runnable
  <2>7. ASSUME NEW j \in Ids, j # i, Runnable(from, j) PROVE Runnable(st, j)
    <3>1. hs[j].handle \in DOMAIN c.handles /\ ContentOf(c, hs[j].handle).schema = schema
      BY <1>1, <2>7 DEF Runnable
    <3>2. /\ st.held[j] = hs[j] /\ hs[j].handle \in DOMAIN st.cache.handles
          /\ ContentOf(st.cache, hs[j].handle) = ContentOf(c, hs[j].handle)
      BY <1>2, <2>5, <2>7, <3>1 DEF OneCompiled
    <3> QED
      BY <3>1, <3>2 DEF Runnable
  <2> QED
    BY <2>5, <2>6, <2>7
<1> QED
  BY <1>3, <1>4

\* The plans of the first k of ids are up to date.
RefreshInv(st, ids, k) ==
  /\ HeldInv(st.cache, st.held, details, Range(systems), Range(systems) \union Range(ids), orphans)
  /\ \A m \in 1 .. k : ids[m] \in Range(systems) => Runnable(st, ids[m])

\* A batch brings its plans up to date one after another
\* (run_physical_systems_batch).
LEMMA RefreshedKeeps ==
  ASSUME HeldInv(cache, held, details, Range(systems), Range(systems), orphans),
         Range(systems) \subseteq Ids, schema \in Nat, NEW ids \in Seq(Ids),
         NEW st, st = Refreshed(ids)
  PROVE  RefreshInv(st, ids, Len(ids))
<1>1. PICK n : n = Len(ids)
  OBVIOUS
<1>2. n \in Nat /\ ids \in [1 .. n -> Ids] /\ DOMAIN ids = 1 .. n
  BY <1>1, LenProperties
<1>3. PICK registered, holders : /\ registered = Range(systems)
                                 /\ holders = registered \union Range(ids)
  OBVIOUS
<1>4. registered \in SUBSET Ids /\ holders \in SUBSET Ids /\ \A m \in 1 .. n : ids[m] \in holders
  BY <1>2, <1>3 DEF Range
<1>5. RefreshInv(Current, ids, 0)
  <2>1. Current.cache = cache /\ Current.held = held
    BY DEF Current
  <2>2. HeldInv(cache, held, details, registered, registered, orphans)
    BY <1>3
  <2>3. HeldInv(cache, held, details, registered, holders, orphans)
    BY <1>3, <2>2, HeldGrows
  <2> QED
    BY <1>3, <2>1, <2>3 DEF RefreshInv
<1>6. ASSUME NEW v, NEW k \in 1 .. n, RefreshInv(v, ids, k - 1)
      PROVE  RefreshInv(Refresh(v, ids[k]), ids, k)
  <2>1. PICK w : w = Refresh(v, ids[k])
    OBVIOUS
  <2>2. ids[k] \in holders /\ ids[k] \in Ids
    BY <1>2, <1>4
  <2>3. HeldInv(v.cache, v.held, details, registered, holders, orphans)
    BY <1>3, <1>6 DEF RefreshInv
  <2>4. /\ HeldInv(w.cache, w.held, details, registered, holders, orphans)
        /\ ids[k] \in registered => Runnable(w, ids[k])
        /\ \A j \in Ids : Runnable(v, j) => Runnable(w, j)
    BY <1>4, <2>1, <2>2, <2>3, RefreshKeeps
  <2>5. \A m \in 1 .. k : m \in 1 .. (k - 1) \/ m = k
    BY <1>2
  <2>6. \A m \in 1 .. k : ids[m] \in Ids
    BY <1>2
  <2>7. \A m \in 1 .. (k - 1) : ids[m] \in registered => Runnable(v, ids[m])
    BY <1>3, <1>6 DEF RefreshInv
  <2> QED
    BY <1>3, <2>1, <2>4, <2>5, <2>6, <2>7 DEF RefreshInv
<1>7. Inductive(Refresh, LAMBDA v, k : RefreshInv(v, ids, k), Current, ids, n)
  BY <1>5, <1>6 DEF Inductive
<1>8. Attained(Refresh, LAMBDA v, k : RefreshInv(v, ids, k), Current, ids, n)
  BY <1>1, <1>2, <1>7, AccumulatedKeeps
<1> QED
  BY <1>1, <1>8 DEF Attained, Refreshed

\* Indexes do not change who holds what (execute_compiled_plans).
LEMMA HeldIndexed ==
  ASSUME NEW c, NEW hs, NEW info, NEW registered, NEW holders, NEW lost,
         HeldInv(c, hs, info, registered, holders, lost),
         NEW read, read \subseteq DOMAIN c.handles, NEW d, d = Indexed(c, read)
  PROVE  HeldInv(d, hs, info, registered, holders, lost)
<1>1. CacheInv(d)
  BY IndexedKeeps DEF HeldInv
<1>2. d.next = c.next /\ d.handles = c.handles /\ d.prepared = c.prepared
  BY DEF Indexed
<1>3. \A h : ContentOf(d, h) = ContentOf(c, h)
  BY <1>2 DEF ContentOf
<1> QED
  BY <1>1, <1>2, <1>3 DEF HeldInv

\* t is s without i.
Minus(t, s, i) == \A j : j \in t <=> j \in s /\ j # i

\* The handle of a system that is no holder any more is released
\* (release_physical_plan).
LEMMA HeldReleased ==
  ASSUME NEW c, NEW hs, NEW info, NEW registered \in SUBSET DOMAIN info,
         NEW holders \in SUBSET DOMAIN info, NEW lost,
         HeldInv(c, hs, info, registered, holders, lost),
         NEW i \in DOMAIN info, NEW d, d = Release(c, hs[i].handle),
         NEW less, Minus(less, registered, i), NEW others, Minus(others, holders, i)
  PROVE  /\ HeldInv(d, hs, info, less, others, lost)
         /\ hs[i].handle \notin DOMAIN d.handles
<1>1. PICK h : h = hs[i].handle
  OBVIOUS
<1>2. /\ CacheInv(d) /\ d.next = c.next
      /\ DOMAIN d.handles = DOMAIN c.handles \ {h}
      /\ \A g \in DOMAIN d.handles : ContentOf(d, g) = ContentOf(c, g)
  <2>1. Fewer(d, c, h)
    BY <1>1, ReleaseFewer DEF HeldInv
  <2> QED
    BY <2>1 DEF Fewer
<1>3. \A j \in less : hs[j].handle = 0 \/ hs[j].handle \in DOMAIN d.handles
  BY <1>1, <1>2 DEF HeldInv, Minus
<1>4. \A g \in DOMAIN d.handles : g \in lost \/ \E j \in others : hs[j].handle = g
  BY <1>1, <1>2 DEF HeldInv, Minus
<1>5. HeldInv(d, hs, info, less, others, lost)
  BY <1>2, <1>3, <1>4 DEF HeldInv
<1> QED
  BY <1>1, <1>2, <1>5

\* From hs to new the systems of X forget their handles, of which gone has those
\* that are live.
Forgets(c, hs, new, info, X, gone) ==
  /\ new \in [DOMAIN info -> Holding]
  /\ \A i \in X : new[i].handle = 0
  /\ \A i \in DOMAIN info \ X : new[i] = hs[i]
  /\ \A i \in X : hs[i].handle \in DOMAIN c.handles => hs[i].handle \in gone

\* The handles that systems forget are lost unless they are gone.
LEMMA HeldForgotten ==
  ASSUME NEW c, NEW hs, NEW info, NEW X \in SUBSET DOMAIN info,
         NEW registered \in SUBSET DOMAIN info, NEW live, registered \subseteq live \union X,
         NEW holders \in SUBSET DOMAIN info, NEW lost,
         HeldInv(c, hs, info, live, holders, lost),
         NEW new, NEW gone, Forgets(c, hs, new, info, X, gone), lost \subseteq gone,
         NEW others, holders \ X \subseteq others
  PROVE  HeldInv(c, new, info, registered, others, gone)
<1>1. 0 \notin DOMAIN c.handles /\ c.next \in Nat /\ 0 < c.next
  BY DEF HeldInv, CacheInv, PlansInv
<1>2. \A i \in DOMAIN info : new[i].handle < c.next
  BY <1>1 DEF HeldInv, Forgets
<1>3. \A i, j \in DOMAIN info : new[i].handle = new[j].handle /\ i # j => new[i].handle = 0
  BY DEF HeldInv, Forgets
<1>4. \A i \in DOMAIN info : new[i].handle \in DOMAIN c.handles =>
        /\ ContentOf(c, new[i].handle).plan = info[i].plan
        /\ ContentOf(c, new[i].handle).schema = new[i].schema
  BY <1>1 DEF HeldInv, Forgets
<1>5. \A i \in registered : new[i].handle = 0 \/ new[i].handle \in DOMAIN c.handles
  BY DEF HeldInv, Forgets
<1>6. \A h \in DOMAIN c.handles : h \in gone \/ \E i \in others : new[i].handle = h
  <2> SUFFICES ASSUME NEW h \in DOMAIN c.handles, h \notin gone
               PROVE  \E i \in others : new[i].handle = h
    OBVIOUS
  <2>1. PICK i \in holders : hs[i].handle = h
    BY DEF HeldInv, Forgets
  <2>2. i \notin X
    BY <2>1 DEF Forgets
  <2> QED
    BY <2>1, <2>2 DEF Forgets
<1>7. CacheInv(c)
  BY DEF HeldInv, Forgets
<1> QED
  BY <1>2, <1>3, <1>4, <1>5, <1>6, <1>7 DEF HeldInv, Forgets

\* A system that has no plan yet comes to the others (add_system).
LEMMA HeldExtended ==
  ASSUME NEW c, NEW hs, NEW info, NEW registered \in SUBSET DOMAIN info,
         NEW holders \in SUBSET DOMAIN info, NEW lost,
         HeldInv(c, hs, info, registered, holders, lost),
         NEW all, NEW new \in [DOMAIN all -> Holding], NEW k,
         DOMAIN all = DOMAIN info \union {k}, k \notin DOMAIN info,
         \A i \in DOMAIN info : new[i] = hs[i] /\ all[i] = info[i],
         new[k].handle = 0, NEW more, more = registered \union {k}
  PROVE  HeldInv(c, new, all, more, holders, lost)
<1>1. 0 \notin DOMAIN c.handles /\ c.next \in Nat /\ 0 < c.next
  BY DEF HeldInv, CacheInv, PlansInv
<1>2. \A i \in DOMAIN all : i = k \/ i \in DOMAIN info
  OBVIOUS
<1>3. \A i \in DOMAIN all : new[i].handle < c.next
  BY <1>1, <1>2 DEF HeldInv
<1>4. \A i, j \in DOMAIN all : new[i].handle = new[j].handle /\ i # j => new[i].handle = 0
  BY <1>2 DEF HeldInv
<1>5. \A i \in DOMAIN all : new[i].handle \in DOMAIN c.handles =>
        /\ ContentOf(c, new[i].handle).plan = all[i].plan
        /\ ContentOf(c, new[i].handle).schema = new[i].schema
  BY <1>1, <1>2 DEF HeldInv
<1>6. \A i \in more : new[i].handle = 0 \/ new[i].handle \in DOMAIN c.handles
  BY DEF HeldInv
<1>7. \A h \in DOMAIN c.handles : h \in lost \/ \E i \in holders : new[i].handle = h
  BY DEF HeldInv
<1>8. CacheInv(c)
  BY DEF HeldInv
<1> QED
  BY <1>3, <1>4, <1>5, <1>6, <1>7, <1>8 DEF HeldInv

\* It is taken back (the rollback of add_system).
LEMMA HeldRestricted ==
  ASSUME NEW c, NEW hs, NEW info, NEW registered, NEW holders, NEW lost,
         HeldInv(c, hs, info, registered, holders, lost),
         NEW some, DOMAIN some \subseteq DOMAIN info, NEW old \in [DOMAIN some -> Holding],
         \A i \in DOMAIN some : old[i] = hs[i] /\ some[i] = info[i],
         registered \subseteq DOMAIN some, holders \subseteq DOMAIN some
  PROVE  HeldInv(c, old, some, registered, holders, lost)
<1>1. \A i \in DOMAIN some : i \in DOMAIN info /\ old[i] = hs[i] /\ some[i] = info[i]
  OBVIOUS
<1>2. \A i, j \in DOMAIN some : old[i].handle = old[j].handle /\ i # j => old[i].handle = 0
  BY <1>1 DEF HeldInv
<1>3. \A i \in DOMAIN some : /\ old[i].handle < c.next
                             /\ old[i].handle \in DOMAIN c.handles =>
                                  /\ ContentOf(c, old[i].handle).plan = some[i].plan
                                  /\ ContentOf(c, old[i].handle).schema = old[i].schema
  BY <1>1 DEF HeldInv
<1>4. \A i \in registered : old[i].handle = 0 \/ old[i].handle \in DOMAIN c.handles
  BY <1>1 DEF HeldInv
<1>5. \A h \in DOMAIN c.handles : h \in lost \/ \E i \in holders : old[i].handle = h
  BY <1>1 DEF HeldInv
<1>6. CacheInv(c)
  BY DEF HeldInv
<1> QED
  BY <1>2, <1>3, <1>4, <1>5, <1>6 DEF HeldInv

-----------------------------------------------------------------------------
(* The groups and the sort.                                                *)

SetsInv(confs) ==
  Listed(confs) /\ \A k \in DOMAIN confs : Listed(confs[k].before) /\ Listed(confs[k].after)

OrdersInv(os) == Listed(os) /\ \A k \in DOMAIN os : Listed(os[k])

DetailsInv(info) ==
  /\ Listed(info)
  /\ \A i \in DOMAIN info : /\ Listed(info[i].groups)
                            /\ Listed(info[i].before) /\ Listed(info[i].after)

Once(s) == \A i, j \in 1 .. Len(s) : s[i] = s[j] => i = j

\* A function on the numbers from 1 is a sequence.
LEMMA FunctionListed ==
  ASSUME NEW n \in Nat, NEW s, s = [k \in 1 .. n |-> s[k]]
  PROVE  Listed(s) /\ Len(s) = n
<1>1. PICK R : R = {s[k] : k \in 1 .. n}
  OBVIOUS
<1>2. s \in [1 .. n -> R]
  BY <1>1
<1>3. s \in Seq(R) /\ Len(s) = n
  BY <1>2
<1> QED
  BY <1>3, ListedIs

\* References make as many edges (_add_dependency_edges).
LEMMA LinksListed ==
  ASSUME NEW group, NEW refs, Listed(refs), NEW side
  PROVE  Listed(Links(group, refs, side))
<1>1. PICK n : n = Len(refs)
  OBVIOUS
<1>2. n \in Nat /\ DOMAIN refs = 1 .. n
  BY <1>1, ListedIs
<1>3. PICK s : s = Links(group, refs, side)
  OBVIOUS
<1>4. s = [k \in 1 .. n |-> s[k]]
  BY <1>2, <1>3 DEF Links
<1> QED
  BY <1>2, <1>3, <1>4, FunctionListed

\* The edges of systems, configurations and orders make a sequence.
LEMMA DeclaredListed ==
  ASSUME NEW confs, SetsInv(confs), NEW os, OrdersInv(os), NEW info, DetailsInv(info),
         NEW list \in Seq(DOMAIN info)
  PROVE  Listed(Declared(confs, os, list, info))
<1>1. PICK A : A = [k \in DOMAIN list |->
                      LET s == info[list[k]] IN
                      Links(s.groups[1], s.before, "before")
                      \o Links(s.groups[1], s.after, "after")]
  OBVIOUS
<1>2. PICK B : B = [k \in DOMAIN confs |->
                      Links(confs[k].group, confs[k].before, "before")
                        \o Links(confs[k].group, confs[k].after, "after")]
  OBVIOUS
<1>3. PICK C : C = [k \in DOMAIN os |->
                      [m \in 1 .. Len(os[k]) - 1 |-> <<os[k][m], os[k][m + 1], "order">>]]
  OBVIOUS
<1>4. Declared(confs, os, list, info) = Joined(A) \o Joined(B) \o Joined(C)
  BY <1>1, <1>2, <1>3 DEF Declared
<1>5. Listed(Joined(A))
  <2>1. PICK n : n = Len(list)
    OBVIOUS
  <2>2. n \in Nat /\ DOMAIN list = 1 .. n /\ \A k \in 1 .. n : list[k] \in DOMAIN info
    BY <2>1, LenProperties
  <2>3. A = [k \in 1 .. n |-> A[k]]
    BY <1>1, <2>2
  <2>4. Len(A) = n
    BY <2>2, <2>3, FunctionListed
  <2>5. \A k \in 1 .. n : Listed(A[k])
    <3> SUFFICES ASSUME NEW k \in 1 .. n PROVE Listed(A[k])
      OBVIOUS
    <3>1. PICK s : s = info[list[k]]
      OBVIOUS
    <3>2. Listed(s.before) /\ Listed(s.after)
      BY <2>2, <3>1 DEF DetailsInv
    <3>3. A[k] = Links(s.groups[1], s.before, "before") \o Links(s.groups[1], s.after, "after")
      BY <1>1, <2>2, <3>1
    <3> QED
      BY <3>2, <3>3, LinksListed, ListedIs
  <2> QED
    BY <2>2, <2>4, <2>5, JoinedListed
<1>6. Listed(Joined(B))
  <2>1. PICK n : n = Len(confs)
    OBVIOUS
  <2>2. n \in Nat /\ DOMAIN confs = 1 .. n
    BY <2>1, ListedIs DEF SetsInv
  <2>3. B = [k \in 1 .. n |-> B[k]]
    BY <1>2, <2>2
  <2>4. Len(B) = n
    BY <2>2, <2>3, FunctionListed
  <2>5. \A k \in 1 .. n : Listed(B[k])
    <3> SUFFICES ASSUME NEW k \in 1 .. n PROVE Listed(B[k])
      OBVIOUS
    <3>1. Listed(confs[k].before) /\ Listed(confs[k].after)
      BY <2>2 DEF SetsInv
    <3>2. B[k] = Links(confs[k].group, confs[k].before, "before")
                   \o Links(confs[k].group, confs[k].after, "after")
      BY <1>2, <2>2
    <3> QED
      BY <3>1, <3>2, LinksListed, ListedIs
  <2> QED
    BY <2>2, <2>4, <2>5, JoinedListed
<1>7. Listed(Joined(C))
  <2>1. PICK n : n = Len(os)
    OBVIOUS
  <2>2. n \in Nat /\ DOMAIN os = 1 .. n
    BY <2>1, ListedIs DEF OrdersInv
  <2>3. C = [k \in 1 .. n |-> C[k]]
    BY <1>3, <2>2
  <2>4. Len(C) = n
    BY <2>2, <2>3, FunctionListed
  <2>5. \A k \in 1 .. n : Listed(C[k])
    <3> SUFFICES ASSUME NEW k \in 1 .. n PROVE Listed(C[k])
      OBVIOUS
    <3>1. PICK l : l = Len(os[k])
      OBVIOUS
    <3>2. l \in Nat
      BY <2>2, <3>1, ListedIs DEF OrdersInv
    <3>3. PICK m : m = IF l = 0 THEN 0 ELSE l - 1
      OBVIOUS
    <3>4. m \in Nat /\ 1 .. m = 1 .. (l - 1)
      BY <3>2, <3>3
    <3>5. PICK c : c = C[k]
      OBVIOUS
    <3>6. c = [j \in 1 .. m |-> <<os[k][j], os[k][j + 1], "order">>]
      BY <1>3, <2>2, <3>1, <3>4, <3>5
    <3>7. c = [j \in 1 .. m |-> c[j]]
      BY <3>6
    <3> QED
      BY <3>4, <3>5, <3>7, FunctionListed
  <2> QED
    BY <2>2, <2>4, <2>5, JoinedListed
<1> QED
  BY <1>4, <1>5, <1>6, <1>7, ListedIs

\* The groups of the graph are a sequence (_build_group_graph).
LEMMA NamesListed ==
  ASSUME NEW confs, SetsInv(confs), NEW os, OrdersInv(os), NEW info, DetailsInv(info),
         NEW list \in Seq(DOMAIN info)
  PROVE  Listed(GroupGraph(confs, os, list, info).names)
<1>1. PICK memberships : memberships = [n \in {info[i].name : i \in Range(list)} |->
                           info[CHOOSE i \in Range(list) : info[i].name = n].groups]
  OBVIOUS
<1>2. PICK first, groups : /\ first = [k \in DOMAIN confs |-> confs[k].group]
                           /\ groups = [k \in DOMAIN list |-> info[list[k]].groups]
  OBVIOUS
<1>3. PICK all : all = first \o Joined(groups)
  OBVIOUS
<1>4. Listed(all)
  <2>1. Listed(first)
    <3>1. PICK n : n = Len(confs)
      OBVIOUS
    <3>2. n \in Nat /\ DOMAIN confs = 1 .. n
      BY <3>1, ListedIs DEF SetsInv
    <3>3. first = [k \in 1 .. n |-> first[k]]
      BY <1>2, <3>2
    <3> QED
      BY <3>2, <3>3, FunctionListed
  <2>2. Listed(Joined(groups))
    <3>1. PICK n : n = Len(list)
      OBVIOUS
    <3>2. n \in Nat /\ DOMAIN list = 1 .. n /\ \A k \in 1 .. n : list[k] \in DOMAIN info
      BY <3>1, LenProperties
    <3>3. groups = [k \in 1 .. n |-> groups[k]]
      BY <1>2, <3>2
    <3>4. Len(groups) = n
      BY <3>2, <3>3, FunctionListed
    <3>5. \A k \in 1 .. n : Listed(groups[k])
      BY <1>2, <3>2 DEF DetailsInv
    <3> QED
      BY <3>2, <3>4, <3>5, JoinedListed
  <2> QED
    BY <1>3, <2>1, <2>2, ListedIs
<1>5. \A names, x : Listed(names) => Listed(Noted(names, x))
  BY ListedIs DEF Noted
<1>6. PICK known : known = Accumulated(Noted, <<>>, all)
  OBVIOUS
<1>7. Listed(known)
  <2>1. PICK n : n = Len(all)
    OBVIOUS
  <2>2. n \in Nat
    BY <1>4, <2>1, ListedIs
  <2>3. Inductive(Noted, LAMBDA v, k : Listed(v), <<>>, all, n)
    BY <1>5, ListedIs DEF Inductive
  <2>4. Attained(Noted, LAMBDA v, k : Listed(v), <<>>, all, n)
    BY <2>1, <2>2, <2>3, AccumulatedKeeps
  <2> QED
    BY <1>6, <2>4 DEF Attained
<1>8. PICK d, base : /\ d = Declared(confs, os, list, info)
                     /\ base = [names |-> known, edges |-> {}, valid |-> TRUE]
  OBVIOUS
<1>9. GroupGraph(confs, os, list, info)
      = Accumulated(LAMBDA g, e : WithEdge(memberships, g, e), base, d)
  BY <1>1, <1>2, <1>3, <1>6, <1>8 DEF GroupGraph
<1>10. PICK n : n = Len(d)
  OBVIOUS
<1>11. n \in Nat
  BY <1>8, <1>10, DeclaredListed, ListedIs
<1>12. \A g, e : Listed(g.names) => Listed(WithEdge(memberships, g, e).names)
  BY <1>5 DEF WithEdge
<1>13. Listed(base.names)
  BY <1>7, <1>8
<1>14. Inductive(LAMBDA g, e : WithEdge(memberships, g, e),
                 LAMBDA v, k : Listed(v.names), base, d, n)
  BY <1>12, <1>13 DEF Inductive
<1>15. Attained(LAMBDA g, e : WithEdge(memberships, g, e),
                LAMBDA v, k : Listed(v.names), base, d, n)
  BY <1>10, <1>11, <1>14, AccumulatedKeeps
<1> QED
  BY <1>9, <1>15 DEF Attained

\* t has the elements of list, each once.
Permutes(t, list) == t \in Seq(Range(list)) /\ Once(t) /\ Range(t) = Range(list)

\* The systems by id are those of the list, ascending.
LEMMA ByIdIs ==
  ASSUME NEW info, DetailsInv(info), NEW list \in Seq(DOMAIN info), Once(list),
         NEW n, n = Len(list), NEW R, R = Range(list), NEW b, b = ById(list)
  PROVE  /\ n \in Nat /\ DOMAIN list = 1 .. n /\ IsFiniteSet(R) /\ Cardinality(R) = n
         /\ R \in SUBSET Nat /\ b \in [1 .. n -> R]
         /\ \A i, j \in 1 .. n : b[i] = b[j] => i = j
         /\ \A x \in R : \E k \in 1 .. n : b[k] = x
<1>1. /\ n \in Nat /\ DOMAIN list = 1 .. n /\ list \in [1 .. n -> R]
      /\ \A x \in R : \E k \in 1 .. n : list[k] = x
  <2>1. n \in Nat /\ DOMAIN list = 1 .. n
    BY LenProperties
  <2>2. list = [k \in 1 .. n |-> list[k]]
    BY <2>1, LenProperties
  <2>3. \A k \in 1 .. n : list[k] \in R
    BY <2>1 DEF Range
  <2>4. \A x \in R : \E k \in 1 .. n : list[k] = x
    BY <2>1 DEF Range
  <2> QED
    BY <2>1, <2>2, <2>3, <2>4
<1>2. IsFiniteSet(R) /\ Cardinality(R) = n
  <2>1. list \in Bijection(1 .. n, R)
    BY <1>1 DEF Bijection, Injection, Surjection, IsInjective, Once
  <2>2. ExistsBijection(1 .. n, R)
    BY <2>1 DEF ExistsBijection
  <2>3. IsFiniteSet(1 .. n) /\ Cardinality(1 .. n) = n
    <3>1. 1 \in Int /\ n \in Int /\ n >= 0
      BY <1>1
    <3>2. /\ IsFiniteSet(1 .. n)
          /\ Cardinality(1 .. n) = IF 1 > n THEN 0 ELSE n - 1 + 1
      BY <3>1, FS_Interval
    <3> QED
      BY <3>1, <3>2
  <2> QED
    BY <2>2, <2>3, FS_Bijection
<1>3. R \in SUBSET Nat
  <2>1. DOMAIN info \in SUBSET Nat
    <3>1. PICK l : l = Len(info)
      OBVIOUS
    <3>2. l \in Nat /\ DOMAIN info = 1 .. l
      BY <3>1, ListedIs DEF DetailsInv
    <3> QED
      BY <3>2
  <2>2. \A k \in 1 .. n : list[k] \in DOMAIN info
    BY ElementOfSeq
  <2> QED
    BY <1>1, <2>1, <2>2
<1>4. /\ b \in [1 .. n -> R] /\ \A i, j \in 1 .. n : i < j => b[i] < b[j]
      /\ \A x \in R : \E k \in 1 .. n : b[k] = x
  <2>1. Increasing(b, R) /\ Len(b) = n
    BY <1>2, <1>3, InOrderIncreases DEF ById
  <2> QED
    BY <2>1, LenProperties DEF Increasing
<1>5. \A i, j \in 1 .. n : b[i] = b[j] => i = j
  <2> SUFFICES ASSUME NEW i \in 1 .. n, NEW j \in 1 .. n, b[i] = b[j] PROVE i = j
    OBVIOUS
  <2>1. b[i] \in Nat /\ b[j] \in Nat
    BY <1>3, <1>4
  <2>2. ~(i < j) /\ ~(j < i)
    BY <1>4, <2>1
  <2> QED
    BY <1>1, <2>2
<1> QED
  BY <1>1, <1>2, <1>3, <1>4, <1>5

\* A sort that does not raise returns every system once
\* (sorted_scheduled_systems).
LEMMA SortPermutes ==
  ASSUME NEW confs, SetsInv(confs), NEW os, OrdersInv(os), NEW info, DetailsInv(info),
         NEW list \in Seq(DOMAIN info), Once(list), Sorts(confs, os, list, info)
  PROVE  Permutes(SortedIds(confs, os, list, info), list)
<1>1. PICK g, members : g = GroupGraph(confs, os, list, info) /\ members = Members(g, list, info)
  OBVIOUS
<1>2. PICK count, graph : count = Len(g.names) /\ graph = Numbered(g)
  OBVIOUS
<1>3. PICK o : o = SystemOrder(members, count, graph)
  OBVIOUS
<1>4. PICK n, R : n = Len(list) /\ R = Range(list)
  OBVIOUS
<1>5. PICK b : b = ById(list)
  OBVIOUS
<1>6. /\ n \in Nat /\ DOMAIN list = 1 .. n /\ IsFiniteSet(R) /\ Cardinality(R) = n
      /\ R \in SUBSET Nat /\ b \in [1 .. n -> R]
      /\ \A i, j \in 1 .. n : b[i] = b[j] => i = j
  BY <1>4, <1>5, ByIdIs
<1>7. PICK S : S = Range(members)
  OBVIOUS
<1>8. members \in Seq(S) /\ Len(members) = n
  <2>1. members = [k \in 1 .. n |-> members[k]]
    BY <1>1, <1>4 DEF Members
  <2>2. Listed(members) /\ Len(members) = n
    BY <1>6, <2>1, FunctionListed
  <2> QED
    BY <1>7, <2>2 DEF Listed, Range
<1>9. count \in Nat
  BY <1>1, <1>2, NamesListed, ListedIs
<1>10. PICK links : links = SystemLinks(members, Reachability(count, graph))
  OBVIOUS
<1>11. Sorted(o, members, links)
  BY <1>3, <1>8, <1>9, <1>10, SystemOrderSorted
<1>12. Len(o) = n
  BY <1>1, <1>2, <1>3, <1>8 DEF Sorts, Schedulable
<1>13. o \in [1 .. n -> 1 .. n] /\ \A i, j \in 1 .. n : o[i] = o[j] => i = j
  <2>1. o \in Seq(1 .. n) /\ \A i, j \in 1 .. n : o[i] = o[j] => i = j
    BY <1>8, <1>11, <1>12 DEF Sorted
  <2> QED
    BY <1>12, <2>1, LenProperties
<1>14. PICK t : t = SortedIds(confs, os, list, info)
  OBVIOUS
<1>15. t = [k \in 1 .. n |-> b[o[k]]]
  BY <1>1, <1>2, <1>3, <1>5, <1>6, <1>14 DEF SortedIds
<1>16. t \in [1 .. n -> R]
  BY <1>6, <1>13, <1>15
<1>17. \A i, j \in 1 .. n : t[i] = t[j] => i = j
  <2> SUFFICES ASSUME NEW i \in 1 .. n, NEW j \in 1 .. n, t[i] = t[j] PROVE i = j
    OBVIOUS
  <2>1. PICK u, v : u = o[i] /\ v = o[j]
    OBVIOUS
  <2>2. u \in 1 .. n /\ v \in 1 .. n /\ b[u] = b[v]
    BY <1>13, <1>15, <2>1
  <2>3. u = v
    BY <1>6, <2>2
  <2> QED
    BY <1>13, <2>1, <2>3
<1>18. t \in Surjection(1 .. n, R)
  <2>1. t \in Injection(1 .. n, R)
    BY <1>16, <1>17 DEF Injection, IsInjective
  <2>2. IsFiniteSet(1 .. n) /\ Cardinality(1 .. n) = n
    BY <1>6, FS_Interval
  <2> QED
    BY <1>6, <2>1, <2>2, FS_Injection
<1>19. Range(t) = R
  <2>1. DOMAIN t = 1 .. n
    BY <1>16
  <2> QED
    BY <1>16, <1>18, <2>1 DEF Surjection, Range
<1>20. t \in Seq(R) /\ Len(t) = n
  BY <1>6, <1>16
<1> QED
  BY <1>4, <1>14, <1>17, <1>19, <1>20 DEF Permutes, Once

\* New groups come to the configured ones (_ensure_group_config).
LEMMA EnsureSetsKeeps ==
  ASSUME NEW confs, SetsInv(confs), NEW names, Listed(names)
  PROVE  SetsInv(EnsureSets(confs, names))
<1> DEFINE Ensure(cs, n) == IF n \in Range(SetGroups(cs)) THEN cs ELSE Append(cs, Unconfigured(n))
<1>1. \A cs, n : SetsInv(cs) => SetsInv(Ensure(cs, n))
  <2> SUFFICES ASSUME NEW cs, NEW n, SetsInv(cs) PROVE SetsInv(Append(cs, Unconfigured(n)))
    OBVIOUS
  <2>1. PICK u, new : u = Unconfigured(n) /\ new = Append(cs, u)
    OBVIOUS
  <2>2. Listed(u.before) /\ Listed(u.after)
    BY <2>1, ListedIs DEF Unconfigured
  <2>3. PICK l : l = Len(cs)
    OBVIOUS
  <2>4. Listed(new) /\ l \in Nat /\ DOMAIN cs = 1 .. l
    BY <2>1, <2>3, ListedIs DEF SetsInv
  <2>5. cs \in Seq({cs[k] : k \in DOMAIN cs})
    BY DEF SetsInv, Listed
  <2>6. DOMAIN new = 1 .. (l + 1) /\ new[l + 1] = u /\ \A k \in 1 .. l : new[k] = cs[k]
    BY <2>1, <2>3, <2>4, <2>5, AppendProperties
  <2>7. \A k \in 1 .. (l + 1) : k = l + 1 \/ k \in 1 .. l
    BY <2>4
  <2>8. \A k \in DOMAIN new : Listed(new[k].before) /\ Listed(new[k].after)
    BY <2>2, <2>4, <2>6, <2>7 DEF SetsInv
  <2> QED
    BY <2>1, <2>4, <2>8 DEF SetsInv
<1>2. PICK n : n = Len(names)
  OBVIOUS
<1>3. n \in Nat
  BY <1>2, ListedIs
<1>4. Inductive(LAMBDA cs, m : Ensure(cs, m), LAMBDA v, k : SetsInv(v), confs, names, n)
  BY <1>1 DEF Inductive
<1>5. Attained(LAMBDA cs, m : Ensure(cs, m), LAMBDA v, k : SetsInv(v), confs, names, n)
  BY <1>2, <1>3, <1>4, AccumulatedKeeps
<1> QED
  BY <1>5 DEF Attained, EnsureSets

-----------------------------------------------------------------------------
(* The inductive invariant.                                                *)

RegistryInv ==
  /\ SetsInv(sets) /\ OrdersInv(orders) /\ DetailsInv(details)
  /\ systems \in Seq(Ids) /\ Once(systems)
  /\ frame \in Seq(Ids) /\ (pc = "python" => frame # <<>>)
  /\ schema \in Nat
  /\ refused \subseteq Ids /\ refused \intersect Range(systems) = {}
  /\ HeldInv(cache, held, details, Range(systems), Range(systems), orphans)

\* The ids are the numbers up to the last one.
LEMMA IdsAre ==
  ASSUME RegistryInv
  PROVE  /\ Len(details) \in Nat /\ Ids = 1 .. Len(details)
         /\ held \in [Ids -> Holding] /\ held \in Seq(Holding) /\ Len(held) = Len(details)
         /\ Range(systems) \in SUBSET Ids
         /\ DOMAIN systems = 1 .. Len(systems) /\ Len(systems) \in Nat
<1>1. PICK n, m : n = Len(details) /\ m = Len(systems)
  OBVIOUS
<1>2. n \in Nat /\ Ids = 1 .. n
  BY <1>1, ListedIs DEF RegistryInv, DetailsInv, Ids
<1>3. held \in [Ids -> Holding]
  BY DEF RegistryInv, HeldInv, Ids
<1>4. held \in Seq(Holding) /\ Len(held) = n
  BY <1>2, <1>3
<1>5. systems \in Seq(Ids)
  BY DEF RegistryInv
<1>6. m \in Nat /\ DOMAIN systems = 1 .. m /\ systems \in [1 .. m -> Ids]
  BY <1>1, <1>5, LenProperties
<1>7. Range(systems) \in SUBSET Ids
  BY <1>6 DEF Range
<1> QED
  BY <1>1, <1>2, <1>3, <1>4, <1>6, <1>7

\* The groups of a request make a sequence.
LEMMA GroupsListed ==
  ASSUME NEW r \in Requests
  PROVE  Listed(GroupsFor(r)) /\ Listed(r.before) /\ Listed(r.after)
<1>1. Listed(r.groups) /\ Listed(r.before) /\ Listed(r.after)
  BY RegistryAssumption
<1>2. Listed(<<Implicit[r.name]>>)
  <2>1. PICK x : x = Implicit[r.name]
    OBVIOUS
  <2>2. <<x>> \in Seq({x})
    OBVIOUS
  <2> QED
    BY <2>1, <2>2, ListedIs
<1> QED
  BY <1>1, <1>2 DEF GroupsFor

\* The records with the new system's: the numbers are those up to n.
LEMMA WithSystemIs ==
  ASSUME RegistryInv, NEW r \in Requests, NEW n, n = Len(details) + 1,
         NEW all, all = WithSystem(r)
  PROVE  /\ DetailsInv(all) /\ DOMAIN all = 1 .. n /\ DOMAIN all = Ids \union {n}
         /\ n \in Nat /\ n \notin Ids
         /\ \A i \in Ids : all[i] = details[i]
         /\ all[n].plan = r.plan
         /\ NewList \in Seq(DOMAIN all) /\ Once(NewList)
         /\ Range(NewList) = Range(systems) \union {n}
<1>1. PICK l : l = Len(details)
  OBVIOUS
<1>2. l \in Nat /\ Ids = 1 .. l /\ n = l + 1
  BY <1>1, IdsAre
<1>3. PICK new : new = Scheduled(r)
  OBVIOUS
<1>4. /\ Listed(new.groups) /\ Listed(new.before) /\ Listed(new.after) /\ new.plan = r.plan
  BY <1>3, GroupsListed DEF Scheduled
<1>5. all = Append(details, new)
  BY <1>3 DEF WithSystem
<1>6. Listed(details) /\ Listed(all)
  BY <1>5, ListedIs DEF RegistryInv, DetailsInv
<1>7. DOMAIN all = 1 .. n /\ all[n] = new /\ \A i \in Ids : all[i] = details[i]
  BY <1>1, <1>2, <1>5, <1>6, AppendProperties DEF Listed
<1>8. DOMAIN all = Ids \union {n} /\ n \in Nat /\ n \notin Ids
  BY <1>2, <1>7
<1>9. DetailsInv(all)
  BY <1>4, <1>6, <1>7, <1>8 DEF RegistryInv, DetailsInv, Ids
<1>10. PICK t, m : t = NewList /\ m = Len(systems)
  OBVIOUS
<1>11. /\ m \in Nat /\ systems \in [1 .. m -> Ids] /\ systems \in Seq(DOMAIN all)
       /\ DOMAIN systems = 1 .. m
  <2>1. systems \in [1 .. m -> Ids] /\ m \in Nat
    BY <1>10, LenProperties DEF RegistryInv
  <2>2. systems \in [1 .. m -> DOMAIN all]
    BY <1>8, <2>1
  <2> QED
    BY <2>1, <2>2
<1>12. /\ t \in Seq(DOMAIN all) /\ Len(t) = m + 1 /\ t[m + 1] = n
       /\ \A k \in 1 .. m : t[k] = systems[k]
  BY <1>1, <1>2, <1>8, <1>10, <1>11, AppendProperties DEF NewList
<1>13. Once(t)
  <2>1. \A i, j \in 1 .. m : systems[i] = systems[j] => i = j
    BY <1>10 DEF RegistryInv, Once
  <2>2. \A k \in 1 .. m : t[k] # n
    BY <1>8, <1>11, <1>12
  <2>3. \A k \in 1 .. (m + 1) : k \in 1 .. m \/ k = m + 1
    BY <1>11
  <2> QED
    BY <1>12, <2>1, <2>2, <2>3 DEF Once
<1>14. Range(t) = Range(systems) \union {n}
  <2>1. DOMAIN t = 1 .. (m + 1)
    BY <1>12, LenProperties
  <2>2. \A k : k \in 1 .. (m + 1) <=> k \in 1 .. m \/ k = m + 1
    BY <1>11
  <2>3. \A x : x \in Range(t) <=> x = n \/ \E k \in 1 .. m : x = systems[k]
    BY <1>12, <2>1, <2>2 DEF Range
  <2>4. \A x : x \in Range(systems) <=> \E k \in 1 .. m : x = systems[k]
    BY <1>11 DEF Range
  <2> QED
    BY <2>3, <2>4
<1> QED
  BY <1>4, <1>7, <1>8, <1>9, <1>10, <1>12, <1>13, <1>14

\* The new system may hold a plan (prepare_scheduled_physical_plan).
LEMMA PreparedKeeps ==
  ASSUME RegistryInv, NEW r \in Requests, NEW st \in Prepared(r),
         NEW n, n = Len(details) + 1, NEW all, all = WithSystem(r),
         NEW now, now = Range(systems) \union {n}
  PROVE  /\ HeldInv(st.cache, st.held, all, now, now, orphans)
         /\ \A i \in Ids : st.held[i] = held[i]
<1>1. /\ n \in Nat /\ n \notin Ids /\ DOMAIN all = 1 .. n /\ DOMAIN all = Ids \union {n}
      /\ \A i \in Ids : all[i] = details[i]
      /\ all[n].plan = r.plan
  BY WithSystemIs
<1>2. PICK R : R = Range(systems)
  OBVIOUS
<1>3. /\ Len(details) \in Nat /\ held \in Seq(Holding) /\ Len(held) = Len(details)
      /\ Ids = 1 .. Len(details) /\ R \in SUBSET Ids
  BY <1>2, IdsAre
<1>4. PICK hs : hs = Append(held, NoHandle)
  OBVIOUS
<1>5. NoHandle \in Holding /\ NoHandle.handle = 0
  BY DEF NoHandle, Holding
<1>6. /\ hs \in [DOMAIN all -> Holding] /\ hs[n] = NoHandle
      /\ \A i \in Ids : hs[i] = held[i]
  <2>1. /\ hs \in Seq(Holding) /\ Len(hs) = n /\ hs[n] = NoHandle
        /\ \A i \in 1 .. Len(details) : hs[i] = held[i]
    BY <1>3, <1>4, <1>5, AppendProperties
  <2>2. hs \in [1 .. n -> Holding]
    BY <2>1, LenProperties
  <2> QED
    BY <1>1, <1>3, <2>1, <2>2
<1>7. HeldInv(cache, hs, all, now, R, orphans)
  <2>1. HeldInv(cache, held, details, R, R, orphans)
    BY <1>2 DEF RegistryInv
  <2> QED
    BY <1>1, <1>2, <1>3, <1>5, <1>6, <2>1, HeldExtended DEF Ids
<1>8. now \in SUBSET DOMAIN all /\ R \in SUBSET DOMAIN all /\ R \subseteq now
  BY <1>1, <1>2, <1>3
<1>9. PICK from : from = [cache |-> cache, held |-> hs]
  OBVIOUS
<1>10. from.cache = cache /\ from.held = hs
  BY <1>9
<1>11. CASE st = from
  <2>1. HeldInv(cache, hs, all, now, now, orphans)
    BY <1>2, <1>7, <1>8, HeldGrows
  <2> QED
    BY <1>6, <1>10, <1>11, <2>1
<1>12. PICK content : content = [plan |-> r.plan, schema |-> schema, keys |-> r.keys]
  OBVIOUS
<1>13. PICK done : done = Compile(from, n, content)
  OBVIOUS
<1>14. /\ HeldInv(done.cache, done.held, all, now, now, orphans)
       /\ OneCompiled(done, cache, hs, n, content)
  <2>1. PICK k, info, both : k = n /\ info = all /\ both = now
    OBVIOUS
  <2>2. content.plan = info[k].plan /\ content.schema \in Nat
    BY <1>1, <1>12, <2>1 DEF RegistryInv
  <2>3. /\ R \subseteq both /\ k \in both /\ k \in DOMAIN info
        /\ both \in SUBSET DOMAIN info /\ R \in SUBSET DOMAIN info
    BY <1>1, <1>2, <1>8, <2>1
  <2>4. /\ cache = from.cache /\ hs = from.held /\ done = Compile(from, k, content)
        /\ HeldInv(cache, hs, info, both, R, orphans)
    BY <1>7, <1>10, <1>13, <2>1
  <2>5. /\ HeldInv(done.cache, done.held, info, both, both, orphans)
        /\ OneCompiled(done, cache, hs, k, content)
    BY <2>2, <2>3, <2>4, CompileKeeps
  <2> QED
    BY <2>1, <2>5
<1>15. \A i \in Ids : done.held[i] = held[i]
  <2>1. \A i \in Ids : i \in DOMAIN hs \ {n}
    BY <1>1, <1>6
  <2> QED
    BY <1>6, <1>14, <2>1 DEF OneCompiled
<1>16. CASE st = done
  BY <1>14, <1>15, <1>16
<1>17. CASE st = [cache |-> Indexed(done.cache, {cache.next}), held |-> done.held]
  <2>1. PICK read : read = {cache.next}
    OBVIOUS
  <2>2. read \subseteq DOMAIN done.cache.handles
    BY <1>14, <2>1 DEF OneCompiled
  <2>3. st.cache = Indexed(done.cache, read) /\ st.held = done.held
    BY <1>17, <2>1
  <2>4. HeldInv(st.cache, done.held, all, now, now, orphans)
    BY <1>14, <2>2, <2>3, HeldIndexed
  <2> QED
    BY <1>15, <2>3, <2>4
<1>18. \/ st = from \/ st = done
       \/ st = [cache |-> Indexed(done.cache, {cache.next}), held |-> done.held]
  BY <1>4, <1>9, <1>12, <1>13 DEF Prepared
<1> QED
  BY <1>11, <1>16, <1>17, <1>18

-----------------------------------------------------------------------------
(* The calls.                                                              *)

\* A new system whose plan cannot be prepared leaves its groups only.
LEMMA AddUnpreparedInv ==
  ASSUME RegistryInv, NEW r \in Requests, AddUnprepared(r)
  PROVE  RegistryInv'
<1>1. /\ sets' = EnsureSets(sets, GroupsFor(r)) /\ orders' = orders /\ schema' = schema
      /\ frame' = frame /\ pc' = pc /\ orphans' = orphans /\ refused' = refused
      /\ systems' = systems /\ details' = details /\ held' = held /\ cache' = cache
  BY DEF AddUnprepared, NewSystem, frameVars
<1>2. SetsInv(sets')
  BY <1>1, GroupsListed, EnsureSetsKeeps DEF RegistryInv
<1> QED
  BY <1>1, <1>2 DEF RegistryInv, Ids

\* A new system that is accepted holds its plan (add_system).
LEMMA AddAcceptedInv ==
  ASSUME RegistryInv, NEW r \in Requests, AddAccepted(r)
  PROVE  RegistryInv'
<1>1. /\ sets' = EnsureSets(sets, GroupsFor(r)) /\ orders' = orders /\ schema' = schema
      /\ frame' = frame /\ pc' = pc /\ orphans' = orphans /\ refused' = refused
  BY DEF AddAccepted, NewSystem, frameVars
<1>2. PICK n, all, list : n = Len(details) + 1 /\ all = WithSystem(r) /\ list = NewList
  OBVIOUS
<1>3. /\ DetailsInv(all) /\ DOMAIN all = 1 .. n /\ DOMAIN all = Ids \union {n}
      /\ n \in Nat /\ n \notin Ids
      /\ list \in Seq(DOMAIN all) /\ Once(list)
      /\ Range(list) = Range(systems) \union {n}
  BY <1>2, WithSystemIs
<1>4. PICK now : now = Range(systems) \union {n}
  OBVIOUS
<1>5. SetsInv(sets')
  BY <1>1, GroupsListed, EnsureSetsKeeps DEF RegistryInv
<1>6. Permutes(systems', list)
  <2>1. /\ Sorts(sets', orders, list, all)
        /\ systems' = SortedIds(sets', orders, list, all)
    BY <1>2 DEF AddAccepted
  <2>2. OrdersInv(orders)
    BY DEF RegistryInv
  <2> QED
    BY <1>3, <1>5, <2>1, <2>2, SortPermutes
<1>7. details' = all
  BY <1>2 DEF AddAccepted
<1>8. HeldInv(cache', held', all, now, now, orphans)
  <2>1. PICK st \in Prepared(r) : held' = st.held /\ cache' = st.cache
    BY DEF AddAccepted
  <2>2. HeldInv(st.cache, st.held, all, now, now, orphans)
    BY <1>2, <1>4, PreparedKeeps
  <2> QED
    BY <2>1, <2>2
<1>9. Range(systems') = now
  BY <1>3, <1>4, <1>6 DEF Permutes
<1>10. systems' \in Seq(DOMAIN all) /\ Once(systems')
  <2>1. PICK t, R, S : t = systems' /\ R = Range(list) /\ S = DOMAIN all
    OBVIOUS
  <2>2. t \in Seq(R) /\ Once(t)
    BY <1>6, <2>1 DEF Permutes
  <2>3. R \subseteq S
    BY <1>3, <2>1, IdsAre
  <2>4. t \in [1 .. Len(t) -> R] /\ Len(t) \in Nat
    BY <2>2, LenProperties
  <2>5. t \in [1 .. Len(t) -> S]
    BY <2>3, <2>4
  <2>6. t \in Seq(S)
    BY <2>4, <2>5
  <2> QED
    BY <2>1, <2>2, <2>6
<1>11. frame' \in Seq(DOMAIN all)
  <2>1. PICK t, S : t = frame /\ S = DOMAIN all
    OBVIOUS
  <2>2. t \in [1 .. Len(t) -> Ids] /\ Len(t) \in Nat
    BY <2>1, LenProperties DEF RegistryInv
  <2>3. t \in [1 .. Len(t) -> S]
    BY <1>3, <2>1, <2>2
  <2>4. t \in Seq(S)
    BY <2>2, <2>3
  <2> QED
    BY <1>1, <2>1, <2>4
<1>12. refused' \subseteq DOMAIN all /\ refused' \intersect Range(systems') = {}
  <2>1. n \notin refused /\ refused \subseteq Ids /\ refused \intersect Range(systems) = {}
    BY <1>3 DEF RegistryInv
  <2> QED
    BY <1>1, <1>3, <1>4, <1>9, <2>1
<1>13. OrdersInv(orders') /\ schema' \in Nat /\ (pc' = "python" => frame' # <<>>)
  BY <1>1 DEF RegistryInv
<1>14. HeldInv(cache', held', details', Range(systems'), Range(systems'), orphans')
  BY <1>1, <1>7, <1>8, <1>9
<1> QED
  BY <1>3, <1>5, <1>7, <1>10, <1>11, <1>12, <1>13, <1>14 DEF RegistryInv, Ids

\* A new system that is refused gives its plan back (the rollback of add_system).
LEMMA AddRefusedInv ==
  ASSUME RegistryInv, NEW r \in Requests, AddRefused(r)
  PROVE  RegistryInv'
<1>1. /\ sets' = EnsureSets(sets, GroupsFor(r)) /\ orders' = orders /\ schema' = schema
      /\ frame' = frame /\ pc' = pc /\ orphans' = orphans /\ refused' = refused
      /\ systems' = systems /\ details' = details /\ held' = held
  BY DEF AddRefused, NewSystem, frameVars
<1>2. PICK n, all, R : n = Len(details) + 1 /\ all = WithSystem(r) /\ R = Range(systems)
  OBVIOUS
<1>3. /\ DOMAIN all = 1 .. n /\ DOMAIN all = Ids \union {n}
      /\ n \in Nat /\ n \notin Ids /\ \A i \in Ids : all[i] = details[i]
  BY <1>2, WithSystemIs
<1>4. R \in SUBSET Ids /\ held \in [Ids -> Holding]
  BY <1>2, IdsAre
<1>5. SetsInv(sets')
  BY <1>1, GroupsListed, EnsureSetsKeeps DEF RegistryInv
<1>6. PICK st \in Prepared(r) : cache' = Release(st.cache, Last(st.held).handle)
  BY DEF AddRefused
<1>7. PICK now : now = R \union {n}
  OBVIOUS
<1>8. HeldInv(st.cache, st.held, all, now, now, orphans) /\ \A i \in Ids : st.held[i] = held[i]
  BY <1>2, <1>7, PreparedKeeps
<1>9. Last(st.held) = st.held[n]
  <2>1. st.held \in [1 .. n -> Holding]
    BY <1>3, <1>8 DEF HeldInv
  <2>2. Len(st.held) = n
    BY <1>3, <2>1
  <2> QED
    BY <2>2 DEF Last
<1>10. HeldInv(cache', st.held, all, R, R, orphans)
  <2>1. PICK info, both, k, c, hs, d : /\ info = all /\ both = now /\ k = n
                                      /\ c = st.cache /\ hs = st.held /\ d = cache'
    OBVIOUS
  <2>2. /\ both \in SUBSET DOMAIN info /\ k \in DOMAIN info
        /\ Minus(R, both, k)
    BY <1>3, <1>4, <1>7, <2>1 DEF Minus
  <2>3. HeldInv(c, hs, info, both, both, orphans) /\ d = Release(c, hs[k].handle)
    BY <1>6, <1>8, <1>9, <2>1
  <2>4. HeldInv(d, hs, info, R, R, orphans) /\ hs[k].handle \notin DOMAIN d.handles
    BY <2>2, <2>3, HeldReleased
  <2> QED
    BY <2>1, <2>4
<1>11. HeldInv(cache', held, details, R, R, orphans)
  <2>1. PICK info, some, hs : info = all /\ some = details /\ hs = st.held
    OBVIOUS
  <2>2. /\ DOMAIN some \subseteq DOMAIN info /\ held \in [DOMAIN some -> Holding]
        /\ \A i \in DOMAIN some : held[i] = hs[i] /\ some[i] = info[i]
        /\ R \subseteq DOMAIN some
    BY <1>3, <1>4, <1>8, <2>1 DEF Ids
  <2>3. HeldInv(cache', hs, info, R, R, orphans)
    BY <1>10, <2>1
  <2>4. HeldInv(cache', held, some, R, R, orphans)
    BY <2>2, <2>3, HeldRestricted
  <2> QED
    BY <2>1, <2>4
<1> QED
  BY <1>1, <1>2, <1>5, <1>11 DEF RegistryInv, Ids

\* A removed system gives its plan back (remove_system).
LEMMA RemoveSystemInv ==
  ASSUME RegistryInv, NEW name, RemoveSystem(name)
  PROVE  RegistryInv'
<1>1. /\ sets' = sets /\ orders' = orders /\ schema' = schema /\ held' = held
      /\ frame' = frame /\ pc' = pc /\ orphans' = orphans /\ refused' = refused
      /\ details' = details
  BY DEF RemoveSystem, frameVars
<1>2. PICK i \in Named(name) :
        /\ systems' = Select(systems, {k \in DOMAIN systems : systems[k] # i})
        /\ cache' = Release(cache, held[i].handle)
  BY DEF RemoveSystem
<1>3. PICK R, less : R = Range(systems) /\ less = R \ {i}
  OBVIOUS
<1>4. R \in SUBSET Ids /\ i \in R /\ i \in Ids
  BY <1>2, <1>3, IdsAre DEF Named
<1>5. /\ systems' \in Seq(Ids) /\ Once(systems') /\ Range(systems') = less
  <2>1. PICK t, s, I : t = systems' /\ s = systems /\ I = {k \in DOMAIN s : s[k] # i}
    OBVIOUS
  <2>2. s \in Seq(Ids) /\ Once(s) /\ I \in SUBSET DOMAIN s /\ t = Select(s, I)
    BY <1>2, <2>1 DEF RegistryInv
  <2>3. t \in Seq(Ids) /\ Range(t) = {s[k] : k \in I} /\ Once(t)
    BY <2>2, SelectHas DEF Once
  <2>4. {s[k] : k \in I} = less
    BY <1>3, <2>1 DEF Range
  <2> QED
    BY <2>1, <2>3, <2>4
<1>6. HeldInv(cache', held, details, less, less, orphans)
  <2>1. PICK info, hs, c, d : info = details /\ hs = held /\ c = cache /\ d = cache'
    OBVIOUS
  <2>2. /\ R \in SUBSET DOMAIN info /\ i \in DOMAIN info
        /\ Minus(less, R, i)
    BY <1>3, <1>4, <2>1 DEF Ids, Minus
  <2>3. HeldInv(c, hs, info, R, R, orphans)
    BY <1>3, <2>1 DEF RegistryInv
  <2>4. d = Release(c, hs[i].handle)
    BY <1>2, <2>1
  <2>5. HeldInv(d, hs, info, less, less, orphans) /\ hs[i].handle \notin DOMAIN d.handles
    BY <2>2, <2>3, <2>4, HeldReleased
  <2> QED
    BY <2>1, <2>5
<1>7. refused' \intersect Range(systems') = {}
  BY <1>1, <1>3, <1>5 DEF RegistryInv
<1> QED
  BY <1>1, <1>5, <1>6, <1>7 DEF RegistryInv, Ids

\* A configuration is stored with its group (configure_system_group).
LEMMA ConfigureSystemGroupInv ==
  ASSUME RegistryInv, NEW call \in GroupCalls, ConfigureSystemGroup(call)
  PROVE  RegistryInv'
<1>1. /\ orders' = orders /\ schema' = schema /\ held' = held /\ systems' = systems
      /\ frame' = frame /\ pc' = pc /\ orphans' = orphans /\ refused' = refused
      /\ details' = details /\ cache' = cache
  BY DEF ConfigureSystemGroup, frameVars, planVars
<1>2. PICK ensured : ensured = EnsureSets(sets, <<call.group>>)
  OBVIOUS
<1>3. SetsInv(ensured)
  <2>1. PICK x, names : x = call.group /\ names = <<call.group>>
    OBVIOUS
  <2>2. names \in Seq({x})
    BY <2>1
  <2> QED
    BY <1>2, <2>1, <2>2, ListedIs, EnsureSetsKeeps DEF RegistryInv
<1>4. PICK n : n = Len(ensured)
  OBVIOUS
<1>5. n \in Nat /\ DOMAIN ensured = 1 .. n
  BY <1>3, <1>4, ListedIs DEF SetsInv
<1> DEFINE keep(new, old) == IF new = <<>> THEN old ELSE new
           merged(conf) == IF conf.group # call.group THEN conf
                           ELSE [group  |-> conf.group,
                                 before |-> keep(call.before, conf.before),
                                 after  |-> keep(call.after, conf.after)]
<1>6. sets' = [k \in 1 .. n |-> merged(ensured[k])]
  BY <1>2, <1>5 DEF ConfigureSystemGroup
<1>7. Listed(sets')
  <2>1. sets' = [k \in 1 .. n |-> sets'[k]]
    BY <1>6
  <2> QED
    BY <1>5, <2>1, FunctionListed
<1>8. \A k \in DOMAIN sets' : Listed(sets'[k].before) /\ Listed(sets'[k].after)
  <2> SUFFICES ASSUME NEW k \in 1 .. n PROVE Listed(sets'[k].before) /\ Listed(sets'[k].after)
    BY <1>6
  <2>1. Listed(ensured[k].before) /\ Listed(ensured[k].after)
    BY <1>3, <1>5 DEF SetsInv
  <2>2. Listed(call.before) /\ Listed(call.after)
    BY RegistryAssumption
  <2> QED
    BY <1>6, <2>1, <2>2
<1>9. SetsInv(sets')
  BY <1>7, <1>8 DEF SetsInv
<1> QED
  BY <1>1, <1>9 DEF RegistryInv, Ids

\* An order that is accepted is stored with its groups (configure_group_order).
LEMMA ConfigureGroupOrderInv ==
  ASSUME RegistryInv, NEW order \in OrderCalls, ConfigureGroupOrder(order)
  PROVE  RegistryInv'
<1>1. /\ sets' = EnsureSets(sets, order) /\ orders' = Append(orders, order)
      /\ schema' = schema /\ held' = held /\ systems' = systems
      /\ frame' = frame /\ pc' = pc /\ orphans' = orphans /\ refused' = refused
      /\ details' = details /\ cache' = cache
  BY DEF ConfigureGroupOrder, frameVars, planVars
<1>2. Listed(order)
  BY RegistryAssumption
<1>3. SetsInv(sets')
  BY <1>1, <1>2, EnsureSetsKeeps DEF RegistryInv
<1>4. OrdersInv(orders')
  <2>1. PICK os, new, l : os = orders /\ new = orders' /\ l = Len(os)
    OBVIOUS
  <2>2. Listed(os) /\ l \in Nat /\ DOMAIN os = 1 .. l /\ \A k \in 1 .. l : Listed(os[k])
    BY <2>1, ListedIs DEF RegistryInv, OrdersInv
  <2>3. new = Append(os, order)
    BY <1>1, <2>1
  <2>4. Listed(new)
    BY <2>2, <2>3, ListedIs
  <2>5. DOMAIN new = 1 .. (l + 1) /\ new[l + 1] = order /\ \A k \in 1 .. l : new[k] = os[k]
    BY <2>1, <2>2, <2>3 DEF Listed
  <2>6. \A k \in 1 .. (l + 1) : k = l + 1 \/ k \in 1 .. l
    BY <2>2
  <2>7. \A k \in DOMAIN new : Listed(new[k])
    BY <1>2, <2>2, <2>5, <2>6
  <2> QED
    BY <2>1, <2>4, <2>7 DEF OrdersInv
<1> QED
  BY <1>1, <1>3, <1>4 DEF RegistryInv, Ids

\* The schema grows (register_component).
LEMMA RegisterSchemaInv ==
  ASSUME RegistryInv, RegisterSchema
  PROVE  RegistryInv'
BY DEF RegistryInv, RegisterSchema, Ids, scheduleVars, planVars, frameVars

-----------------------------------------------------------------------------
(* The frame.                                                              *)

\* The frame's snapshot is the sorted systems (run_sorted_systems).
LEMMA StartFrameInv ==
  ASSUME RegistryInv, StartFrame
  PROVE  RegistryInv'
<1>1. /\ frame' = SortedIds(sets, orders, systems, details)
      /\ Sorts(sets, orders, systems, details) /\ pc' = "frame"
      /\ sets' = sets /\ orders' = orders /\ systems' = systems /\ details' = details
      /\ schema' = schema /\ held' = held /\ cache' = cache /\ orphans' = orphans
      /\ refused' = refused
  BY DEF StartFrame, scheduleVars, planVars
<1>2. Permutes(frame', systems)
  BY <1>1, SortPermutes DEF RegistryInv, Ids
<1>3. frame' \in Seq(Ids)
  <2>1. PICK t, R : t = frame' /\ R = Range(systems)
    OBVIOUS
  <2>2. t \in [1 .. Len(t) -> R] /\ Len(t) \in Nat
    BY <1>2, <2>1, LenProperties DEF Permutes
  <2>3. t \in [1 .. Len(t) -> Ids]
    BY <2>1, <2>2, IdsAre
  <2>4. t \in Seq(Ids)
    BY <2>2, <2>3
  <2> QED
    BY <2>1, <2>4
<1> QED
  BY <1>1, <1>3 DEF RegistryInv, Ids

\* The steps that only move the frame on.
LEMMA FrameMovesInv ==
  ASSUME RegistryInv, EndFrame \/ SkipSystem \/ EnterPython \/ LeavePython
  PROVE  RegistryInv'
<1>1. /\ sets' = sets /\ orders' = orders /\ systems' = systems /\ details' = details
      /\ schema' = schema /\ held' = held /\ cache' = cache /\ orphans' = orphans
      /\ refused' = refused
  BY DEF EndFrame, SkipSystem, EnterPython, LeavePython, scheduleVars, planVars
<1>2. frame \in Seq(Ids) /\ (pc = "python" => frame # <<>>)
  BY DEF RegistryInv
<1>3. \/ frame' = frame /\ (pc' = "python" => frame # <<>>)
      \/ frame # <<>> /\ frame' = Tail(frame) /\ pc' = "frame"
      \/ frame' = <<>> /\ pc' = "idle"
  BY <1>2 DEF EndFrame, SkipSystem, EnterPython, LeavePython
<1>4. frame' \in Seq(Ids) /\ (pc' = "python" => frame' # <<>>)
  <2>1. CASE frame' = frame /\ (pc' = "python" => frame # <<>>)
    BY <1>2, <2>1
  <2>2. CASE frame # <<>> /\ frame' = Tail(frame) /\ pc' = "frame"
    BY <1>2, <2>2, HeadTailProperties
  <2>3. CASE frame' = <<>> /\ pc' = "idle"
    <3>1. <<>> \in Seq(Ids)
      OBVIOUS
    <3> QED
      BY <2>3, <3>1
  <2> QED
    BY <1>3, <2>1, <2>2, <2>3
<1> QED
  BY <1>1, <1>4 DEF RegistryInv, Ids

\* A child of a sequence leaves nothing behind (run_physical_plan_child).
LEMMA RunChildInv ==
  ASSUME RegistryInv, RunChild
  PROVE  RegistryInv'
<1>1. PICK i, R : i = Head(frame) /\ R = Range(systems)
  OBVIOUS
<1>2. /\ i \in Ids /\ R \in SUBSET Ids /\ DOMAIN held = Ids /\ held \in [Ids -> Holding]
  <2>1. frame \in Seq(Ids) /\ frame # <<>>
    BY DEF RegistryInv, RunChild
  <2> QED
    BY <1>1, <2>1, HeadTailProperties, IdsAre
<1>3. PICK st : st = Compile(Current, i, Content(i))
  OBVIOUS
<1>4. PICK c, d, read : c = st.cache /\ read = {cache.next} /\ d = Indexed(c, read)
  OBVIOUS
<1>5. /\ cache' = Release(d, cache.next) /\ held' = [held EXCEPT ![i] = NoHandle]
      /\ sets' = sets /\ orders' = orders /\ systems' = systems /\ details' = details
      /\ schema' = schema /\ orphans' = orphans /\ refused' = refused
      /\ \/ frame' = frame /\ pc' = pc
         \/ frame' = <<>> /\ pc' = "idle"
  BY <1>1, <1>3, <1>4 DEF RunChild, scheduleVars, frameVars
<1>6. frame' \in Seq(Ids) /\ (pc' = "python" => frame' # <<>>)
  <2>1. <<>> \in Seq(Ids)
    OBVIOUS
  <2> QED
    BY <1>5, <2>1 DEF RegistryInv
<1>7. PICK more : more = R \union {i}
  OBVIOUS
<1>8. R \subseteq more /\ i \in more /\ more \in SUBSET Ids
  BY <1>2, <1>7
<1>9. PICK content : content = Content(i)
  OBVIOUS
<1>10. content.plan = details[i].plan /\ content.schema \in Nat
  BY <1>9 DEF Content, RegistryInv
<1>11. /\ HeldInv(c, st.held, details, R, more, orphans)
       /\ OneCompiled(st, cache, held, i, content)
  <2>1. PICK from : from = Current
    OBVIOUS
  <2>2. cache = from.cache /\ held = from.held /\ st = Compile(from, i, content)
    BY <1>3, <1>9, <2>1 DEF Current
  <2>3. HeldInv(cache, held, details, R, R, orphans)
    BY <1>1 DEF RegistryInv
  <2> QED
    BY <1>2, <1>4, <1>8, <1>10, <2>2, <2>3, CompileKeeps DEF Ids
<1>12. st.held[i].handle = cache.next /\ \A j \in Ids : j # i => st.held[j] = held[j]
  <2>1. st.held[i] = [handle |-> cache.next, schema |-> content.schema]
    BY <1>11 DEF OneCompiled
  <2>2. \A j \in Ids : j # i => st.held[j] = held[j]
    BY <1>2, <1>11 DEF OneCompiled
  <2> QED
    BY <2>1, <2>2
<1>13. HeldInv(d, st.held, details, R, more, orphans)
  <2>1. read \subseteq DOMAIN c.handles
    BY <1>4, <1>11 DEF OneCompiled
  <2> QED
    BY <1>4, <1>11, <2>1, HeldIndexed
<1>14. PICK less : less = R \ {i}
  OBVIOUS
<1>15. /\ HeldInv(cache', st.held, details, less, less, orphans)
       /\ st.held[i].handle \notin DOMAIN cache'.handles
  <2>1. PICK hs, info, e : hs = st.held /\ info = details /\ e = cache'
    OBVIOUS
  <2>2. /\ R \in SUBSET DOMAIN info /\ more \in SUBSET DOMAIN info /\ i \in DOMAIN info
        /\ Minus(less, R, i) /\ Minus(less, more, i)
    BY <1>2, <1>7, <1>8, <1>14, <2>1 DEF Ids, Minus
  <2>3. HeldInv(d, hs, info, R, more, orphans) /\ e = Release(d, hs[i].handle)
    BY <1>5, <1>12, <1>13, <2>1
  <2>4. HeldInv(e, hs, info, less, less, orphans) /\ hs[i].handle \notin DOMAIN e.handles
    BY <2>2, <2>3, HeldReleased
  <2> QED
    BY <2>1, <2>4
<1>16. HeldInv(cache', held', details, R, R, orphans)
  <2>1. PICK hs, info, new, X : hs = st.held /\ info = details /\ new = held' /\ X = {i}
    OBVIOUS
  <2>2. NoHandle \in Holding /\ NoHandle.handle = 0
    BY DEF NoHandle, Holding
  <2>3. new \in [Ids -> Holding] /\ new[i] = NoHandle /\ \A j \in Ids : j # i => new[j] = held[j]
    BY <1>2, <1>5, <2>1, <2>2
  <2>4. /\ X \in SUBSET DOMAIN info /\ R \in SUBSET DOMAIN info /\ less \in SUBSET DOMAIN info
        /\ R \subseteq less \union X /\ less \ X \subseteq R
        /\ new \in [DOMAIN info -> Holding]
    BY <1>2, <1>14, <2>1, <2>3 DEF Ids
  <2>5. /\ \A j \in X : new[j].handle = 0
        /\ \A j \in DOMAIN info \ X : new[j] = hs[j]
        /\ \A j \in X : hs[j].handle \in DOMAIN cache'.handles => hs[j].handle \in orphans
    BY <1>12, <1>15, <2>1, <2>2, <2>3 DEF Ids
  <2>6. HeldInv(cache', hs, info, less, less, orphans)
    BY <1>15, <2>1
  <2>7. Forgets(cache', hs, new, info, X, orphans)
    BY <2>4, <2>5 DEF Forgets
  <2>8. HeldInv(cache', new, info, R, R, orphans)
    BY <2>4, <2>6, <2>7, HeldForgotten
  <2> QED
    BY <2>1, <2>8
<1> QED
  BY <1>1, <1>5, <1>6, <1>16 DEF RegistryInv, Ids

\* A prefix of a sequence.
LEMMA PrefixIs ==
  ASSUME NEW S, NEW s \in Seq(S), NEW k \in 0 .. Len(s), NEW t, t = SubSeq(s, 1, k)
  PROVE  t \in Seq(S) /\ Len(t) = k /\ Range(t) \subseteq Range(s)
<1>1. PICK n : n = Len(s)
  OBVIOUS
<1>2. n \in Nat /\ s \in [1 .. n -> S] /\ k \in 0 .. n
  BY <1>1, LenProperties
<1>3. \A i \in 1 .. k : i \in 1 .. n /\ s[i] \in S
  BY <1>2
<1>4. k - 1 + 1 = k /\ \A i \in 1 .. k : 1 + i - 1 = i
  BY <1>2
<1>5. t \in Seq(S) /\ Len(t) = k /\ \A i \in 1 .. k : t[i] = s[i]
  BY <1>2, <1>3, <1>4, SubSeqProperties
<1>6. DOMAIN t = 1 .. k /\ DOMAIN s = 1 .. n
  BY <1>2, <1>5, LenProperties
<1>7. Range(t) \subseteq Range(s)
  BY <1>3, <1>5, <1>6 DEF Range
<1> QED
  BY <1>5, <1>7

\* The members of a batch are systems of the frame, and so are those after it
\* (_collect_physical_batch).
LEMMA BatchIs ==
  ASSUME RegistryInv, NEW B \in Batches, NEW ids, ids = BatchIds(B)
  PROVE  /\ ids \in Seq(Ids) /\ Range(ids) \in SUBSET Ids
         /\ SubSeq(frame, Max(B) + 1, Len(frame)) \in Seq(Ids)
<1>1. PICK n : n = Len(frame)
  OBVIOUS
<1>2. /\ n \in Nat /\ frame \in [1 .. n -> Ids] /\ DOMAIN frame = 1 .. n
      /\ frame \in Seq(Ids)
  BY <1>1, LenProperties DEF RegistryInv
<1>3. B \in SUBSET (DOMAIN frame) /\ B # {}
  BY DEF Batches
<1>4. ids \in Seq(Ids)
  <2>1. PICK s : s = frame
    OBVIOUS
  <2>2. s \in Seq(Ids) /\ B \in SUBSET (DOMAIN s) /\ ids = Select(s, B)
    BY <1>2, <1>3, <2>1 DEF BatchIds
  <2> QED
    BY <2>2, SelectHas
<1>5. Range(ids) \in SUBSET Ids
  BY <1>4, LenProperties DEF Range
<1>6. PICK m : m = Max(B)
  OBVIOUS
<1>7. m \in 1 .. n
  <2>1. B \in SUBSET (1 .. n)
    BY <1>2, <1>3
  <2>2. \E k \in B : \A j \in B : j <= k
    BY <1>2, <1>3, <2>1, GreatestNumber
  <2>3. \A j, k \in B : j <= k <=> k >= j
    BY <1>2, <2>1
  <2>4. \E k \in B : \A j \in B : k >= j
    BY <2>2, <2>3
  <2>5. m \in B
    BY <1>6, <2>4 DEF Max
  <2> QED
    BY <2>1, <2>5
<1>8. SubSeq(frame, m + 1, n) \in Seq(Ids)
  <2>1. m + 1 \in Int /\ n \in Int
    BY <1>2, <1>7
  <2>2. \A i \in (m + 1) .. n : frame[i] \in Ids
    BY <1>2, <1>7
  <2> QED
    BY <2>1, <2>2, SubSeqProperties
<1> QED
  BY <1>1, <1>4, <1>5, <1>6, <1>8

\* What the plans of a batch's members are after the first of them, or all, have
\* been brought up to date.
LEMMA BatchRefreshed ==
  ASSUME RegistryInv, NEW ids \in Seq(Ids), NEW st, st = Refreshed(ids),
         NEW R, R = Range(systems), NEW more, more = R \union Range(ids)
  PROVE  /\ HeldInv(st.cache, st.held, details, R, more, orphans)
         /\ \A i \in Range(ids) : i \in R => Runnable(st, i)
         /\ R \in SUBSET Ids /\ more \in SUBSET Ids
<1>1. HeldInv(cache, held, details, Range(systems), Range(systems), orphans) /\ schema \in Nat
  BY DEF RegistryInv
<1>2. R \in SUBSET Ids
  BY IdsAre
<1>3. PICK n : n = Len(ids)
  OBVIOUS
<1>4. RefreshInv(st, ids, n)
  BY <1>1, <1>2, <1>3, RefreshedKeeps
<1>5. n \in Nat /\ ids \in [1 .. n -> Ids] /\ DOMAIN ids = 1 .. n
  BY <1>3, LenProperties
<1>6. HeldInv(st.cache, st.held, details, R, more, orphans)
  BY <1>4 DEF RefreshInv
<1>7. \A m \in 1 .. n : ids[m] \in R => Runnable(st, ids[m])
  BY <1>4 DEF RefreshInv
<1>8. \A i \in Range(ids) : \E m \in 1 .. n : i = ids[m]
  BY <1>5 DEF Range
<1>9. more \in SUBSET Ids
  BY <1>2, <1>5, <1>8
<1> QED
  BY <1>2, <1>6, <1>7, <1>8, <1>9

\* A batch that falls back leaves the plans it has compiled with their holders
\* (run_physical_systems_batch).
LEMMA BatchFallsBackInv ==
  ASSUME RegistryInv, BatchFallsBack
  PROVE  RegistryInv'
<1>1. /\ sets' = sets /\ orders' = orders /\ systems' = systems /\ details' = details
      /\ schema' = schema /\ refused' = refused /\ frame' = frame /\ pc' = pc
  BY DEF BatchFallsBack, scheduleVars, frameVars
<1>2. PICK B \in Batches :
        LET ids == BatchIds(B)
            stop == {k \in DOMAIN ids : details[ids[k]].kind = "dynamic"}
        IN /\ Len(ids) > 1 /\ stop # {}
           /\ LET st == Refreshed(SubSeq(ids, 1, Min(stop) - 1)) IN
                held' = st.held /\ cache' = st.cache
                  /\ orphans' = orphans \union
                       HandlesOf(st, Range(ids) \ Range(systems), st.cache)
  BY DEF BatchFallsBack
<1>3. PICK ids, stop : /\ ids = BatchIds(B)
                       /\ stop = {k \in DOMAIN ids : details[ids[k]].kind = "dynamic"}
  OBVIOUS
<1>4. PICK k, pre : k = Min(stop) - 1 /\ pre = SubSeq(ids, 1, k)
  OBVIOUS
<1>5. PICK st : st = Refreshed(pre)
  OBVIOUS
<1>6. /\ stop # {} /\ held' = st.held /\ cache' = st.cache
      /\ orphans' = orphans \union HandlesOf(st, Range(ids) \ Range(systems), st.cache)
  BY <1>2, <1>3, <1>4, <1>5
<1>7. ids \in Seq(Ids)
  BY <1>3, BatchIs
<1>8. k \in 0 .. Len(ids)
  <2>1. PICK n : n = Len(ids)
    OBVIOUS
  <2>2. n \in Nat /\ DOMAIN ids = 1 .. n
    BY <1>7, <2>1, LenProperties
  <2>3. stop \in SUBSET (1 .. n) /\ stop \in SUBSET Nat
    BY <1>3, <2>2
  <2>4. \E j \in stop : \A i \in stop : j <= i
    BY <1>6, <2>3, LeastNumber
  <2>5. Min(stop) \in stop
    BY <2>4 DEF Min
  <2>6. PICK m : m = Min(stop)
    OBVIOUS
  <2>7. m \in 1 .. n /\ k = m - 1
    BY <1>4, <2>3, <2>5, <2>6
  <2> QED
    BY <2>1, <2>2, <2>7
<1>9. pre \in Seq(Ids) /\ Range(pre) \subseteq Range(ids)
  BY <1>4, <1>7, <1>8, PrefixIs
<1>10. PICK R, more : R = Range(systems) /\ more = R \union Range(pre)
  OBVIOUS
<1>11. HeldInv(st.cache, st.held, details, R, more, orphans)
  BY <1>5, <1>9, <1>10, BatchRefreshed
<1>12. HeldInv(cache', held', details, R, R, orphans')
  <2>1. PICK c, hs, gone, info : c = st.cache /\ hs = st.held /\ gone = orphans' /\ info = details
    OBVIOUS
  <2>2. \A g \in DOMAIN c.handles :
          (\E i \in more : hs[i].handle = g) => g \in gone \/ \E i \in R : hs[i].handle = g
    BY <1>6, <1>9, <1>10, <2>1 DEF HandlesOf
  <2>3. orphans \subseteq gone /\ R \subseteq R
    BY <1>6, <2>1
  <2>4. HeldInv(c, hs, info, R, more, orphans)
    BY <1>11, <2>1
  <2>5. HeldInv(c, hs, info, R, R, gone)
    BY <2>2, <2>3, <2>4, HeldGrows
  <2> QED
    BY <1>6, <2>1, <2>5
<1> QED
  BY <1>1, <1>10, <1>12 DEF RegistryInv, Ids

\* A batch that runs leaves every plan with its holder, or with none when that was
\* removed (run_physical_systems_batch, run_physical_system).
LEMMA RunBatchInv ==
  ASSUME RegistryInv, RunBatch
  PROVE  RegistryInv'
<1>1. /\ sets' = sets /\ orders' = orders /\ systems' = systems /\ details' = details
      /\ schema' = schema /\ refused' = refused /\ pc' = pc /\ pc = "frame"
  BY DEF RunBatch, scheduleVars
<1>2. PICK B \in Batches :
        LET ids == BatchIds(B)
            st  == Refreshed(ids)
        IN /\ Together(ids)
           /\ \A k \in DOMAIN ids : Runnable(st, ids[k])
           /\ held' = st.held
           /\ cache' = Indexed(st.cache, {st.held[i].handle : i \in Range(ids)})
           /\ frame' = SubSeq(frame, Max(B) + 1, Len(frame))
           /\ orphans' = orphans \union HandlesOf(st, Range(ids) \ Range(systems), st.cache)
  BY DEF RunBatch
<1>3. PICK ids : ids = BatchIds(B)
  OBVIOUS
<1>4. PICK st : st = Refreshed(ids)
  OBVIOUS
<1>5. PICK read : read = {st.held[i].handle : i \in Range(ids)}
  OBVIOUS
<1>6. /\ \A k \in DOMAIN ids : Runnable(st, ids[k])
      /\ held' = st.held /\ cache' = Indexed(st.cache, read)
      /\ orphans' = orphans \union HandlesOf(st, Range(ids) \ Range(systems), st.cache)
  BY <1>2, <1>3, <1>4, <1>5
<1>7. ids \in Seq(Ids) /\ frame' \in Seq(Ids)
  BY <1>2, <1>3, BatchIs
<1>8. PICK R, more : R = Range(systems) /\ more = R \union Range(ids)
  OBVIOUS
<1>9. HeldInv(st.cache, st.held, details, R, more, orphans)
  BY <1>4, <1>7, <1>8, BatchRefreshed
<1>10. read \subseteq DOMAIN st.cache.handles
  <2>1. \A i \in Range(ids) : \E k \in DOMAIN ids : i = ids[k]
    BY DEF Range
  <2> QED
    BY <1>5, <1>6, <2>1 DEF Runnable
<1>11. HeldInv(cache', held', details, R, R, orphans')
  <2>1. PICK c, d, hs, gone, info : /\ c = st.cache /\ d = cache' /\ hs = st.held
                                    /\ gone = orphans' /\ info = details
    OBVIOUS
  <2>2. HeldInv(c, hs, info, R, more, orphans) /\ read \subseteq DOMAIN c.handles
        /\ d = Indexed(c, read)
    BY <1>6, <1>9, <1>10, <2>1
  <2>3. HeldInv(d, hs, info, R, more, orphans)
    BY <2>2, HeldIndexed
  <2>4. d.handles = c.handles
    BY <2>2 DEF Indexed
  <2>5. \A g \in DOMAIN d.handles :
          (\E i \in more : hs[i].handle = g) => g \in gone \/ \E i \in R : hs[i].handle = g
    BY <1>6, <1>8, <2>1, <2>4 DEF HandlesOf
  <2>6. orphans \subseteq gone /\ R \subseteq R
    BY <1>6, <2>1
  <2>7. HeldInv(d, hs, info, R, R, gone)
    BY <2>3, <2>5, <2>6, HeldGrows
  <2> QED
    BY <1>6, <2>1, <2>7
<1> QED
  BY <1>1, <1>7, <1>8, <1>11 DEF RegistryInv, Ids

\* A batch whose execution raises forgets its handles, and none that a registered
\* system held was refused (_reset_failed_physical_plans).
LEMMA ExecutionFailsInv ==
  ASSUME RegistryInv, ExecutionFails
  PROVE  RegistryInv'
<1>1. /\ sets' = sets /\ orders' = orders /\ systems' = systems /\ details' = details
      /\ schema' = schema /\ pc' = "idle" /\ frame' = <<>>
  BY DEF ExecutionFails, scheduleVars
<1>2. PICK B \in Batches :
        LET ids == BatchIds(B)
            st  == Refreshed(ids)
        IN /\ Together(ids)
           /\ held' = [i \in Ids |-> IF i \in Range(ids) THEN Forgotten(st.held[i])
                                                         ELSE st.held[i]]
           /\ \E begun \in SUBSET {i \in Range(ids) : Runnable(st, i)} :
                cache' = Indexed(st.cache, {st.held[i].handle : i \in begun})
           /\ orphans' = orphans \union HandlesOf(st, Range(ids), st.cache)
           /\ refused' = refused \union {i \in Range(ids) : ~Runnable(st, i)}
  BY DEF ExecutionFails
<1>3. PICK ids, X : ids = BatchIds(B) /\ X = Range(ids)
  OBVIOUS
<1>4. PICK st : st = Refreshed(ids)
  OBVIOUS
<1>5. /\ held' = [i \in Ids |-> IF i \in X THEN Forgotten(st.held[i]) ELSE st.held[i]]
      /\ orphans' = orphans \union HandlesOf(st, X, st.cache)
      /\ refused' = refused \union {i \in X : ~Runnable(st, i)}
      /\ \E begun \in SUBSET {i \in X : Runnable(st, i)} :
           cache' = Indexed(st.cache, {st.held[i].handle : i \in begun})
  BY <1>2, <1>3, <1>4
<1>6. ids \in Seq(Ids) /\ X \in SUBSET Ids
  BY <1>3, BatchIs
<1>7. PICK R, more : R = Range(systems) /\ more = R \union X
  OBVIOUS
<1>8. /\ HeldInv(st.cache, st.held, details, R, more, orphans)
      /\ \A i \in X : i \in R => Runnable(st, i)
      /\ R \in SUBSET Ids /\ more \in SUBSET Ids
  BY <1>3, <1>4, <1>6, <1>7, BatchRefreshed
<1>9. refused' \subseteq Ids /\ refused' \intersect R = {}
  BY <1>5, <1>6, <1>7, <1>8 DEF RegistryInv
<1>10. st.held \in [Ids -> Holding]
  BY <1>8 DEF HeldInv, Ids
<1>11. PICK read : /\ read \subseteq DOMAIN st.cache.handles
                   /\ cache' = Indexed(st.cache, read)
  <2>1. PICK begun \in SUBSET {i \in X : Runnable(st, i)} :
          cache' = Indexed(st.cache, {st.held[i].handle : i \in begun})
    BY <1>5
  <2>2. {st.held[i].handle : i \in begun} \subseteq DOMAIN st.cache.handles
    BY DEF Runnable
  <2> QED
    BY <2>1, <2>2
<1>12. HeldInv(cache', st.held, details, R, more, orphans) /\ cache'.handles = st.cache.handles
  <2>1. PICK c, d, hs, info : c = st.cache /\ d = cache' /\ hs = st.held /\ info = details
    OBVIOUS
  <2>2. HeldInv(c, hs, info, R, more, orphans) /\ read \subseteq DOMAIN c.handles
        /\ d = Indexed(c, read)
    BY <1>8, <1>11, <2>1
  <2>3. HeldInv(d, hs, info, R, more, orphans)
    BY <2>2, HeldIndexed
  <2>4. d.handles = c.handles
    BY <2>2 DEF Indexed
  <2> QED
    BY <2>1, <2>3, <2>4
<1>13. HeldInv(cache', held', details, R, R, orphans')
  <2>1. PICK c, hs, new, gone, info : /\ c = cache' /\ hs = st.held /\ new = held'
                                      /\ gone = orphans' /\ info = details
    OBVIOUS
  <2>2. \A i \in Ids : Forgotten(st.held[i]) \in Holding /\ Forgotten(st.held[i]).handle = 0
    BY <1>10 DEF Forgotten, Holding
  <2>3. new \in [DOMAIN info -> Holding]
    BY <1>5, <1>10, <2>1, <2>2 DEF Ids
  <2>4. /\ \A i \in X : new[i].handle = 0
        /\ \A i \in DOMAIN info \ X : new[i] = hs[i]
    BY <1>5, <1>6, <2>1, <2>2 DEF Ids
  <2>5. \A i \in X : hs[i].handle \in DOMAIN c.handles => hs[i].handle \in gone
    BY <1>5, <1>12, <2>1 DEF HandlesOf
  <2>6. /\ X \in SUBSET DOMAIN info /\ R \in SUBSET DOMAIN info /\ more \in SUBSET DOMAIN info
        /\ R \subseteq R \union X /\ more \ X \subseteq R /\ orphans \subseteq gone
    BY <1>5, <1>6, <1>7, <1>8, <2>1 DEF Ids
  <2>7. HeldInv(c, hs, info, R, more, orphans)
    BY <1>12, <2>1
  <2>8. Forgets(c, hs, new, info, X, gone)
    BY <2>3, <2>4, <2>5 DEF Forgets
  <2>9. HeldInv(c, new, info, R, R, gone)
    BY <2>6, <2>7, <2>8, HeldForgotten
  <2> QED
    BY <2>1, <2>9
<1>14. <<>> \in Seq(Ids)
  OBVIOUS
<1> QED
  BY <1>1, <1>7, <1>9, <1>13, <1>14 DEF RegistryInv, Ids

\* A plan that cannot be compiled is forgotten, and was given back when the
\* payload had been built (build_and_compile_payload).
LEMMA CompilationFailsInv ==
  ASSUME RegistryInv, CompilationFails
  PROVE  RegistryInv'
<1>1. /\ sets' = sets /\ orders' = orders /\ systems' = systems /\ details' = details
      /\ schema' = schema /\ refused' = refused /\ pc' = "idle" /\ frame' = <<>>
  BY DEF CompilationFails, scheduleVars
<1>2. PICK B \in Batches :
        LET ids == BatchIds(B) IN
        \E k \in DOMAIN ids, built \in BOOLEAN :
          LET st == Refreshed(SubSeq(ids, 1, k - 1))
              i  == ids[k]
          IN /\ Together(ids) /\ NeedsCompile(st, i)
             /\ cache' = IF built THEN Release(st.cache, st.held[i].handle) ELSE st.cache
             /\ held' = [st.held EXCEPT ![i] = Forgotten(@)]
             /\ orphans' = orphans \union
                  HandlesOf(st, {i} \union (Range(SubSeq(ids, 1, k)) \ Range(systems)), cache')
  BY DEF CompilationFails
<1>3. PICK ids : ids = BatchIds(B)
  OBVIOUS
<1>4. PICK k \in DOMAIN ids, built \in BOOLEAN :
        LET st == Refreshed(SubSeq(ids, 1, k - 1))
            i  == ids[k]
        IN /\ cache' = IF built THEN Release(st.cache, st.held[i].handle) ELSE st.cache
           /\ held' = [st.held EXCEPT ![i] = Forgotten(@)]
           /\ orphans' = orphans \union
                HandlesOf(st, {i} \union (Range(SubSeq(ids, 1, k)) \ Range(systems)), cache')
  BY <1>2, <1>3
<1>5. PICK pre, upTo, i : pre = SubSeq(ids, 1, k - 1) /\ upTo = SubSeq(ids, 1, k) /\ i = ids[k]
  OBVIOUS
<1>6. PICK st : st = Refreshed(pre)
  OBVIOUS
<1>7. PICK R, more : R = Range(systems) /\ more = R \union Range(pre)
  OBVIOUS
<1>8. /\ cache' = IF built THEN Release(st.cache, st.held[i].handle) ELSE st.cache
      /\ held' = [st.held EXCEPT ![i] = Forgotten(st.held[i])]
      /\ orphans' = orphans \union HandlesOf(st, {i} \union (Range(upTo) \ R), cache')
  BY <1>4, <1>5, <1>6, <1>7
<1>9. ids \in Seq(Ids)
  BY <1>3, BatchIs
<1>10. PICK n : n = Len(ids)
  OBVIOUS
<1>11. n \in Nat /\ k \in 1 .. n /\ i \in Ids
  BY <1>5, <1>9, <1>10, LenProperties
<1>12. pre \in Seq(Ids) /\ Range(pre) \subseteq Range(upTo)
  <2>1. PICK l : l = k - 1
    OBVIOUS
  <2>2. k \in 0 .. n /\ l \in 0 .. n /\ l \in 0 .. k
    BY <1>11, <2>1
  <2>3. upTo \in Seq(Ids) /\ Len(upTo) = k
    BY <1>5, <1>9, <1>10, <2>2, PrefixIs
  <2>4. pre = SubSeq(upTo, 1, l)
    <3>1. pre \in Seq(Ids) /\ Len(pre) = l
      BY <1>5, <1>9, <1>10, <2>1, <2>2, PrefixIs
    <3>2. SubSeq(upTo, 1, l) \in Seq(Ids) /\ Len(SubSeq(upTo, 1, l)) = l
      BY <2>2, <2>3, PrefixIs
    <3>3. \A j \in 1 .. l : j \in 1 .. k /\ j \in 1 .. n /\ 1 + j - 1 = j
      BY <1>11, <2>1, <2>2
    <3>4. /\ \A j \in 1 .. n : ids[j] \in Ids
          /\ \A j \in 1 .. k : upTo[j] \in Ids
      BY <1>9, <1>10, <2>3, ElementOfSeq
    <3>5. /\ \A j \in 1 .. k : j \in 1 .. n /\ 1 + j - 1 = j
          /\ k - 1 + 1 = k /\ l - 1 + 1 = l /\ 1 \in Int /\ k \in Int /\ l \in Int
      BY <1>11, <2>2
    <3>6. \A j \in 1 .. k : upTo[j] = ids[j]
      BY <1>5, <3>4, <3>5, SubSeqProperties
    <3>7. \A j \in 1 .. l : SubSeq(upTo, 1, l)[j] = upTo[j]
      BY <3>3, <3>4, <3>5, SubSeqProperties
    <3>8. \A j \in 1 .. l : pre[j] = ids[j]
      BY <1>5, <2>1, <3>3, <3>4, <3>5, SubSeqProperties
    <3>9. \A j \in 1 .. l : pre[j] = SubSeq(upTo, 1, l)[j]
      BY <3>3, <3>6, <3>7, <3>8
    <3> QED
      BY <3>1, <3>2, <3>9, SeqEqual
  <2> QED
    BY <2>2, <2>3, <2>4, PrefixIs
<1>13. /\ HeldInv(st.cache, st.held, details, R, more, orphans)
       /\ R \in SUBSET Ids /\ more \in SUBSET Ids
  <2>1. pre \in Seq(Ids)
    BY <1>12
  <2> QED
    BY <1>6, <1>7, <2>1, BatchRefreshed
<1>14. PICK less : less = R \ {i}
  OBVIOUS
<1>15. HeldInv(cache', st.held, details, less, more, orphans)
  <2>1. PICK c, d, hs, info, others : /\ c = st.cache /\ d = cache' /\ hs = st.held
                                      /\ info = details /\ others = more \ {i}
    OBVIOUS
  <2>2. HeldInv(c, hs, info, R, more, orphans)
    BY <1>13, <2>1
  <2>3. CASE built
    <3>1. d = Release(c, hs[i].handle)
      BY <1>8, <2>1, <2>3
    <3>2. Minus(less, R, i) /\ Minus(others, more, i) /\ R \in SUBSET DOMAIN info
          /\ more \in SUBSET DOMAIN info /\ i \in DOMAIN info
      BY <1>11, <1>13, <1>14, <2>1 DEF Minus, Ids
    <3>3. HeldInv(d, hs, info, less, others, orphans) /\ hs[i].handle \notin DOMAIN d.handles
      BY <2>2, <3>1, <3>2, HeldReleased
    <3>4. /\ less \subseteq less /\ orphans \subseteq orphans
          /\ \A g \in DOMAIN d.handles :
               (\E j \in others : hs[j].handle = g)
                 => g \in orphans \/ \E j \in more : hs[j].handle = g
      BY <2>1
    <3>5. HeldInv(d, hs, info, less, more, orphans)
      BY <3>3, <3>4, HeldGrows
    <3> QED
      BY <2>1, <3>5
  <2>4. CASE ~built
    <3>1. d = c
      BY <1>8, <2>1, <2>4
    <3>2. less \subseteq R /\ orphans \subseteq orphans
      BY <1>14
    <3>3. HeldInv(c, hs, info, less, more, orphans)
      BY <2>2, <3>2, HeldGrows
    <3> QED
      BY <2>1, <3>1, <3>3
  <2> QED
    BY <2>3, <2>4
<1>16. HeldInv(cache', held', details, R, R, orphans')
  <2>1. PICK c, hs, new, gone, info, X : /\ c = cache' /\ hs = st.held /\ new = held'
                                         /\ gone = orphans' /\ info = details /\ X = {i}
    OBVIOUS
  <2>2. hs \in [Ids -> Holding]
    BY <1>13, <2>1 DEF HeldInv, Ids
  <2>3. Forgotten(hs[i]) \in Holding /\ Forgotten(hs[i]).handle = 0
    BY <1>11, <2>2 DEF Forgotten, Holding
  <2>4. /\ new \in [Ids -> Holding] /\ new[i] = Forgotten(hs[i])
        /\ \A j \in Ids : j # i => new[j] = hs[j]
    BY <1>8, <1>11, <2>1, <2>2, <2>3
  <2>5. hs[i].handle \in DOMAIN c.handles => hs[i].handle \in gone
    BY <1>8, <2>1 DEF HandlesOf
  <2>6. Forgets(c, hs, new, info, X, gone)
    BY <2>1, <2>3, <2>4, <2>5 DEF Forgets, Ids
  <2>7. /\ X \in SUBSET DOMAIN info /\ R \in SUBSET DOMAIN info /\ more \in SUBSET DOMAIN info
        /\ R \subseteq less \union X /\ more \ X \subseteq more /\ orphans \subseteq gone
    BY <1>8, <1>11, <1>13, <1>14, <2>1 DEF Ids
  <2>8. HeldInv(c, hs, info, less, more, orphans)
    BY <1>15, <2>1
  <2>9. HeldInv(c, new, info, R, more, gone)
    BY <2>6, <2>7, <2>8, HeldForgotten
  <2>10. \A g \in DOMAIN c.handles :
           (\E j \in more : new[j].handle = g) => g \in gone \/ \E j \in R : new[j].handle = g
    <3> SUFFICES ASSUME NEW g \in DOMAIN c.handles, NEW j \in more, new[j].handle = g, j \notin R
                 PROVE  g \in gone
      OBVIOUS
    <3>1. g # 0
      BY <2>9 DEF HeldInv, CacheInv, PlansInv
    <3>2. j # i
      BY <2>3, <2>4, <3>1
    <3>3. hs[j].handle = g /\ j \in Range(upTo) \ R
      BY <1>7, <1>12, <1>13, <2>4, <3>2
    <3> QED
      BY <1>8, <2>1, <3>3 DEF HandlesOf
  <2>11. R \subseteq R /\ gone \subseteq gone
    OBVIOUS
  <2>12. HeldInv(c, new, info, R, R, gone)
    BY <2>9, <2>10, <2>11, HeldGrows
  <2> QED
    BY <2>1, <2>12
<1>17. <<>> \in Seq(Ids)
  OBVIOUS
<1> QED
  BY <1>1, <1>7, <1>16, <1>17 DEF RegistryInv, Ids

-----------------------------------------------------------------------------
(* The theorems.                                                           *)

\* An empty registry.
LEMMA RegistryStart ==
  ASSUME RegistryInit
  PROVE  RegistryInv
<1>1. /\ sets = <<>> /\ orders = <<>> /\ systems = <<>> /\ details = <<>> /\ held = <<>>
      /\ schema = 0 /\ cache = EmptyCache /\ frame = <<>> /\ pc = "idle"
      /\ orphans = {} /\ refused = {}
  BY DEF RegistryInit
<1>2. SetsInv(<<>>) /\ OrdersInv(<<>>) /\ DetailsInv(<<>>)
  BY ListedIs DEF SetsInv, OrdersInv, DetailsInv
<1>3. <<>> \in Seq(Ids) /\ Once(<<>>)
  BY DEF Once
<1>4. HeldInv(EmptyCache, <<>>, <<>>, {}, {}, {})
  <2>1. PICK c, hs : c = EmptyCache /\ hs = <<>>
    OBVIOUS
  <2>2. DOMAIN c.handles = {} /\ CacheInv(c)
    BY <2>1, EmptyCacheExact DEF EmptyCache
  <2>3. DOMAIN hs = {} /\ hs \in [{} -> Holding]
    BY <2>1
  <2>4. HeldInv(c, hs, hs, {}, {}, {})
    BY <2>2, <2>3 DEF HeldInv
  <2> QED
    BY <2>1, <2>4
<1>5. Range(<<>>) = {}
  BY DEF Range
<1> QED
  BY <1>1, <1>2, <1>3, <1>4, <1>5 DEF RegistryInv

\* Every reachable state of a world has its plans, handles and lists in order.
THEOREM RegistryInvariant == RegistrySpec => []RegistryInv
<1>1. RegistryInit => RegistryInv
  BY RegistryStart
<1>2. RegistryInv /\ [RegistryNext]_registryVars => RegistryInv'
  <2> SUFFICES ASSUME RegistryInv, [RegistryNext]_registryVars PROVE RegistryInv'
    OBVIOUS
  <2>1. ASSUME NEW r \in Requests, AddSystem(r) PROVE RegistryInv'
    BY <2>1, AddUnpreparedInv, AddAcceptedInv, AddRefusedInv DEF AddSystem
  <2>2. ASSUME NEW r \in Requests, RemoveSystem(r.name) PROVE RegistryInv'
    BY <2>2, RemoveSystemInv
  <2>3. ASSUME NEW c \in GroupCalls, ConfigureSystemGroup(c) PROVE RegistryInv'
    BY <2>3, ConfigureSystemGroupInv
  <2>4. ASSUME NEW o \in OrderCalls, ConfigureGroupOrder(o) PROVE RegistryInv'
    BY <2>4, ConfigureGroupOrderInv
  <2>5. CASE RegisterSchema
    BY <2>5, RegisterSchemaInv
  <2>6. CASE StartFrame
    BY <2>6, StartFrameInv
  <2>7. CASE EndFrame \/ SkipSystem \/ EnterPython \/ LeavePython
    BY <2>7, FrameMovesInv
  <2>8. CASE RunChild
    BY <2>8, RunChildInv
  <2>9. CASE BatchFallsBack
    BY <2>9, BatchFallsBackInv
  <2>10. CASE RunBatch
    BY <2>10, RunBatchInv
  <2>11. CASE ExecutionFails
    BY <2>11, ExecutionFailsInv
  <2>12. CASE CompilationFails
    BY <2>12, CompilationFailsInv
  <2>13. CASE UNCHANGED registryVars
    BY <2>13 DEF RegistryInv, Ids, registryVars, scheduleVars, planVars, frameVars
  <2> QED
    BY <2>1, <2>2, <2>3, <2>4, <2>5, <2>6, <2>7, <2>8, <2>9, <2>10, <2>11, <2>12, <2>13
    DEF RegistryNext, Call, Frame
<1> QED
  BY <1>1, <1>2, PTL DEF RegistrySpec

\* The reference counts of plans and of spatial indexes are exact: what is kept is
\* what a handle leads to, and it goes with the last one (PhysicalPlanCache,
\* spatial_cache_ref_counts).
THEOREM CacheCorrect == RegistrySpec => []CacheExact
<1>1. RegistryInv => CacheExact
  <2> SUFFICES ASSUME RegistryInv PROVE CacheExact
    OBVIOUS
  <2>1. PlansInv(cache) /\ CountsInv(cache)
    BY DEF RegistryInv, HeldInv, CacheInv
  <2>2. DOMAIN cache.prepared = Range(cache.handles)
    BY <2>1 DEF PlansInv, Range
  <2>3. \A a \in DOMAIN cache.owners :
          cache.owners[a] = Cardinality({h \in DOMAIN cache.handles : cache.handles[h] = a})
    BY <2>1 DEF CountsInv, Count, HandlesAt
  <2>4. \A k \in DOMAIN cache.keyRefs :
          cache.keyRefs[k] =
              Cardinality({h \in DOMAIN cache.handles : k \in ContentOf(cache, h).keys})
    BY <2>1 DEF CountsInv, Count, Readers
  <2>5. DOMAIN cache.keyRefs = UNION {cache.prepared[a].keys : a \in DOMAIN cache.prepared}
    <3>1. \A k : k \in DOMAIN cache.keyRefs <=>
                   \E h \in DOMAIN cache.handles : k \in cache.prepared[cache.handles[h]].keys
      BY <2>1 DEF CountsInv, Readers, ContentOf
    <3>2. \A a : a \in DOMAIN cache.prepared
                 <=> \E h \in DOMAIN cache.handles : a = cache.handles[h]
      BY <2>1 DEF PlansInv
    <3>3. \A k : k \in DOMAIN cache.keyRefs
                 <=> \E a \in DOMAIN cache.prepared : k \in cache.prepared[a].keys
      BY <3>1, <3>2
    <3> QED
      BY <3>3
  <2>6. /\ \A a, b \in DOMAIN cache.prepared : cache.prepared[a] = cache.prepared[b] => a = b
        /\ cache.canonical = DOMAIN cache.prepared
        /\ DOMAIN cache.owners = DOMAIN cache.prepared
        /\ cache.indexes \subseteq DOMAIN cache.keyRefs
    BY <2>1 DEF PlansInv, CountsInv
  <2> QED
    BY <2>2, <2>3, <2>4, <2>5, <2>6 DEF CacheExact
<1> QED
  BY <1>1, RegistryInvariant, PTL

\* Every plan handle of the Rust cache has its one holder, and every registered
\* system's handle is live and leads to its own plan, through failing
\* registrations, removals inside a frame and failing batches (add_system,
\* remove_system, run_physical_systems_batch).
THEOREM HandlesCorrect == RegistrySpec => []HandlesHeld
<1>1. RegistryInv => HandlesHeld
  <2> SUFFICES ASSUME RegistryInv PROVE HandlesHeld
    OBVIOUS
  <2>1. PICK c, hs, R : c = cache /\ hs = held /\ R = Range(systems)
    OBVIOUS
  <2>2. PICK holders : holders = {i \in R : hs[i].handle # 0}
    OBVIOUS
  <2>3. R \in SUBSET Ids
    BY <2>1, IdsAre
  <2>4. HeldInv(c, hs, details, R, R, orphans)
    BY <2>1 DEF RegistryInv
  <2>5. \A i \in holders :
          /\ hs[i].handle \in DOMAIN c.handles
          /\ ContentOf(c, hs[i].handle).plan = details[i].plan
          /\ \A j \in holders : i # j => hs[i].handle # hs[j].handle
    <3>1. \A i \in holders : i \in R /\ i \in DOMAIN details /\ hs[i].handle # 0
      BY <2>2, <2>3 DEF Ids
    <3> QED
      BY <2>4, <3>1 DEF HeldInv
  <2>6. DOMAIN c.handles \subseteq {hs[i].handle : i \in holders} \union orphans
    <3>1. 0 \notin DOMAIN c.handles
      BY <2>4 DEF HeldInv, CacheInv, PlansInv
    <3>2. \A h \in DOMAIN c.handles : h \in orphans \/ \E i \in R : hs[i].handle = h
      BY <2>4 DEF HeldInv
    <3> QED
      BY <2>2, <3>1, <3>2
  <2>7. refused \intersect R = {}
    BY <2>1 DEF RegistryInv
  <2> QED
    BY <2>1, <2>2, <2>5, <2>6, <2>7 DEF HandlesHeld
<1> QED
  BY <1>1, RegistryInvariant, PTL

-----------------------------------------------------------------------------
(* The edges that are declared, and the graph they make.                   *)

\* The groups that are configured.
Known(confs) == {confs[k].group : k \in DOMAIN confs}

\* d is an edge of a reference, of a system or a configuration, of an order.
FromLinks(d, group, refs, side) == \E k \in DOMAIN refs : d = <<group, refs[k], side>>

FromConf(d, c) ==
  FromLinks(d, c.group, c.before, "before") \/ FromLinks(d, c.group, c.after, "after")

FromSystem(d, s) ==
  FromLinks(d, s.groups[1], s.before, "before") \/ FromLinks(d, s.groups[1], s.after, "after")

FromOrder(d, o) == \E m \in 1 .. Len(o) - 1 : d = <<o[m], o[m + 1], "order">>

\* The references of a group are what its edges come from.
LEMMA LinksHave ==
  ASSUME NEW group, NEW refs, Listed(refs), NEW side
  PROVE  /\ Listed(Links(group, refs, side))
         /\ \A d : d \in Range(Links(group, refs, side)) <=> FromLinks(d, group, refs, side)
<1>1. \A d : d \in Range(Links(group, refs, side)) <=> FromLinks(d, group, refs, side)
  BY DEF Range, Links, FromLinks
<1> QED
  BY <1>1, LinksListed

\* An edge is declared by a system, a configuration or an order
\* (_add_dependency_edges, _build_group_graph).
LEMMA DeclaredHas ==
  ASSUME NEW confs, SetsInv(confs), NEW os, OrdersInv(os), NEW info, DetailsInv(info),
         NEW list \in Seq(DOMAIN info)
  PROVE  \A d : d \in Range(Declared(confs, os, list, info)) <=>
                  \/ \E i \in Range(list) : FromSystem(d, info[i])
                  \/ \E k \in DOMAIN confs : FromConf(d, confs[k])
                  \/ \E k \in DOMAIN os : FromOrder(d, os[k])
<1>1. PICK A : A = [k \in DOMAIN list |->
                      LET s == info[list[k]] IN
                      Links(s.groups[1], s.before, "before")
                      \o Links(s.groups[1], s.after, "after")]
  OBVIOUS
<1>2. PICK B : B = [k \in DOMAIN confs |->
                      Links(confs[k].group, confs[k].before, "before")
                        \o Links(confs[k].group, confs[k].after, "after")]
  OBVIOUS
<1>3. PICK C : C = [k \in DOMAIN os |->
                      [m \in 1 .. Len(os[k]) - 1 |-> <<os[k][m], os[k][m + 1], "order">>]]
  OBVIOUS
<1>4. Declared(confs, os, list, info) = Joined(A) \o Joined(B) \o Joined(C)
  BY <1>1, <1>2, <1>3 DEF Declared
<1>5. Listed(Joined(A)) /\ \A d : d \in Range(Joined(A)) <=>
                                    \E i \in Range(list) : FromSystem(d, info[i])
  <2>1. PICK n : n = Len(list)
    OBVIOUS
  <2>2. n \in Nat /\ DOMAIN list = 1 .. n /\ \A k \in 1 .. n : list[k] \in DOMAIN info
    BY <2>1, LenProperties
  <2>3. A = [k \in 1 .. n |-> A[k]]
    BY <1>1, <2>2
  <2>4. Len(A) = n
    BY <2>2, <2>3, FunctionListed
  <2>5. ASSUME NEW k \in 1 .. n
        PROVE  Listed(A[k]) /\ \A d : d \in Range(A[k]) <=> FromSystem(d, info[list[k]])
    <3>1. PICK s, l, r : /\ s = info[list[k]] /\ l = Links(s.groups[1], s.before, "before")
                         /\ r = Links(s.groups[1], s.after, "after")
      OBVIOUS
    <3>2. Listed(s.before) /\ Listed(s.after)
      BY <2>2, <3>1 DEF DetailsInv
    <3>3. A[k] = l \o r
      BY <1>1, <2>2, <3>1
    <3>4. /\ Listed(l)
          /\ \A d : d \in Range(l) <=> FromLinks(d, s.groups[1], s.before, "before")
      BY <3>1, <3>2, LinksHave
    <3>5. /\ Listed(r)
          /\ \A d : d \in Range(r) <=> FromLinks(d, s.groups[1], s.after, "after")
      BY <3>1, <3>2, LinksHave
    <3>6. Listed(l \o r) /\ \A d : d \in Range(l \o r) <=> d \in Range(l) \/ d \in Range(r)
      BY <3>4, <3>5, ListedIs, RangesGrow
    <3> QED
      BY <3>1, <3>3, <3>4, <3>5, <3>6 DEF FromSystem
  <2>6. Listed(Joined(A))
    BY <2>2, <2>4, <2>5, JoinedListed
  <2>7. \A d : d \in Range(Joined(A)) <=> \E k \in 1 .. n : d \in Range(A[k])
    BY <2>2, <2>4, <2>5, JoinedHas
  <2>8. \A d : d \in Range(Joined(A)) <=> \E k \in 1 .. n : FromSystem(d, info[list[k]])
    BY <2>5, <2>7
  <2>9. \A i : i \in Range(list) <=> \E k \in 1 .. n : i = list[k]
    BY <2>2 DEF Range
  <2> QED
    BY <2>6, <2>8, <2>9
<1>6. Listed(Joined(B)) /\ \A d : d \in Range(Joined(B)) <=>
                                    \E k \in DOMAIN confs : FromConf(d, confs[k])
  <2>1. PICK n : n = Len(confs)
    OBVIOUS
  <2>2. n \in Nat /\ DOMAIN confs = 1 .. n
    BY <2>1, ListedIs DEF SetsInv
  <2>3. B = [k \in 1 .. n |-> B[k]]
    BY <1>2, <2>2
  <2>4. Len(B) = n
    BY <2>2, <2>3, FunctionListed
  <2>5. ASSUME NEW k \in 1 .. n
        PROVE  Listed(B[k]) /\ \A d : d \in Range(B[k]) <=> FromConf(d, confs[k])
    <3>1. PICK c, l, r : /\ c = confs[k] /\ l = Links(c.group, c.before, "before")
                         /\ r = Links(c.group, c.after, "after")
      OBVIOUS
    <3>2. Listed(c.before) /\ Listed(c.after)
      BY <2>2, <3>1 DEF SetsInv
    <3>3. B[k] = l \o r
      BY <1>2, <2>2, <3>1
    <3>4. /\ Listed(l)
          /\ \A d : d \in Range(l) <=> FromLinks(d, c.group, c.before, "before")
      BY <3>1, <3>2, LinksHave
    <3>5. /\ Listed(r)
          /\ \A d : d \in Range(r) <=> FromLinks(d, c.group, c.after, "after")
      BY <3>1, <3>2, LinksHave
    <3>6. Listed(l \o r) /\ \A d : d \in Range(l \o r) <=> d \in Range(l) \/ d \in Range(r)
      BY <3>4, <3>5, ListedIs, RangesGrow
    <3> QED
      BY <3>1, <3>3, <3>4, <3>5, <3>6 DEF FromConf
  <2>6. Listed(Joined(B))
    BY <2>2, <2>4, <2>5, JoinedListed
  <2>7. \A d : d \in Range(Joined(B)) <=> \E k \in 1 .. n : d \in Range(B[k])
    BY <2>2, <2>4, <2>5, JoinedHas
  <2>8. \A d : d \in Range(Joined(B)) <=> \E k \in 1 .. n : FromConf(d, confs[k])
    BY <2>5, <2>7
  <2> QED
    BY <2>2, <2>6, <2>8
<1>7. Listed(Joined(C)) /\ \A d : d \in Range(Joined(C)) <=>
                                    \E k \in DOMAIN os : FromOrder(d, os[k])
  <2>1. PICK n : n = Len(os)
    OBVIOUS
  <2>2. n \in Nat /\ DOMAIN os = 1 .. n
    BY <2>1, ListedIs DEF OrdersInv
  <2>3. C = [k \in 1 .. n |-> C[k]]
    BY <1>3, <2>2
  <2>4. Len(C) = n
    BY <2>2, <2>3, FunctionListed
  <2>5. ASSUME NEW k \in 1 .. n
        PROVE  Listed(C[k]) /\ \A d : d \in Range(C[k]) <=> FromOrder(d, os[k])
    <3>1. PICK l : l = Len(os[k])
      OBVIOUS
    <3>2. l \in Nat
      BY <2>2, <3>1, ListedIs DEF OrdersInv
    <3>3. PICK m : m = IF l = 0 THEN 0 ELSE l - 1
      OBVIOUS
    <3>4. m \in Nat /\ 1 .. m = 1 .. (l - 1)
      BY <3>2, <3>3
    <3>5. PICK c : c = C[k]
      OBVIOUS
    <3>6. c = [j \in 1 .. m |-> <<os[k][j], os[k][j + 1], "order">>]
      BY <1>3, <2>2, <3>1, <3>4, <3>5
    <3>7. c = [j \in 1 .. m |-> c[j]]
      BY <3>6
    <3>8. Listed(c)
      BY <3>4, <3>7, FunctionListed
    <3>9. \A d : d \in Range(c) <=> FromOrder(d, os[k])
      BY <3>1, <3>4, <3>6 DEF Range, FromOrder
    <3> QED
      BY <3>5, <3>8, <3>9
  <2>6. Listed(Joined(C))
    BY <2>2, <2>4, <2>5, JoinedListed
  <2>7. \A d : d \in Range(Joined(C)) <=> \E k \in 1 .. n : d \in Range(C[k])
    BY <2>2, <2>4, <2>5, JoinedHas
  <2>8. \A d : d \in Range(Joined(C)) <=> \E k \in 1 .. n : FromOrder(d, os[k])
    BY <2>5, <2>7
  <2> QED
    BY <2>2, <2>6, <2>8
<1>8. PICK a, b, c : a = Joined(A) /\ b = Joined(B) /\ c = Joined(C)
  OBVIOUS
<1>9. Listed(a) /\ Listed(b) /\ Listed(c) /\ Listed(a \o b)
  BY <1>5, <1>6, <1>7, <1>8, ListedIs
<1>10. /\ \A d : d \in Range(a \o b) <=> d \in Range(a) \/ d \in Range(b)
       /\ \A d : d \in Range((a \o b) \o c) <=> d \in Range(a \o b) \/ d \in Range(c)
  BY <1>9, RangesGrow
<1> QED
  BY <1>4, <1>5, <1>6, <1>7, <1>8, <1>10

\* The group that d leads to or comes from beside its own: known are the groups
\* there are, ms the groups of each system (_resolve_group_reference).
Target(known, ms, d) ==
  IF d[3] # "order" /\ d[2] \notin known /\ d[2] \in DOMAIN ms THEN ms[d[2]][1] ELSE d[2]

EdgeOf(known, ms, d) ==
  IF d[3] = "after" THEN <<Target(known, ms, d), d[1]>> ELSE <<d[1], Target(known, ms, d)>>

\* The edge is none from a group to itself and none to a system of several groups.
Fits(known, ms, d) ==
  d[1] # Target(known, ms, d) /\ (Target(known, ms, d) # d[2] => Len(ms[d[2]]) = 1)

\* d comes from a known group; those of an order are both known.
Rooted(known, d) == d[1] \in known /\ (d[3] = "order" => d[2] \in known)

Homes(known, ms) == \A n \in DOMAIN ms : ms[n][1] \in known

\* g has the edges of the first k of D, and no system's name that is no group.
Building(g, known, ms, D, k) ==
  /\ Listed(g.names) /\ known \subseteq Range(g.names)
  /\ \A x \in Range(g.names) : x \in DOMAIN ms => x \in known
  /\ \A e : e \in g.edges <=> \E j \in 1 .. k : e = EdgeOf(known, ms, D[j])
  /\ \A j \in 1 .. k : /\ D[j][1] \in Range(g.names)
                       /\ Target(known, ms, D[j]) \in Range(g.names)
  /\ g.valid <=> \A j \in 1 .. k : Fits(known, ms, D[j])

\* A group is noted once it is named.
LEMMA NotedHas ==
  ASSUME NEW names, Listed(names), NEW x
  PROVE  /\ Listed(Noted(names, x))
         /\ \A y : y \in Range(Noted(names, x)) <=> y \in Range(names) \/ y = x
<1>1. CASE x \in Range(names)
  BY <1>1 DEF Noted
<1>2. CASE x \notin Range(names)
  BY <1>2, ListedIs, RangesGrow DEF Noted
<1> QED
  BY <1>1, <1>2

\* One more edge: a name that has become a group is one that no system has, so
\* what a reference leads to does not depend on the edges before it.
LEMMA WithEdgeBuilds ==
  ASSUME NEW known, NEW ms, Homes(known, ms), NEW D, NEW k \in Nat, k >= 1,
         Rooted(known, D[k]), NEW g, Building(g, known, ms, D, k - 1)
  PROVE  Building(WithEdge(ms, g, D[k]), known, ms, D, k)
<1>1. PICK d, t, e : d = D[k] /\ t = Target(known, ms, d) /\ e = EdgeOf(known, ms, d)
  OBVIOUS
<1>2. PICK names : names = g.names
  OBVIOUS
<1>3. /\ Listed(names) /\ \A x \in known : x \in Range(names)
      /\ \A x \in Range(names) : x \in DOMAIN ms => x \in known
      /\ \A x : x \in g.edges <=> \E j \in 1 .. (k - 1) : x = EdgeOf(known, ms, D[j])
      /\ \A j \in 1 .. (k - 1) : /\ D[j][1] \in Range(names)
                                 /\ Target(known, ms, D[j]) \in Range(names)
      /\ g.valid <=> \A j \in 1 .. (k - 1) : Fits(known, ms, D[j])
  BY <1>2 DEF Building
<1>4. d[1] \in known /\ (d[3] = "order" => d[2] \in known)
  BY <1>1 DEF Rooted
<1>5. t = IF d[3] = "order" THEN d[2] ELSE Resolved(names, ms, d[2])
  BY <1>1, <1>3 DEF Target, Resolved
<1>6. t \in DOMAIN ms => t \in known
  BY <1>1, <1>4 DEF Target, Homes
<1>7. e = IF d[3] = "after" THEN <<t, d[1]>> ELSE <<d[1], t>>
  BY <1>1 DEF EdgeOf
<1>8. PICK once, all : once = Noted(names, e[1]) /\ all = Noted(once, e[2])
  OBVIOUS
<1>9. /\ Listed(once) /\ Listed(all)
      /\ \A x : x \in Range(once) <=> x \in Range(names) \/ x = e[1]
      /\ \A x : x \in Range(all) <=> x \in Range(once) \/ x = e[2]
  BY <1>3, <1>8, NotedHas
<1>10. \A x : x \in Range(all) <=> x \in Range(names) \/ x = d[1] \/ x = t
  BY <1>7, <1>9
<1>11. PICK new : new = WithEdge(ms, g, d)
  OBVIOUS
<1>12. /\ new.names = all /\ new.edges = g.edges \union {e}
       /\ new.valid = (g.valid /\ e[1] # e[2] /\ (t # d[2] => Len(ms[d[2]]) = 1))
  BY <1>2, <1>5, <1>7, <1>8, <1>11 DEF WithEdge
<1>13. \A j : j \in 1 .. k <=> j \in 1 .. (k - 1) \/ j = k
  OBVIOUS
<1>14. new.valid <=> \A j \in 1 .. k : Fits(known, ms, D[j])
  <2>1. e[1] # e[2] <=> d[1] # t
    BY <1>7
  <2>2. Fits(known, ms, d) <=> e[1] # e[2] /\ (t # d[2] => Len(ms[d[2]]) = 1)
    BY <1>1, <2>1 DEF Fits
  <2>3. new.valid <=> g.valid /\ Fits(known, ms, d)
    BY <1>12, <2>2, Zenon
  <2> QED
    BY <1>1, <1>3, <1>13, <2>3, Zenon
<1>15. \A x : x \in new.edges <=> \E j \in 1 .. k : x = EdgeOf(known, ms, D[j])
  <2>1. \A x : x \in new.edges <=> x \in g.edges \/ x = EdgeOf(known, ms, D[k])
    BY <1>1, <1>12
  <2> QED
    BY <1>3, <1>13, <2>1
<1>16. \A j \in 1 .. k : /\ D[j][1] \in Range(all)
                         /\ Target(known, ms, D[j]) \in Range(all)
  BY <1>1, <1>3, <1>10, <1>13
<1>17. known \subseteq Range(all) /\ \A x \in Range(all) : x \in DOMAIN ms => x \in known
  BY <1>3, <1>4, <1>6, <1>10
<1>18. Listed(all)
  BY <1>9
<1>19. new.names = all
  BY <1>12
<1> QED
  BY <1>1, <1>11, <1>14, <1>15, <1>16, <1>17, <1>18, <1>19, Zenon DEF Building

\* base with the edges of D, one after another.
WithEdges(ms, base, D) == Accumulated(LAMBDA g, e : WithEdge(ms, g, e), base, D)

\* All the edges, in whatever order they come.
LEMMA GraphBuilds ==
  ASSUME NEW known, NEW ms, Homes(known, ms), NEW D, NEW n \in Nat, n = Len(D),
         \A k \in 1 .. n : Rooted(known, D[k]),
         NEW base, Building(base, known, ms, D, 0)
  PROVE  Building(WithEdges(ms, base, D), known, ms, D, n)
<1>1. \A g : \A k \in 1 .. n :
        Building(g, known, ms, D, k - 1) => Building(WithEdge(ms, g, D[k]), known, ms, D, k)
  <2> SUFFICES ASSUME NEW g, NEW k \in 1 .. n, Building(g, known, ms, D, k - 1)
               PROVE  Building(WithEdge(ms, g, D[k]), known, ms, D, k)
    OBVIOUS
  <2>1. k \in Nat /\ k >= 1 /\ Rooted(known, D[k])
    OBVIOUS
  <2> QED
    BY <2>1, WithEdgeBuilds
<1>2. Inductive(LAMBDA g, e : WithEdge(ms, g, e),
                LAMBDA v, k : Building(v, known, ms, D, k), base, D, n)
  BY <1>1 DEF Inductive
<1>3. Attained(LAMBDA g, e : WithEdge(ms, g, e),
               LAMBDA v, k : Building(v, known, ms, D, k), base, D, n)
  BY <1>2, AccumulatedKeeps
<1> QED
  BY <1>3 DEF Attained, WithEdges

\* The groups of each registered system, by its name.
Memberships(list, info) ==
  [n \in {info[i].name : i \in Range(list)} |->
     info[CHOOSE i \in Range(list) : info[i].name = n].groups]

\* The groups of systems and of orders are configured, and no two systems of the
\* list have one name.
Configured(confs, os, list, info) ==
  /\ \A i \in Range(list) : /\ info[i].groups # <<>>
                            /\ Range(info[i].groups) \subseteq Known(confs)
  /\ \A k \in DOMAIN os : Range(os[k]) \subseteq Known(confs)
  /\ \A i, j \in Range(list) : info[i].name = info[j].name => i = j

\* A sequence with an element has a first one.
LEMMA FirstIn ==
  ASSUME NEW s, Listed(s), s # <<>>
  PROVE  1 \in DOMAIN s /\ s[1] \in Range(s)
<1>1. PICK n, S : n = Len(s) /\ S = {s[k] : k \in DOMAIN s}
  OBVIOUS
<1>2. n \in Nat /\ DOMAIN s = 1 .. n /\ s \in Seq(S)
  BY <1>1, ListedIs DEF Listed
<1>3. n # 0
  BY <1>1, <1>2
<1>4. 1 \in DOMAIN s
  BY <1>2, <1>3
<1> QED
  BY <1>4 DEF Range

\* ms has the groups of each system by its name, and nothing else.
Roster(ms, list, info) ==
  /\ \A i \in Range(list) : info[i].name \in DOMAIN ms /\ ms[info[i].name] = info[i].groups
  /\ \A n \in DOMAIN ms : \E i \in Range(list) :
       info[i].name = n /\ ms[n] = info[i].groups

\* A name leads to the groups of the one system that has it.
LEMMA MembershipsAre ==
  ASSUME NEW confs, NEW os, NEW info, DetailsInv(info), NEW list \in Seq(DOMAIN info),
         Configured(confs, os, list, info), NEW ms, ms = Memberships(list, info)
  PROVE  Roster(ms, list, info) /\ Homes(Known(confs), ms)
<1>1. DOMAIN ms = {info[i].name : i \in Range(list)}
  BY DEF Memberships
<1>2. ASSUME NEW i \in Range(list)
      PROVE  info[i].name \in DOMAIN ms /\ ms[info[i].name] = info[i].groups
  <2>1. PICK n, j : n = info[i].name /\ j = CHOOSE h \in Range(list) : info[h].name = n
    OBVIOUS
  <2>2. j \in Range(list) /\ info[j].name = n
    BY <2>1
  <2>3. j = i
    BY <2>1, <2>2 DEF Configured
  <2>4. n \in DOMAIN ms
    BY <1>1, <2>1
  <2>5. ms[n] = info[j].groups
    BY <1>1, <2>1, <2>4 DEF Memberships
  <2> QED
    BY <2>1, <2>3, <2>4, <2>5
<1>3. ASSUME NEW n \in DOMAIN ms
      PROVE  \E i \in Range(list) : info[i].name = n /\ ms[n] = info[i].groups
  BY <1>1, <1>2
<1>4. ASSUME NEW n \in DOMAIN ms PROVE ms[n][1] \in Known(confs)
  <2>1. PICK i \in Range(list) : info[i].name = n /\ ms[n] = info[i].groups
    BY <1>3
  <2>2. PICK s : s = info[i].groups
    OBVIOUS
  <2>3. i \in DOMAIN info
    <3>1. \A k \in DOMAIN list : list[k] \in DOMAIN info
      BY LenProperties, ElementOfSeq
    <3> QED
      BY <3>1 DEF Range
  <2>4. Listed(s) /\ s # <<>> /\ Range(s) \subseteq Known(confs)
    BY <2>2, <2>3 DEF DetailsInv, Configured
  <2>5. s[1] \in Known(confs)
    BY <2>4, FirstIn
  <2> QED
    BY <2>1, <2>2, <2>5
<1> QED
  BY <1>2, <1>3, <1>4 DEF Homes, Roster

\* Every group that is named is noted.
LEMMA NotedAll ==
  ASSUME NEW s, Listed(s)
  PROVE  /\ Listed(Accumulated(Noted, <<>>, s))
         /\ \A x : x \in Range(Accumulated(Noted, <<>>, s)) <=> x \in Range(s)
<1>1. PICK n : n = Len(s)
  OBVIOUS
<1>2. n \in Nat /\ DOMAIN s = 1 .. n
  BY <1>1, ListedIs
<1> DEFINE Has(v, k) == Listed(v) /\ \A x : x \in Range(v) <=> \E j \in 1 .. k : x = s[j]
<1>3. Has(<<>>, 0)
  <2>1. Range(<<>>) = {}
    BY DEF Range
  <2> QED
    BY <2>1, ListedIs
<1>4. ASSUME NEW v, NEW k \in 1 .. n, Has(v, k - 1) PROVE Has(Noted(v, s[k]), k)
  <2>1. /\ Listed(Noted(v, s[k]))
        /\ \A x : x \in Range(Noted(v, s[k])) <=> x \in Range(v) \/ x = s[k]
    BY <1>4, NotedHas
  <2>2. \A j : j \in 1 .. k <=> j \in 1 .. (k - 1) \/ j = k
    BY <1>4
  <2> QED
    BY <1>4, <2>1, <2>2
<1>5. Inductive(Noted, LAMBDA v, k : Has(v, k), <<>>, s, n)
  BY <1>3, <1>4 DEF Inductive
<1> HIDE DEF Has
<1>6. Attained(Noted, LAMBDA v, k : Has(v, k), <<>>, s, n)
  BY <1>1, <1>2, <1>5, AccumulatedKeeps
<1>7. Has(Accumulated(Noted, <<>>, s), n)
  BY <1>6 DEF Attained
<1> QED
  BY <1>2, <1>7 DEF Has, Range

\* Where every group is configured an edge comes from a configured group.
LEMMA DeclaredRooted ==
  ASSUME NEW confs, SetsInv(confs), NEW os, OrdersInv(os), NEW info, DetailsInv(info),
         NEW list \in Seq(DOMAIN info), Configured(confs, os, list, info),
         NEW d \in Range(Declared(confs, os, list, info))
  PROVE  Rooted(Known(confs), d)
<1>1. PICK known : known = Known(confs)
  OBVIOUS
<1>2. \/ \E i \in Range(list) : FromSystem(d, info[i])
      \/ \E k \in DOMAIN confs : FromConf(d, confs[k])
      \/ \E k \in DOMAIN os : FromOrder(d, os[k])
  BY DeclaredHas
<1>3. ASSUME NEW i \in Range(list), FromSystem(d, info[i]) PROVE Rooted(known, d)
  <2>1. i \in DOMAIN info
    <3>1. \A k \in DOMAIN list : list[k] \in DOMAIN info
      BY LenProperties, ElementOfSeq
    <3> QED
      BY <3>1 DEF Range
  <2>2. PICK s : s = info[i].groups
    OBVIOUS
  <2>3. Listed(s) /\ s # <<>> /\ Range(s) \subseteq known
    BY <1>1, <2>1, <2>2 DEF DetailsInv, Configured
  <2>4. s[1] \in known
    BY <2>3, FirstIn
  <2>5. d[1] = s[1] /\ (d[3] = "before" \/ d[3] = "after")
    BY <1>3, <2>2 DEF FromSystem, FromLinks
  <2> QED
    BY <2>4, <2>5 DEF Rooted
<1>4. ASSUME NEW k \in DOMAIN confs, FromConf(d, confs[k]) PROVE Rooted(known, d)
  <2>1. d[1] = confs[k].group /\ (d[3] = "before" \/ d[3] = "after")
    BY <1>4 DEF FromConf, FromLinks
  <2> QED
    BY <1>1, <2>1 DEF Rooted, Known
<1>5. ASSUME NEW k \in DOMAIN os, FromOrder(d, os[k]) PROVE Rooted(known, d)
  <2>1. PICK o, l : o = os[k] /\ l = Len(o)
    OBVIOUS
  <2>2. Listed(o) /\ l \in Nat /\ DOMAIN o = 1 .. l
    BY <2>1, ListedIs DEF OrdersInv
  <2>3. PICK m \in 1 .. (l - 1) : d = <<o[m], o[m + 1], "order">>
    BY <1>5, <2>1 DEF FromOrder
  <2>4. m \in DOMAIN o /\ m + 1 \in DOMAIN o
    BY <2>2, <2>3
  <2>5. \A j \in DOMAIN o : o[j] \in known
    BY <1>1, <2>1 DEF Configured, Range
  <2> QED
    BY <2>3, <2>4, <2>5 DEF Rooted
<1> QED
  BY <1>1, <1>2, <1>3, <1>4, <1>5

\* The graph is the declared edges between groups (_build_group_graph).
LEMMA GraphIs ==
  ASSUME NEW confs, SetsInv(confs), NEW os, OrdersInv(os), NEW info, DetailsInv(info),
         NEW list \in Seq(DOMAIN info), Configured(confs, os, list, info),
         NEW known, known = Known(confs), NEW ms, ms = Memberships(list, info),
         NEW d, d = Declared(confs, os, list, info), NEW n, n = Len(d)
  PROVE  /\ n \in Nat /\ DOMAIN d = 1 .. n
         /\ \A k \in 1 .. n : Rooted(known, d[k])
         /\ Building(GroupGraph(confs, os, list, info), known, ms, d, n)
<1>1. PICK first, groups : /\ first = [k \in DOMAIN confs |-> confs[k].group]
                           /\ groups = [k \in DOMAIN list |-> info[list[k]].groups]
  OBVIOUS
<1>2. PICK all : all = first \o Joined(groups)
  OBVIOUS
<1>3. Listed(first) /\ \A x : x \in Range(first) <=> x \in known
  <2>1. PICK l : l = Len(confs)
    OBVIOUS
  <2>2. l \in Nat /\ DOMAIN confs = 1 .. l
    BY <2>1, ListedIs DEF SetsInv
  <2>3. first = [k \in 1 .. l |-> first[k]]
    BY <1>1, <2>2
  <2>4. Listed(first)
    BY <2>2, <2>3, FunctionListed
  <2>5. \A x : x \in Range(first) <=> x \in known
    BY <1>1 DEF Range, Known
  <2> QED
    BY <2>4, <2>5
<1>4. Listed(Joined(groups)) /\ \A x : x \in Range(Joined(groups)) => x \in known
  <2>1. PICK l : l = Len(list)
    OBVIOUS
  <2>2. l \in Nat /\ DOMAIN list = 1 .. l /\ \A k \in 1 .. l : list[k] \in DOMAIN info
    BY <2>1, LenProperties
  <2>3. groups = [k \in 1 .. l |-> groups[k]]
    BY <1>1, <2>2
  <2>4. Len(groups) = l
    BY <2>2, <2>3, FunctionListed
  <2>5. ASSUME NEW k \in 1 .. l
        PROVE  Listed(groups[k]) /\ \A x : x \in Range(groups[k]) => x \in known
    <3>1. PICK i : i = list[k]
      OBVIOUS
    <3>2. i \in DOMAIN info /\ i \in Range(list) /\ groups[k] = info[i].groups
      BY <1>1, <2>2, <3>1 DEF Range
    <3>3. Listed(info[i].groups) /\ Range(info[i].groups) \subseteq known
      BY <3>2 DEF DetailsInv, Configured
    <3> QED
      BY <3>2, <3>3
  <2>6. Listed(Joined(groups))
    BY <2>2, <2>4, <2>5, JoinedListed
  <2>7. \A x : x \in Range(Joined(groups)) <=> \E k \in 1 .. l : x \in Range(groups[k])
    BY <2>2, <2>4, <2>5, JoinedHas
  <2> QED
    BY <2>5, <2>6, <2>7
<1>5. Listed(all) /\ \A x : x \in Range(all) <=> x \in known
  <2>1. PICK j : j = Joined(groups)
    OBVIOUS
  <2>2. Listed(first \o j)
        /\ \A x : x \in Range(first \o j) <=> x \in Range(first) \/ x \in Range(j)
    BY <1>3, <1>4, <2>1, ListedIs, RangesGrow
  <2> QED
    BY <1>2, <1>3, <1>4, <2>1, <2>2
<1>6. PICK names : names = Accumulated(Noted, <<>>, all)
  OBVIOUS
<1>7. Listed(names) /\ \A x : x \in Range(names) <=> x \in known
  BY <1>5, <1>6, NotedAll
<1>8. n \in Nat /\ DOMAIN d = 1 .. n
  BY DeclaredListed, ListedIs
<1>9. \A k \in 1 .. n : Rooted(known, d[k])
  <2>1. \A k \in 1 .. n : d[k] \in Range(d)
    BY <1>8 DEF Range
  <2> QED
    BY <2>1, DeclaredRooted
<1>10. PICK base : base = [names |-> names, edges |-> {}, valid |-> TRUE]
  OBVIOUS
<1>11. base.names = names /\ base.edges = {} /\ base.valid = TRUE
  BY <1>10
<1>12. Building(base, known, ms, d, 0)
  <2>1. \A j : j \notin 1 .. 0
    OBVIOUS
  <2> QED
    BY <1>7, <1>11, <2>1 DEF Building
<1>13. Homes(known, ms)
  BY MembershipsAre
<1>14. GroupGraph(confs, os, list, info) = WithEdges(ms, base, d)
  BY <1>1, <1>2, <1>6, <1>10 DEF GroupGraph, Memberships, WithEdges
<1>15. Building(WithEdges(ms, base, d), known, ms, d, n)
  BY <1>8, <1>9, <1>12, <1>13, GraphBuilds
<1> QED
  BY <1>8, <1>9, <1>14, <1>15

-----------------------------------------------------------------------------
(* What can be sorted still can with less to be sorted.                    *)

\* An element is at its position.
LEMMA PositionIs ==
  ASSUME NEW s, Listed(s), NEW n, n = Len(s), NEW x \in Range(s)
  PROVE  Position(s, x) \in 1 .. n /\ s[Position(s, x)] = x
<1>1. DOMAIN s = 1 .. n
  BY ListedIs
<1>2. \E k \in DOMAIN s : s[k] = x
  BY DEF Range
<1> QED
  BY <1>1, <1>2 DEF Position

\* The links are those of the edges, between the numbers of the groups.
LEMMA NumberedIs ==
  ASSUME NEW known, NEW ms, NEW D, NEW k, NEW g, Building(g, known, ms, D, k),
         NEW names, names = g.names, NEW n, n = Len(names)
  PROVE  /\ n \in Nat /\ Numbered(g) \in SUBSET Pairs(n)
         /\ \A a, b : <<a, b>> \in Numbered(g) <=>
              /\ a \in 1 .. n /\ b \in 1 .. n
              /\ \E e \in g.edges : a = Position(names, e[1]) /\ b = Position(names, e[2])
         /\ \A e \in g.edges : e[1] \in Range(names) /\ e[2] \in Range(names)
<1>1. Listed(names) /\ n \in Nat
  BY ListedIs DEF Building
<1>2. ASSUME NEW e \in g.edges PROVE e[1] \in Range(names) /\ e[2] \in Range(names)
  <2>1. PICK j \in 1 .. k : e = EdgeOf(known, ms, D[j])
    BY DEF Building
  <2>2. D[j][1] \in Range(names) /\ Target(known, ms, D[j]) \in Range(names)
    BY DEF Building
  <2> QED
    BY <2>1, <2>2 DEF EdgeOf
<1>3. \A x \in Range(names) : Position(names, x) \in 1 .. n
  BY <1>1, PositionIs
<1>4. \A a, b : <<a, b>> \in Numbered(g) <=>
        \E e \in g.edges : a = Position(names, e[1]) /\ b = Position(names, e[2])
  BY DEF Numbered
<1>5. Numbered(g) \in SUBSET Pairs(n)
  BY <1>2, <1>3 DEF Numbered, Pairs
<1> QED
  BY <1>1, <1>2, <1>3, <1>4, <1>5

\* The systems of L are those of b, with the positions in names of their groups.
Enumerates(L, b, names, info) ==
  \A k \in DOMAIN L : \A x : x \in GroupsOf(L[k]) <=>
    \E y \in Range(info[b[k]].groups) : x = Position(names, y)

\* The members are the systems by id, with the numbers of their groups.
LEMMA MembersAre ==
  ASSUME NEW info, DetailsInv(info), NEW list \in Seq(DOMAIN info), Once(list),
         NEW n, n = Len(list), NEW b, b = ById(list), NEW g,
         NEW L, L = Members(g, list, info), NEW S, S = Range(L)
  PROVE  /\ n \in Nat /\ L \in Seq(S) /\ Len(L) = n /\ DOMAIN L = 1 .. n
         /\ Enumerates(L, b, g.names, info)
<1>1. n \in Nat
  BY LenProperties
<1>2. L = [k \in 1 .. n |-> L[k]]
  BY DEF Members
<1>3. Listed(L) /\ Len(L) = n
  BY <1>1, <1>2, FunctionListed
<1>4. L \in Seq(S) /\ DOMAIN L = 1 .. n
  BY <1>3, ListedIs DEF Listed, Range
<1>5. ASSUME NEW k \in 1 .. n, NEW x
      PROVE  x \in GroupsOf(L[k]) <=>
               \E y \in Range(info[b[k]].groups) : x = Position(g.names, y)
  <2>1. PICK s, t : s = info[b[k]].groups /\ t = L[k].groups
    OBVIOUS
  <2>2. t = [m \in DOMAIN s |-> Position(g.names, s[m])]
    BY <2>1 DEF Members
  <2> QED
    BY <2>1, <2>2 DEF GroupsOf, Range
<1> QED
  BY <1>1, <1>3, <1>4, <1>5 DEF Enumerates

\* The group that a name stood for when only known were groups.
Origin(known, ms, x) == IF x \notin known /\ x \in DOMAIN ms THEN ms[x][1] ELSE x

\* mt has some of the memberships of ms.
Within(mt, ms) == \A n \in DOMAIN mt : n \in DOMAIN ms /\ mt[n] = ms[n]

\* With more groups a reference leads to what stands for the group it led to, and
\* with fewer systems as well; it fits if it did.
LEMMA TargetMaps ==
  ASSUME NEW known, NEW wide, known \subseteq wide, NEW ms, NEW mt, Within(mt, ms),
         Homes(known, ms), NEW d, Rooted(known, d),
         NEW e, e = EdgeOf(wide, mt, d)
  PROVE  /\ <<Origin(known, ms, e[1]), Origin(known, ms, e[2])>> = EdgeOf(known, ms, d)
         /\ Fits(known, ms, d) => Fits(wide, mt, d)
<1>1. PICK t, u : t = Target(known, ms, d) /\ u = Target(wide, mt, d)
  OBVIOUS
<1>2. d[1] \in known /\ (d[3] = "order" => d[2] \in known)
  BY DEF Rooted
<1>3. Origin(known, ms, d[1]) = d[1]
  BY <1>2 DEF Origin
<1>4. \/ u = d[2]
      \/ /\ d[3] # "order" /\ d[2] \notin known /\ d[2] \in DOMAIN ms
         /\ u = ms[d[2]][1] /\ mt[d[2]] = ms[d[2]]
  BY <1>1 DEF Target, Within
<1>5. Origin(known, ms, u) = t
  <2>1. CASE u = d[2]
    BY <1>1, <1>2, <2>1 DEF Origin, Target
  <2>2. CASE /\ d[3] # "order" /\ d[2] \notin known /\ d[2] \in DOMAIN ms
             /\ u = ms[d[2]][1]
    <3>1. u \in known
      BY <2>2 DEF Homes
    <3>2. t = u
      BY <1>1, <2>2 DEF Target
    <3> QED
      BY <3>1, <3>2 DEF Origin
  <2> QED
    BY <1>4, <2>1, <2>2
<1>6. <<Origin(known, ms, e[1]), Origin(known, ms, e[2])>> = EdgeOf(known, ms, d)
  <2>1. CASE d[3] = "after"
    <3>1. e = <<u, d[1]>>
      BY <1>1, <2>1 DEF EdgeOf
    <3>2. EdgeOf(known, ms, d) = <<t, d[1]>>
      BY <1>1, <2>1 DEF EdgeOf
    <3> QED
      BY <1>3, <1>5, <3>1, <3>2
  <2>2. CASE d[3] # "after"
    <3>1. e = <<d[1], u>>
      BY <1>1, <2>2 DEF EdgeOf
    <3>2. EdgeOf(known, ms, d) = <<d[1], t>>
      BY <1>1, <2>2 DEF EdgeOf
    <3> QED
      BY <1>3, <1>5, <3>1, <3>2
  <2> QED
    BY <2>1, <2>2
<1>7. ASSUME Fits(known, ms, d) PROVE Fits(wide, mt, d)
  <2>1. d[1] # t /\ (t # d[2] => Len(ms[d[2]]) = 1)
    BY <1>1, <1>7 DEF Fits
  <2>2. d[1] # u
    BY <1>3, <1>5, <2>1
  <2>3. ASSUME u # d[2] PROVE Len(mt[d[2]]) = 1
    <3>1. /\ d[3] # "order" /\ d[2] \notin known /\ d[2] \in DOMAIN ms
          /\ u = ms[d[2]][1] /\ mt[d[2]] = ms[d[2]]
      BY <1>4, <2>3
    <3>2. t = u
      BY <1>1, <3>1 DEF Target
    <3> QED
      BY <2>1, <2>3, <3>1, <3>2
  <2> QED
    BY <1>1, <2>2, <2>3 DEF Fits
<1> QED
  BY <1>6, <1>7

\* Systems, groups and orders as a registry has them.
Sound(confs, os, list, info) ==
  /\ SetsInv(confs) /\ OrdersInv(os) /\ DetailsInv(info)
  /\ list \in Seq(DOMAIN info) /\ Once(list)
  /\ Configured(confs, os, list, info)

\* more has the groups of confs, and configures no others.
Widens(more, confs) ==
  /\ Known(confs) \subseteq Known(more)
  /\ \A k \in DOMAIN more : \/ \E j \in DOMAIN confs : more[k] = confs[j]
                            \/ more[k].before = <<>> /\ more[k].after = <<>>

\* Systems and groups that have no more to declare declare no more edges.
LEMMA DeclaredShrinks ==
  ASSUME NEW os, NEW info, NEW confs, NEW list, Sound(confs, os, list, info),
         NEW more, NEW fewer, Sound(more, os, fewer, info),
         Widens(more, confs), Range(fewer) \subseteq Range(list)
  PROVE  \A d : d \in Range(Declared(more, os, fewer, info)) =>
                  d \in Range(Declared(confs, os, list, info))
<1> SUFFICES ASSUME NEW d, d \in Range(Declared(more, os, fewer, info))
             PROVE  d \in Range(Declared(confs, os, list, info))
  OBVIOUS
<1>1. \/ \E i \in Range(fewer) : FromSystem(d, info[i])
      \/ \E k \in DOMAIN more : FromConf(d, more[k])
      \/ \E k \in DOMAIN os : FromOrder(d, os[k])
  BY DeclaredHas DEF Sound
<1>2. ASSUME NEW k \in DOMAIN more, FromConf(d, more[k])
      PROVE  \E j \in DOMAIN confs : FromConf(d, confs[j])
  <2>1. CASE \E j \in DOMAIN confs : more[k] = confs[j]
    BY <1>2, <2>1
  <2>2. CASE more[k].before = <<>> /\ more[k].after = <<>>
    <3>1. DOMAIN <<>> = {}
      OBVIOUS
    <3> QED
      BY <1>2, <2>2, <3>1 DEF FromConf, FromLinks
  <2> QED
    BY <2>1, <2>2 DEF Widens
<1>3. \/ \E i \in Range(list) : FromSystem(d, info[i])
      \/ \E k \in DOMAIN confs : FromConf(d, confs[k])
      \/ \E k \in DOMAIN os : FromOrder(d, os[k])
  BY <1>1, <1>2
<1> QED
  BY <1>3, DeclaredHas DEF Sound

\* Systems that could be sorted still can when some are gone, when groups have
\* come that nothing is said of, and in whatever order they are listed: a
\* reference to a system that is gone, or that has lent its name to a group, is
\* one to a group, and a path through that group is one that there was before
\* (sorted_scheduled_systems).
THEOREM SortsMaps ==
  ASSUME NEW os, NEW info, NEW confs, NEW list, Sound(confs, os, list, info),
         NEW more, NEW fewer, Sound(more, os, fewer, info),
         Widens(more, confs), Range(fewer) \subseteq Range(list),
         Sorts(confs, os, list, info)
  PROVE  Sorts(more, os, fewer, info)
<1>1. PICK known, wide, ms, mt : /\ known = Known(confs) /\ wide = Known(more)
                                 /\ ms = Memberships(list, info)
                                 /\ mt = Memberships(fewer, info)
  OBVIOUS
<1>2. PICK D, E : /\ D = Declared(confs, os, list, info)
                  /\ E = Declared(more, os, fewer, info)
  OBVIOUS
<1>3. PICK j, k : j = Len(D) /\ k = Len(E)
  OBVIOUS
<1>4. PICK g, h : /\ g = GroupGraph(confs, os, list, info)
                  /\ h = GroupGraph(more, os, fewer, info)
  OBVIOUS
<1>5. /\ j \in Nat /\ DOMAIN D = 1 .. j
      /\ \A i \in 1 .. j : Rooted(known, D[i])
      /\ Building(g, known, ms, D, j)
  BY <1>1, <1>2, <1>3, <1>4, GraphIs DEF Sound
<1>6. /\ k \in Nat /\ DOMAIN E = 1 .. k
      /\ \A i \in 1 .. k : Rooted(wide, E[i])
      /\ Building(h, wide, mt, E, k)
  BY <1>1, <1>2, <1>3, <1>4, GraphIs DEF Sound
<1>7. \A a \in 1 .. k : \E b \in 1 .. j : E[a] = D[b]
  <2>1. \A d : d \in Range(E) => d \in Range(D)
    BY <1>2, DeclaredShrinks
  <2>2. \A a \in 1 .. k : E[a] \in Range(E)
    BY <1>6 DEF Range
  <2>3. \A d \in Range(D) : \E b \in 1 .. j : d = D[b]
    BY <1>5 DEF Range
  <2> QED
    BY <2>1, <2>2, <2>3
<1>8. known \subseteq wide /\ Homes(known, ms) /\ Within(mt, ms)
  <2>1. /\ \A i \in Range(list) : info[i].name \in DOMAIN ms
                                  /\ ms[info[i].name] = info[i].groups
        /\ Homes(known, ms)
    <3>1. DetailsInv(info) /\ list \in Seq(DOMAIN info) /\ Configured(confs, os, list, info)
      BY DEF Sound
    <3>2. Roster(ms, list, info) /\ Homes(Known(confs), ms)
      BY <1>1, <3>1, MembershipsAre
    <3> QED
      BY <1>1, <3>2 DEF Roster
  <2>2. \A n \in DOMAIN mt : \E i \in Range(fewer) :
          info[i].name = n /\ mt[n] = info[i].groups
    <3>1. DetailsInv(info) /\ fewer \in Seq(DOMAIN info) /\ Configured(more, os, fewer, info)
      BY DEF Sound
    <3>2. Roster(mt, fewer, info)
      BY <1>1, <3>1, MembershipsAre
    <3> QED
      BY <3>2 DEF Roster
  <2>3. Within(mt, ms)
    BY <2>1, <2>2 DEF Within
  <2> QED
    BY <1>1, <2>1, <2>3 DEF Widens
<1>9. ASSUME NEW a \in 1 .. k, NEW e, e = EdgeOf(wide, mt, E[a])
      PROVE  \E b \in 1 .. j :
               /\ <<Origin(known, ms, e[1]), Origin(known, ms, e[2])>> = EdgeOf(known, ms, D[b])
               /\ Fits(known, ms, D[b]) => Fits(wide, mt, E[a])
  <2>1. PICK b \in 1 .. j : E[a] = D[b]
    BY <1>7
  <2>2. PICK d : d = D[b]
    OBVIOUS
  <2>3. Rooted(known, d) /\ e = EdgeOf(wide, mt, d)
    BY <1>5, <1>9, <2>1, <2>2
  <2>4. /\ <<Origin(known, ms, e[1]), Origin(known, ms, e[2])>> = EdgeOf(known, ms, d)
        /\ Fits(known, ms, d) => Fits(wide, mt, d)
    BY <1>8, <2>3, TargetMaps
  <2> QED
    BY <2>1, <2>2, <2>4
<1>10. PICK L, F : L = Members(g, list, info) /\ F = Members(h, fewer, info)
  OBVIOUS
<1>11. PICK M, N, m, n : /\ M = h.names /\ N = g.names
                         /\ m = Len(M) /\ n = Len(N)
  OBVIOUS
<1>12. PICK links, images : links = Numbered(g) /\ images = Numbered(h)
  OBVIOUS
<1>13. g.valid /\ Schedulable(L, n, links)
  BY <1>4, <1>10, <1>11, <1>12, Zenon DEF Sorts
<1>14. h.valid
  <2>1. \A b \in 1 .. j : Fits(known, ms, D[b])
    BY <1>5, <1>13, Zenon DEF Building
  <2>2. \A a \in 1 .. k : Fits(wide, mt, E[a])
    BY <1>9, <2>1
  <2> QED
    BY <1>6, <2>2, Zenon DEF Building
<1>15. /\ n \in Nat /\ links \in SUBSET Pairs(n)
       /\ \A a, b : <<a, b>> \in links <=>
            /\ a \in 1 .. n /\ b \in 1 .. n
            /\ \E e \in g.edges : a = Position(N, e[1]) /\ b = Position(N, e[2])
       /\ \A e \in g.edges : e[1] \in Range(N) /\ e[2] \in Range(N)
  BY <1>5, <1>11, <1>12, NumberedIs
<1>16. /\ m \in Nat /\ images \in SUBSET Pairs(m)
       /\ \A a, b : <<a, b>> \in images <=>
            /\ a \in 1 .. m /\ b \in 1 .. m
            /\ \E e \in h.edges : a = Position(M, e[1]) /\ b = Position(M, e[2])
       /\ \A e \in h.edges : e[1] \in Range(M) /\ e[2] \in Range(M)
  BY <1>6, <1>11, <1>12, NumberedIs
<1>17. /\ Listed(N) /\ \A x \in Range(N) : Position(N, x) \in 1 .. n
       /\ known \subseteq Range(N)
  <2>1. Listed(N) /\ known \subseteq Range(N)
    BY <1>5, <1>11 DEF Building
  <2> QED
    BY <1>11, <2>1, PositionIs
<1>18. /\ Listed(M) /\ \A x \in Range(M) : M[Position(M, x)] = x /\ Position(M, x) \in 1 .. m
       /\ wide \subseteq Range(M)
  <2>1. Listed(M) /\ wide \subseteq Range(M)
    BY <1>6, <1>11 DEF Building
  <2> QED
    BY <1>11, <2>1, PositionIs
<1>19. PICK f : f = [a \in 1 .. m |-> Position(N, Origin(known, ms, M[a]))]
  OBVIOUS
<1>20. TakesLinks(f, m, images, n, links)
  <2> SUFFICES ASSUME NEW a \in 1 .. m, NEW b \in 1 .. m, <<a, b>> \in images
               PROVE  f[a] \in 1 .. n /\ f[b] \in 1 .. n /\ <<f[a], f[b]>> \in links
    BY DEF TakesLinks
  <2>1. PICK e \in h.edges : a = Position(M, e[1]) /\ b = Position(M, e[2])
    BY <1>16
  <2>2. M[a] = e[1] /\ M[b] = e[2]
    BY <1>16, <1>18, <2>1
  <2>3. PICK c \in 1 .. k : e = EdgeOf(wide, mt, E[c])
    BY <1>6 DEF Building
  <2>4. PICK i \in 1 .. j :
          <<Origin(known, ms, e[1]), Origin(known, ms, e[2])>> = EdgeOf(known, ms, D[i])
    BY <1>9, <2>3
  <2>5. PICK o : o = EdgeOf(known, ms, D[i])
    OBVIOUS
  <2>6. o \in g.edges
    BY <1>5, <2>5 DEF Building
  <2>7. o[1] = Origin(known, ms, e[1]) /\ o[2] = Origin(known, ms, e[2])
    BY <2>4, <2>5
  <2>8. f[a] = Position(N, o[1]) /\ f[b] = Position(N, o[2])
    BY <1>19, <2>2, <2>7
  <2>9. f[a] \in 1 .. n /\ f[b] \in 1 .. n
    BY <1>15, <1>17, <2>6, <2>8
  <2> QED
    BY <1>15, <2>6, <2>8, <2>9
<1>21. PICK b, c, l, r : b = ById(list) /\ c = ById(fewer) /\ l = Len(list) /\ r = Len(fewer)
  OBVIOUS
<1>22. PICK A, B : A = Range(list) /\ B = Range(fewer)
  OBVIOUS
<1>23. /\ b \in [1 .. l -> A] /\ \A x \in A : \E i \in 1 .. l : b[i] = x
  BY <1>21, <1>22, ByIdIs DEF Sound
<1>24. c \in [1 .. r -> B] /\ \A x, y \in 1 .. r : c[x] = c[y] => x = y
  BY <1>21, <1>22, ByIdIs DEF Sound
<1>25. PICK S, T : S = Range(L) /\ T = Range(F)
  OBVIOUS
<1>26. /\ l \in Nat /\ L \in Seq(S) /\ Len(L) = l /\ DOMAIN L = 1 .. l
       /\ Enumerates(L, b, g.names, info)
  <2>1. DetailsInv(info) /\ list \in Seq(DOMAIN info) /\ Once(list)
    BY DEF Sound
  <2> QED
    BY <1>10, <1>21, <1>25, <2>1, MembersAre
<1>27. /\ r \in Nat /\ F \in Seq(T) /\ Len(F) = r /\ DOMAIN F = 1 .. r
       /\ Enumerates(F, c, h.names, info)
  <2>1. DetailsInv(info) /\ fewer \in Seq(DOMAIN info) /\ Once(fewer)
    BY DEF Sound
  <2> QED
    BY <1>10, <1>21, <1>25, <2>1, MembersAre
<1>28. PICK q : q = [i \in 1 .. r |-> CHOOSE a \in 1 .. l : b[a] = c[i]]
  OBVIOUS
<1>29. \A i \in 1 .. r : q[i] \in 1 .. l /\ b[q[i]] = c[i]
  <2> SUFFICES ASSUME NEW i \in 1 .. r PROVE q[i] \in 1 .. l /\ b[q[i]] = c[i]
    OBVIOUS
  <2>1. c[i] \in A
    BY <1>22, <1>24
  <2>2. \E a \in 1 .. l : b[a] = c[i]
    BY <1>23, <2>1
  <2> QED
    BY <1>28, <2>2
<1>30. Among(F, m, L, f, q)
  <2>1. \A x, y \in 1 .. r : q[x] = q[y] => x = y
    BY <1>24, <1>29
  <2>2. ASSUME NEW i \in 1 .. r, NEW x \in GroupsOf(F[i]) PROVE f[x] \in GroupsOf(L[q[i]])
    <3>1. PICK y \in Range(info[c[i]].groups) : x = Position(M, y)
      BY <1>11, <1>27 DEF Enumerates
    <3>2. c[i] \in Range(list)
      BY <1>22, <1>24
    <3>3. y \in known
      BY <1>1, <3>2 DEF Sound, Configured
    <3>4. x \in 1 .. m /\ M[x] = y
      BY <1>8, <1>18, <3>1, <3>3
    <3>5. f[x] = Position(N, y)
      BY <1>19, <3>3, <3>4 DEF Origin
    <3> QED
      BY <1>11, <1>26, <1>29, <3>1, <3>5 DEF Enumerates
  <2> QED
    BY <1>26, <1>27, <1>29, <2>1, <2>2 DEF Among
<1>31. Schedulable(F, m, images)
  BY <1>13, <1>15, <1>16, <1>20, <1>26, <1>27, <1>30, SchedulableMaps
<1> QED
  BY <1>4, <1>10, <1>11, <1>12, <1>14, <1>31, Zenon DEF Sorts

-----------------------------------------------------------------------------
(* The registered systems stay schedulable.                                *)

\* The groups of confs and of names are there, and nothing else is configured
\* (_ensure_group_config).
LEMMA EnsureSetsWidens ==
  ASSUME NEW confs, SetsInv(confs), NEW names, Listed(names)
  PROVE  /\ Widens(EnsureSets(confs, names), confs)
         /\ \A x \in Range(names) : x \in Known(EnsureSets(confs, names))
<1> DEFINE Ensure(cs, m) == IF m \in Range(SetGroups(cs)) THEN cs ELSE Append(cs, Unconfigured(m))
           Has(v, k) == /\ SetsInv(v) /\ Widens(v, confs)
                        /\ \A j \in 1 .. k : names[j] \in Known(v)
<1>1. PICK n : n = Len(names)
  OBVIOUS
<1>2. n \in Nat /\ DOMAIN names = 1 .. n
  BY <1>1, ListedIs
<1>3. \A cs : Range(SetGroups(cs)) = Known(cs)
  BY DEF SetGroups, Known, Range
<1>4. ASSUME NEW v, NEW k \in 1 .. n, Has(v, k - 1) PROVE Has(Ensure(v, names[k]), k)
  <2>1. \A j : j \in 1 .. k <=> j \in 1 .. (k - 1) \/ j = k
    BY <1>4
  <2>2. CASE names[k] \in Range(SetGroups(v))
    BY <1>3, <1>4, <2>1, <2>2
  <2>3. CASE names[k] \notin Range(SetGroups(v))
    <3>1. PICK u, new : u = Unconfigured(names[k]) /\ new = Append(v, u)
      OBVIOUS
    <3>2. Ensure(v, names[k]) = new
      BY <2>3, <3>1
    <3>3. u.group = names[k] /\ u.before = <<>> /\ u.after = <<>>
      BY <3>1 DEF Unconfigured
    <3>4. PICK l : l = Len(v)
      OBVIOUS
    <3>5. l \in Nat /\ DOMAIN v = 1 .. l /\ v \in Seq({v[j] : j \in DOMAIN v})
      BY <1>4, <3>4, ListedIs DEF SetsInv, Listed
    <3>6. DOMAIN new = 1 .. (l + 1) /\ new[l + 1] = u /\ \A j \in 1 .. l : new[j] = v[j]
      BY <3>1, <3>4, <3>5, AppendProperties
    <3>7. \A j : j \in 1 .. (l + 1) <=> j \in 1 .. l \/ j = l + 1
      BY <3>5
    <3>8. SetsInv(new)
      <4>1. Listed(new)
        BY <1>4, <3>1, ListedIs DEF SetsInv
      <4>2. Listed(u.before) /\ Listed(u.after)
        BY <3>3, ListedIs
      <4>3. \A j \in DOMAIN new : Listed(new[j].before) /\ Listed(new[j].after)
        BY <1>4, <3>5, <3>6, <3>7, <4>2 DEF SetsInv
      <4> QED
        BY <4>1, <4>3 DEF SetsInv
    <3>9. Known(v) \subseteq Known(new) /\ names[k] \in Known(new)
      BY <3>3, <3>5, <3>6, <3>7 DEF Known
    <3>10. Widens(new, confs)
      <4>1. \A j \in DOMAIN new : \/ \E i \in DOMAIN confs : new[j] = confs[i]
                                  \/ new[j].before = <<>> /\ new[j].after = <<>>
        BY <1>4, <3>3, <3>5, <3>6, <3>7 DEF Widens
      <4> QED
        BY <1>4, <3>9, <4>1 DEF Widens
    <3>11. \A j \in 1 .. k : names[j] \in Known(new)
      BY <1>4, <2>1, <3>9
    <3> QED
      BY <3>2, <3>8, <3>10, <3>11
  <2> QED
    BY <2>2, <2>3
<1>5. Has(confs, 0)
  BY DEF Widens
<1>6. Inductive(LAMBDA cs, m : Ensure(cs, m), LAMBDA v, k : Has(v, k), confs, names, n)
  BY <1>4, <1>5 DEF Inductive
<1> HIDE DEF Has
<1>7. Attained(LAMBDA cs, m : Ensure(cs, m), LAMBDA v, k : Has(v, k), confs, names, n)
  BY <1>1, <1>2, <1>6, AccumulatedKeeps
<1>8. Has(EnsureSets(confs, names), n)
  BY <1>7 DEF Attained, EnsureSets
<1> QED
  BY <1>2, <1>8 DEF Has, Range

\* Fewer systems among more groups are as sound.
LEMMA SoundMaps ==
  ASSUME NEW os, NEW info, NEW confs, NEW list, Sound(confs, os, list, info),
         NEW more, SetsInv(more), Known(confs) \subseteq Known(more),
         NEW fewer \in Seq(DOMAIN info), Once(fewer), Range(fewer) \subseteq Range(list)
  PROVE  Sound(more, os, fewer, info)
<1>1. Configured(more, os, fewer, info)
  <2>1. \A i \in Range(fewer) : /\ info[i].groups # <<>>
                                /\ Range(info[i].groups) \subseteq Known(more)
    BY DEF Sound, Configured
  <2>2. \A k \in DOMAIN os : Range(os[k]) \subseteq Known(more)
    BY DEF Sound, Configured
  <2>3. \A i, j \in Range(fewer) : info[i].name = info[j].name => i = j
    BY DEF Sound, Configured
  <2> QED
    BY <2>1, <2>2, <2>3 DEF Configured
<1> QED
  BY <1>1 DEF Sound

\* Every group that is named exists, and only gs.group and gs.order leave what
\* cannot be sorted.
SchedulingInv ==
  /\ Configured(sets, orders, systems, details)
  /\ unsorted \/ Sorts(sets, orders, systems, details)

\* What RegistryInv says of the registry.
LEMMA SoundIs ==
  ASSUME RegistryInv, Configured(sets, orders, systems, details)
  PROVE  Sound(sets, orders, systems, details)
BY DEF RegistryInv, Sound, Ids

\* Groups that add_system has created stay when it fails, and change nothing.
LEMMA GroupsStay ==
  ASSUME RegistryInv, SchedulingInv, NEW names, Listed(names),
         sets' = EnsureSets(sets, names), orders' = orders, systems' = systems,
         details' = details, unsorted' = unsorted
  PROVE  SchedulingInv'
<1>1. PICK confs, os, list, info, more : /\ confs = sets /\ os = orders /\ list = systems
                                         /\ info = details /\ more = sets'
  OBVIOUS
<1>2. Sound(confs, os, list, info)
  BY <1>1, SoundIs DEF SchedulingInv
<1>3. SetsInv(more) /\ Widens(more, confs)
  BY <1>1, EnsureSetsKeeps, EnsureSetsWidens DEF RegistryInv
<1>4. list \in Seq(DOMAIN info) /\ Once(list) /\ Range(list) \subseteq Range(list)
  BY <1>2 DEF Sound
<1>5. Sound(more, os, list, info)
  BY <1>2, <1>3, <1>4, SoundMaps DEF Widens
<1>6. Sorts(confs, os, list, info) => Sorts(more, os, list, info)
  BY <1>2, <1>3, <1>4, <1>5, SortsMaps
<1>7. unsorted \/ Sorts(confs, os, list, info)
  BY <1>1 DEF SchedulingInv
<1>8. Configured(more, os, list, info)
  BY <1>5 DEF Sound
<1>9. unsorted \/ Sorts(more, os, list, info)
  BY <1>6, <1>7
<1> QED
  BY <1>1, <1>8, <1>9 DEF SchedulingInv

\* The record of a new system is the last one.
LEMMA NewDetailIs ==
  ASSUME RegistryInv, NEW r \in Requests, NEW n, n = Len(details) + 1
  PROVE  WithSystem(r)[n] = Scheduled(r)
<1>1. PICK new, s, S : /\ new = Scheduled(r) /\ s = details
                       /\ S = {details[k] : k \in DOMAIN details}
  OBVIOUS
<1>2. s \in Seq(S)
  BY <1>1 DEF RegistryInv, DetailsInv, Listed
<1>3. Append(s, new)[Len(s) + 1] = new
  BY <1>2, AppendProperties
<1> QED
  BY <1>1, <1>3 DEF WithSystem

\* The new system's groups were created before it was sorted, and its name is new
\* (add_system).
LEMMA AddAcceptedSchedules ==
  ASSUME RegistryInv, SchedulingInv, NEW r \in Requests, AddAccepted(r), RegistryInv'
  PROVE  SchedulingInv'
<1>1. PICK n, all, list : n = Len(details) + 1 /\ all = WithSystem(r) /\ list = NewList
  OBVIOUS
<1>2. /\ DetailsInv(all) /\ DOMAIN all = 1 .. n /\ DOMAIN all = Ids \union {n}
      /\ n \in Nat /\ n \notin Ids
      /\ \A i \in Ids : all[i] = details[i]
      /\ all[n].plan = r.plan
      /\ list \in Seq(DOMAIN all) /\ Once(list)
      /\ Range(list) = Range(systems) \union {n}
  BY <1>1, WithSystemIs
<1>3. PICK confs, os, more, kept : /\ confs = sets /\ os = orders
                                   /\ more = sets' /\ kept = systems'
  OBVIOUS
<1>4. /\ more = EnsureSets(confs, GroupsFor(r)) /\ orders' = os /\ details' = all
      /\ Sorts(more, os, list, all) /\ kept = SortedIds(more, os, list, all)
      /\ Named(r.name) = {}
  BY <1>1, <1>3 DEF AddAccepted, NewSystem
<1>5. PICK names : names = GroupsFor(r)
  OBVIOUS
<1>6. Listed(names) /\ names # <<>>
  BY <1>5, GroupsListed DEF GroupsFor
<1>7. SetsInv(more) /\ Widens(more, confs) /\ \A x \in Range(names) : x \in Known(more)
  BY <1>3, <1>4, <1>5, <1>6, EnsureSetsKeeps, EnsureSetsWidens DEF RegistryInv
<1>8. OrdersInv(os)
  BY <1>3 DEF RegistryInv
<1>9. Range(systems) \in SUBSET Ids
  BY IdsAre
<1>10. all[n].groups = names /\ all[n].name = r.name
  <2>1. all[n] = Scheduled(r)
    BY <1>1, NewDetailIs
  <2> QED
    BY <1>5, <2>1 DEF Scheduled
<1>11. Configured(more, os, list, all)
  <2>1. /\ \A i \in Range(systems) : /\ details[i].groups # <<>>
                                     /\ Range(details[i].groups) \subseteq Known(confs)
        /\ \A k \in DOMAIN os : Range(os[k]) \subseteq Known(confs)
        /\ \A i, j \in Range(systems) : details[i].name = details[j].name => i = j
    BY <1>3 DEF SchedulingInv, Configured
  <2>2. Known(confs) \subseteq Known(more)
    BY <1>7 DEF Widens
  <2>3. \A i \in Range(systems) : all[i] = details[i] /\ all[i].name # all[n].name
    BY <1>2, <1>4, <1>9, <1>10 DEF Named
  <2>4. \A i \in Range(list) : /\ all[i].groups # <<>>
                               /\ Range(all[i].groups) \subseteq Known(more)
    BY <1>2, <1>6, <1>7, <1>10, <2>1, <2>2, <2>3
  <2>5. \A k \in DOMAIN os : Range(os[k]) \subseteq Known(more)
    BY <2>1, <2>2
  <2>6. \A i, j \in Range(list) : all[i].name = all[j].name => i = j
    BY <1>2, <2>1, <2>3
  <2> QED
    BY <2>4, <2>5, <2>6 DEF Configured
<1>12. Sound(more, os, list, all)
  BY <1>2, <1>7, <1>8, <1>11 DEF Sound
<1>13. Permutes(kept, list)
  BY <1>2, <1>4, <1>7, <1>8, SortPermutes
<1>14. kept \in Seq(DOMAIN all) /\ Once(kept) /\ Range(kept) \subseteq Range(list)
  <2>1. systems' \in Seq(DOMAIN details') /\ Once(systems')
    BY DEF RegistryInv, Ids
  <2> QED
    BY <1>3, <1>4, <1>13, <2>1 DEF Permutes
<1>15. Widens(more, more)
  BY DEF Widens
<1>16. Known(more) \subseteq Known(more)
  OBVIOUS
<1>17. Sound(more, os, kept, all)
  BY <1>7, <1>12, <1>14, <1>16, SoundMaps
<1>18. Sorts(more, os, kept, all)
  BY <1>4, <1>12, <1>14, <1>15, <1>17, SortsMaps
<1>19. Configured(more, os, kept, all)
  BY <1>17 DEF Sound
<1> QED
  BY <1>3, <1>4, <1>18, <1>19 DEF SchedulingInv

\* The systems that are left refer to a removed one as to a group (remove_system).
LEMMA RemoveSystemSchedules ==
  ASSUME RegistryInv, SchedulingInv, NEW name, RemoveSystem(name), RegistryInv'
  PROVE  SchedulingInv'
<1>1. PICK confs, os, list, info, fewer : /\ confs = sets /\ os = orders /\ list = systems
                                          /\ info = details /\ fewer = systems'
  OBVIOUS
<1>2. sets' = confs /\ orders' = os /\ details' = info /\ unsorted' = unsorted
  BY <1>1 DEF RemoveSystem
<1>3. Sound(confs, os, list, info)
  BY <1>1, SoundIs DEF SchedulingInv
<1>4. PICK i : fewer = Select(list, {k \in DOMAIN list : list[k] # i})
  BY <1>1 DEF RemoveSystem
<1>5. Range(fewer) \subseteq Range(list)
  <2>1. PICK S, I : S = DOMAIN info /\ I = {k \in DOMAIN list : list[k] # i}
    OBVIOUS
  <2>2. list \in Seq(S) /\ I \in SUBSET (DOMAIN list) /\ fewer = Select(list, I)
    BY <1>3, <1>4, <2>1 DEF Sound
  <2>3. Range(fewer) = {list[k] : k \in I}
    BY <2>2, SelectHas
  <2> QED
    BY <2>2, <2>3 DEF Range
<1>6. fewer \in Seq(DOMAIN info) /\ Once(fewer)
  <2>1. systems' \in Seq(DOMAIN details') /\ Once(systems')
    BY DEF RegistryInv, Ids
  <2> QED
    BY <1>1, <1>2, <2>1
<1>7. SetsInv(confs) /\ Widens(confs, confs) /\ Known(confs) \subseteq Known(confs)
  BY <1>3 DEF Sound, Widens
<1>8. Sound(confs, os, fewer, info)
  BY <1>3, <1>5, <1>6, <1>7, SoundMaps
<1>9. Sorts(confs, os, list, info) => Sorts(confs, os, fewer, info)
  BY <1>3, <1>5, <1>7, <1>8, SortsMaps
<1>10. unsorted \/ Sorts(confs, os, list, info)
  BY <1>1 DEF SchedulingInv
<1>11. Configured(confs, os, fewer, info)
  BY <1>8 DEF Sound
<1>12. unsorted \/ Sorts(confs, os, fewer, info)
  BY <1>9, <1>10
<1> QED
  BY <1>1, <1>2, <1>11, <1>12 DEF SchedulingInv

\* A configuration keeps the groups there are (configure_system_group).
LEMMA ConfigureSystemGroupSchedules ==
  ASSUME RegistryInv, SchedulingInv, NEW call \in GroupCalls, ConfigureSystemGroup(call),
         RegistryInv'
  PROVE  SchedulingInv'
<1>1. PICK confs, os, list, info, more : /\ confs = sets /\ os = orders /\ list = systems
                                         /\ info = details /\ more = sets'
  OBVIOUS
<1>2. orders' = os /\ systems' = list /\ details' = info /\ unsorted' = TRUE
  BY <1>1 DEF ConfigureSystemGroup
<1>3. PICK ensured : ensured = EnsureSets(confs, <<call.group>>)
  OBVIOUS
<1>4. Known(confs) \subseteq Known(ensured)
  <2>1. PICK x, names : x = call.group /\ names = <<call.group>>
    OBVIOUS
  <2>2. names \in Seq({x})
    BY <2>1
  <2>3. Listed(names) /\ SetsInv(confs)
    BY <1>1, <2>2, ListedIs DEF RegistryInv
  <2>4. Widens(ensured, confs)
    BY <1>3, <2>1, <2>3, EnsureSetsWidens
  <2> QED
    BY <2>4 DEF Widens
<1>5. DOMAIN more = DOMAIN ensured /\ \A k \in DOMAIN ensured : more[k].group = ensured[k].group
  BY <1>1, <1>3 DEF ConfigureSystemGroup
<1>6. Known(confs) \subseteq Known(more)
  BY <1>4, <1>5 DEF Known
<1>7. Sound(confs, os, list, info)
  BY <1>1, SoundIs DEF SchedulingInv
<1>8. SetsInv(more) /\ list \in Seq(DOMAIN info) /\ Once(list) /\ Range(list) \subseteq Range(list)
  BY <1>1, <1>7 DEF RegistryInv, Sound
<1>9. Configured(more, os, list, info)
  BY <1>6, <1>7, <1>8, SoundMaps DEF Sound
<1> QED
  BY <1>1, <1>2, <1>9 DEF SchedulingInv

\* The groups of an order that is accepted exist (configure_group_order).
LEMMA ConfigureGroupOrderSchedules ==
  ASSUME RegistryInv, SchedulingInv, NEW order \in OrderCalls, ConfigureGroupOrder(order)
  PROVE  SchedulingInv'
<1>1. PICK confs, os, list, info, more, new :
        /\ confs = sets /\ os = orders /\ list = systems
        /\ info = details /\ more = sets' /\ new = orders'
  OBVIOUS
<1>2. /\ more = EnsureSets(confs, order) /\ new = Append(os, order)
      /\ systems' = list /\ details' = info /\ unsorted' = TRUE
  BY <1>1 DEF ConfigureGroupOrder
<1>3. Listed(order)
  BY RegistryAssumption
<1>4. Widens(more, confs) /\ \A x \in Range(order) : x \in Known(more)
  BY <1>1, <1>2, <1>3, EnsureSetsWidens DEF RegistryInv
<1>5. Known(confs) \subseteq Known(more)
  BY <1>4 DEF Widens
<1>6. PICK l : l = Len(os)
  OBVIOUS
<1>7. l \in Nat /\ DOMAIN os = 1 .. l /\ os \in Seq({os[k] : k \in DOMAIN os})
  BY <1>1, <1>6, ListedIs DEF RegistryInv, OrdersInv, Listed
<1>8. DOMAIN new = 1 .. (l + 1) /\ new[l + 1] = order /\ \A k \in 1 .. l : new[k] = os[k]
  BY <1>2, <1>6, <1>7, AppendProperties
<1>9. \A k : k \in 1 .. (l + 1) <=> k \in 1 .. l \/ k = l + 1
  BY <1>7
<1>10. /\ \A i \in Range(list) : /\ info[i].groups # <<>>
                                 /\ Range(info[i].groups) \subseteq Known(confs)
       /\ \A k \in DOMAIN os : Range(os[k]) \subseteq Known(confs)
       /\ \A i, j \in Range(list) : info[i].name = info[j].name => i = j
  BY <1>1 DEF SchedulingInv, Configured
<1>11. \A k \in DOMAIN new : Range(new[k]) \subseteq Known(more)
  BY <1>4, <1>5, <1>7, <1>8, <1>9, <1>10
<1>12. Configured(more, new, list, info)
  BY <1>5, <1>10, <1>11 DEF Configured
<1> QED
  BY <1>1, <1>2, <1>12 DEF SchedulingInv

\* Nothing is sorted without raising.
LEMMA EmptySorts == Sorts(<<>>, <<>>, <<>>, <<>>) /\ Configured(<<>>, <<>>, <<>>, <<>>)
<1>1. PICK z : z = <<>>
  OBVIOUS
<1>2. Listed(z) /\ DOMAIN z = {} /\ Len(z) = 0 /\ z \in Seq(DOMAIN z) /\ Range(z) = {}
  BY <1>1, ListedIs DEF Range
<1>3. SetsInv(z) /\ OrdersInv(z) /\ DetailsInv(z) /\ Once(z)
  BY <1>2 DEF SetsInv, OrdersInv, DetailsInv, Once
<1>4. Configured(z, z, z, z)
  BY <1>2 DEF Configured
<1>5. PICK D, n, g, known, ms :
        /\ D = Declared(z, z, z, z) /\ n = Len(D) /\ g = GroupGraph(z, z, z, z)
        /\ known = Known(z) /\ ms = Memberships(z, z)
  OBVIOUS
<1>6. /\ n \in Nat /\ DOMAIN D = 1 .. n
      /\ \A k \in 1 .. n : Rooted(known, D[k])
      /\ Building(g, known, ms, D, n)
  <2>1. PICK confs, os, info, list : confs = z /\ os = z /\ info = z /\ list = z
    OBVIOUS
  <2>2. /\ SetsInv(confs) /\ OrdersInv(os) /\ DetailsInv(info) /\ list \in Seq(DOMAIN info)
        /\ Configured(confs, os, list, info)
    BY <1>2, <1>3, <1>4, <2>1
  <2>3. /\ known = Known(confs) /\ ms = Memberships(list, info)
        /\ D = Declared(confs, os, list, info) /\ g = GroupGraph(confs, os, list, info)
    BY <1>5, <2>1
  <2> QED
    BY <1>5, <2>2, <2>3, GraphIs
<1>7. \A d : d \notin Range(D)
  BY <1>2, <1>3, <1>5, DeclaredHas
<1>8. \A k : k \notin 1 .. n
  BY <1>6, <1>7 DEF Range
<1>9. g.valid /\ g.edges = {} /\ Listed(g.names)
  <2>1. g.valid
    BY <1>6, <1>8, Zenon DEF Building
  <2>2. \A e : e \notin g.edges
    BY <1>6, <1>8 DEF Building
  <2>3. Listed(g.names)
    BY <1>6 DEF Building
  <2> QED
    BY <2>1, <2>2, <2>3
<1>10. PICK L, m, links : L = Members(g, z, z) /\ m = Len(g.names) /\ links = Numbered(g)
  OBVIOUS
<1>11. m \in Nat /\ links = {}
  BY <1>9, <1>10, ListedIs DEF Numbered
<1>12. Len(L) = 0 /\ L \in Seq({}) /\ DOMAIN L = {}
  <2>1. L = [k \in 1 .. 0 |-> L[k]]
    BY <1>2, <1>10 DEF Members
  <2>2. Listed(L) /\ Len(L) = 0
    BY <2>1, FunctionListed
  <2>3. DOMAIN L = {}
    BY <2>2, ListedIs
  <2>4. {L[k] : k \in DOMAIN L} = {}
    BY <2>3
  <2> QED
    BY <2>2, <2>3, <2>4 DEF Listed
<1>13. \A l : Acyclic(l, {})
  <2>1. PICK R : R = {}
    OBVIOUS
  <2>2. \A l : Loopless(R, l, {})
    BY <2>1 DEF Loopless, Transitive
  <2> QED
    BY <2>2 DEF Acyclic
<1>14. \A Q : SystemLinks(L, Q) = {}
  BY <1>12 DEF SystemLinks
<1>15. Schedulable(L, m, links)
  <2>1. PICK Q : Q = Reachability(m, links)
    OBVIOUS
  <2>2. /\ Acyclic(m, links)
        /\ \A i \in DOMAIN L : ~Precedes(L[i], L[i], Q)
        /\ \A p \in SystemLinks(L, Q) : <<p[2], p[1]>> \notin SystemLinks(L, Q)
        /\ Acyclic(Len(L), SystemLinks(L, Q))
    BY <1>11, <1>12, <1>13, <1>14
  <2> QED
    BY <1>11, <1>12, <2>1, <2>2, SchedulableIs
<1>16. Sorts(z, z, z, z)
  BY <1>5, <1>9, <1>10, <1>15, Zenon DEF Sorts
<1> QED
  BY <1>1, <1>4, <1>16

\* Distinct names are as many as the systems that have them.
LEMMA NamesCounted ==
  ASSUME RegistryInv, SchedulingInv
  PROVE  Cardinality({details[i].name : i \in Range(systems)}) = Len(systems)
<1>1. PICK N, n, list : /\ N = {details[i].name : i \in Range(systems)}
                        /\ n = Len(systems) /\ list = systems
  OBVIOUS
<1>2. n \in Nat /\ DOMAIN list = 1 .. n
  BY <1>1, IdsAre
<1>3. PICK f : f = [k \in 1 .. n |-> details[list[k]].name]
  OBVIOUS
<1>4. \A x : x \in Range(list) <=> \E k \in 1 .. n : x = list[k]
  BY <1>2 DEF Range
<1>5. \A x : x \in N <=> \E k \in 1 .. n : x = f[k]
  BY <1>1, <1>3, <1>4
<1>6. \A i, j \in 1 .. n : f[i] = f[j] => i = j
  <2>1. \A i, j \in 1 .. n : list[i] = list[j] => i = j
    BY <1>1 DEF RegistryInv, Once
  <2>2. \A x, y \in Range(list) : details[x].name = details[y].name => x = y
    BY <1>1 DEF SchedulingInv, Configured
  <2> QED
    BY <1>3, <1>4, <2>1, <2>2
<1>7. f \in Bijection(1 .. n, N)
  <2>1. f \in [1 .. n -> N]
    BY <1>3, <1>5
  <2> QED
    BY <1>5, <1>6, <2>1 DEF Bijection, Injection, Surjection, IsInjective
<1>8. ExistsBijection(1 .. n, N)
  BY <1>7 DEF ExistsBijection
<1>9. IsFiniteSet(1 .. n) /\ Cardinality(1 .. n) = n
  <2>1. 1 \in Int /\ n \in Int /\ n >= 0
    BY <1>2
  <2>2. /\ IsFiniteSet(1 .. n)
        /\ Cardinality(1 .. n) = IF 1 > n THEN 0 ELSE n - 1 + 1
    BY <2>1, FS_Interval
  <2> QED
    BY <2>1, <2>2
<1> QED
  BY <1>1, <1>8, <1>9, FS_Bijection

\* The groups that systems and orders name are configured and names are distinct, in
\* every reachable registry, and the sort succeeds unless gs.group or gs.order was
\* called since it last did.
THEOREM SchedulingInvariant == RegistrySpec => []SchedulingInv
<1>1. RegistryInit => SchedulingInv
  BY EmptySorts DEF RegistryInit, SchedulingInv
<1>2. RegistryInv /\ RegistryInv' /\ SchedulingInv /\ [RegistryNext]_registryVars
      => SchedulingInv'
  <2> SUFFICES ASSUME RegistryInv, RegistryInv', SchedulingInv, [RegistryNext]_registryVars
               PROVE  SchedulingInv'
    OBVIOUS
  <2>1. ASSUME NEW r \in Requests, AddUnprepared(r) \/ AddRefused(r) PROVE SchedulingInv'
    <3>1. PICK names : names = GroupsFor(r)
      OBVIOUS
    <3>2. Listed(names)
      BY <3>1, GroupsListed
    <3>3. /\ sets' = EnsureSets(sets, names) /\ orders' = orders /\ systems' = systems
          /\ details' = details /\ unsorted' = unsorted
      BY <2>1, <3>1 DEF AddUnprepared, AddRefused, NewSystem
    <3> QED
      BY <3>2, <3>3, GroupsStay
  <2>2. ASSUME NEW r \in Requests, AddAccepted(r) PROVE SchedulingInv'
    BY <2>2, AddAcceptedSchedules
  <2>3. ASSUME NEW r \in Requests, RemoveSystem(r.name) PROVE SchedulingInv'
    BY <2>3, RemoveSystemSchedules
  <2>4. ASSUME NEW c \in GroupCalls, ConfigureSystemGroup(c) PROVE SchedulingInv'
    BY <2>4, ConfigureSystemGroupSchedules
  <2>5. ASSUME NEW o \in OrderCalls, ConfigureGroupOrder(o) PROVE SchedulingInv'
    BY <2>5, ConfigureGroupOrderSchedules
  <2>6. CASE UNCHANGED scheduleVars
    BY <2>6 DEF SchedulingInv, scheduleVars
  <2>7. CASE RegisterSchema
    BY <2>6, <2>7 DEF RegisterSchema
  <2>8. CASE Frame
    BY <2>6, <2>8
    DEF Frame, StartFrame, EndFrame, SkipSystem, EnterPython, LeavePython, RunChild,
        BatchFallsBack, RunBatch, ExecutionFails, CompilationFails
  <2>9. CASE UNCHANGED registryVars
    BY <2>6, <2>9 DEF registryVars
  <2> QED
    BY <2>1, <2>2, <2>3, <2>4, <2>5, <2>7, <2>8, <2>9 DEF RegistryNext, Call, AddSystem
<1> QED
  BY <1>1, <1>2, RegistryInvariant, PTL DEF RegistrySpec

\* No name is registered twice, and whatever fails in add_system after it has
\* created groups, and whatever is removed while others refer to it, the registered
\* systems can be sorted, until gs.group or gs.order is called
\* (sorted_scheduled_systems, add_system, remove_system).
THEOREM SchedulableCorrect == RegistrySpec => []RegisteredSchedulable
<1>1. RegistryInv /\ SchedulingInv => RegisteredSchedulable
  BY NamesCounted DEF SchedulingInv, RegisteredSchedulable
<1> QED
  BY <1>1, RegistryInvariant, SchedulingInvariant, PTL
=============================================================================
