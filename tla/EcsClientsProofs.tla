-------------------------- MODULE EcsClientsProofs --------------------------
(***************************************************************************)
(* Theorems about the two parts that work on the world through its methods, *)
(* for any filters, components, tags, slots and number of commands: the    *)
(* query caches (EcsQueries) and the staged barrier (EcsBarrier), each with *)
(* its own specification.                                                  *)
(*                                                                         *)
(* The caches answer as a fresh search would.  A step of World keeps the   *)
(* keys of the archetypes there are and adds one archetype at most, so a   *)
(* cached list that takes what appears stays the scan; a cached row list is *)
(* only used while the revision shows that no row has moved since.         *)
(*                                                                         *)
(* The barrier is all or nothing.  Its preflight works on an overlay of    *)
(* component sets and never on the storage; the overlay is what the commands *)
(* will have made of the entities, so that no command it lets pass can fail *)
(* in the loop.                                                            *)
(***************************************************************************)
EXTENDS EcsQueries, EcsBarrier, EcsWorldProofs, OrderLemmas

-----------------------------------------------------------------------------
(* EcsQueries: what a step of World does to the list of archetypes.        *)

\* bs has the archetypes of archs, by their keys, and at most one more.
Grown(bs, archs) ==
  /\ Len(archs) \in Nat
  /\ Len(bs) \in {Len(archs), Len(archs) + 1}
  /\ \A i \in 1 .. Len(archs) : bs[i].key = archs[i].key

\* An archetype is replaced by one with its key.
SameKeys(bs, archs) ==
  /\ DOMAIN bs = DOMAIN archs
  /\ \A i \in DOMAIN archs : bs[i].key = archs[i].key

\* World::ensure_archetype appends one archetype at most.
LEMMA EnsureGrows ==
  ASSUME NEW archs, archs \in Seq(ArchetypeType), NEW key \in SUBSET Components
  PROVE  Grown(EnsureArchetype(archs, key), archs)
<1>1. Len(archs) \in Nat
  BY LenProperties
<1>2. NewArchetype(key) \in ArchetypeType
  BY NewArchetypeGood DEF GoodArchetype
<1>3. CASE HasArchetype(archs, key)
  BY <1>1, <1>3 DEF EnsureArchetype, Grown
<1>4. CASE ~HasArchetype(archs, key)
  <2>1. EnsureArchetype(archs, key) = Append(archs, NewArchetype(key))
    BY <1>4 DEF EnsureArchetype
  <2>2. /\ Len(Append(archs, NewArchetype(key))) = Len(archs) + 1
        /\ \A i \in 1 .. Len(archs) : Append(archs, NewArchetype(key))[i] = archs[i]
    BY <1>2, AppendProperties
  <2> QED
    BY <1>1, <2>1, <2>2 DEF Grown
<1> QED
  BY <1>3, <1>4

\* A vector changed in place keeps its length.
LEMMA LengthKept ==
  ASSUME NEW bs, NEW cs, SameKeys(cs, bs),
         bs \in Seq(ArchetypeType), cs \in Seq(ArchetypeType)
  PROVE  Len(cs) = Len(bs) /\ DOMAIN bs = 1 .. Len(bs)
<1>1. /\ Len(bs) \in Nat /\ DOMAIN bs = 1 .. Len(bs)
      /\ Len(cs) \in Nat /\ DOMAIN cs = 1 .. Len(cs)
  BY LenProperties
<1>2. PICK m : m = Len(bs)
  OBVIOUS
<1>3. PICK n : n = Len(cs)
  OBVIOUS
<1>4. m \in Nat /\ n \in Nat /\ 1 .. m = 1 .. n
  BY <1>1, <1>2, <1>3 DEF SameKeys
<1>5. (m \in 1 .. m <=> m \in 1 .. n) /\ (n \in 1 .. m <=> n \in 1 .. n)
  BY <1>4
<1>6. m = n
  BY <1>4, <1>5
<1> QED
  BY <1>1, <1>2, <1>3, <1>6

\* Archetypes changed in place after one was appended.
LEMMA GrownInPlace ==
  ASSUME NEW xs, NEW bs, NEW cs, Grown(bs, xs), SameKeys(cs, bs),
         bs \in Seq(ArchetypeType), cs \in Seq(ArchetypeType)
  PROVE  Grown(cs, xs)
<1>1. Len(cs) = Len(bs) /\ DOMAIN bs = 1 .. Len(bs)
  BY LengthKept
<1>2. \A i \in 1 .. Len(xs) : i \in 1 .. Len(bs)
  <2>1. PICK m : m = Len(xs)
    OBVIOUS
  <2>2. PICK n : n = Len(bs)
    OBVIOUS
  <2>3. m \in Nat /\ (n = m \/ n = m + 1)
    BY <2>1, <2>2 DEF Grown
  <2>4. \A i \in 1 .. m : i \in 1 .. n
    BY <2>3
  <2> QED
    BY <2>1, <2>2, <2>4
<1> QED
  BY <1>1, <1>2 DEF Grown, SameKeys

\* Replacing an archetype by one with its key.
LEMMA ReplacedKeys ==
  ASSUME NEW archs, NEW a, NEW b, b.key = archs[a].key
  PROVE  SameKeys([archs EXCEPT ![a] = b], archs)
  BY DEF SameKeys

\* ... twice.
LEMMA SameKeysTwice ==
  ASSUME NEW xs, NEW bs, NEW cs, SameKeys(bs, xs), SameKeys(cs, bs)
  PROVE  SameKeys(cs, xs)
  BY DEF SameKeys

\* Caching an edge in both directions keeps the keys.
LEMMA CacheEdgesKeys ==
  ASSUME NEW archs, NEW small, NEW c, NEW large
  PROVE  SameKeys(CacheEdges(archs, small, c, large), archs)
<1>1. PICK out : out = [archs EXCEPT ![small] =
         WithEdges(archs[small], [archs[small].add EXCEPT ![c] = large],
                   archs[small].remove)]
  OBVIOUS
<1>2. SameKeys(out, archs)
  BY <1>1, ReplacedKeys DEF WithEdges
<1>3. PICK b : b = WithEdges(out[large], out[large].add,
                            [out[large].remove EXCEPT ![c] = small])
  OBVIOUS
<1>4. SameKeys(CacheEdges(archs, small, c, large), out)
  <2>1. CacheEdges(archs, small, c, large) = [out EXCEPT ![large] = b]
    BY <1>1, <1>3 DEF CacheEdges
  <2>2. b.key = out[large].key
    BY <1>3 DEF WithEdges
  <2> QED
    BY <2>1, <2>2 DEF SameKeys
<1> QED
  BY <1>2, <1>4, SameKeysTwice

\* Moving a row keeps the keys.
LEMMA MoveRowKeys ==
  ASSUME NEW archs, NEW source, NEW row, NEW target, NEW e
  PROVE  SameKeys(MoveRow(archs, source, row, target, e), archs)
<1>1. PICK removed :
        removed = [archs EXCEPT ![source] = RemoveRow(archs[source], row)]
  OBVIOUS
<1>2. SameKeys(removed, archs)
  BY <1>1, ReplacedKeys DEF RemoveRow
<1>3. PICK b : b = PushRow(removed[target], e,
                          MovedComponents(archs, source, row, target))
  OBVIOUS
<1>4. SameKeys(MoveRow(archs, source, row, target, e), removed)
  <2>1. MoveRow(archs, source, row, target, e) = [removed EXCEPT ![target] = b]
    BY <1>1, <1>3 DEF MoveRow
  <2>2. b.key = removed[target].key
    BY <1>3 DEF PushRow
  <2> QED
    BY <2>1, <2>2 DEF SameKeys
<1> QED
  BY <1>2, <1>4, SameKeysTwice

\* A method of World keeps the keys of the archetypes and adds one at most.
LEMMA ArchetypesGrow ==
  ASSUME IInv, IInv', WorldNext
  PROVE  Grown(arch', arch)
<1>1. /\ arch \in Seq(ArchetypeType) /\ arch' \in Seq(ArchetypeType)
      /\ Len(arch) \in Nat
  <2>1. arch \in Seq(ArchetypeType) /\ arch' \in Seq(ArchetypeType)
    BY DEF IInv, StorageInv, Indexed, Archetypes
  <2> QED
    BY <2>1, LenProperties
<1>2. Grown(arch, arch)
  BY <1>1 DEF Grown
<1>3. ASSUME NEW bs, bs \in Seq(ArchetypeType), Grown(bs, arch), SameKeys(arch', bs)
      PROVE  Grown(arch', arch)
  BY <1>1, <1>3, GrownInPlace
<1>4. ASSUME NEW K \in SUBSET Components, NEW tags \in SUBSET Tags,
             NEW comps \in Component(K), Spawn(comps, tags)
      PROVE  Grown(arch', arch)
  <2>1. PICK bs : bs = EnsureArchetype(arch, K)
    OBVIOUS
  <2>2. PICK a : a = ArchetypeOf(bs, K)
    OBVIOUS
  <2>3. PICK b : b = PushRow(bs[a], NextHandle, comps)
    OBVIOUS
  <2>4. DOMAIN comps = K
    BY DEF Component
  <2>5. arch' = [bs EXCEPT ![a] = b]
    BY <1>4, <2>1, <2>2, <2>3, <2>4 DEF Spawn
  <2>6. SameKeys(arch', bs)
    <3>1. b.key = bs[a].key
      BY <2>3 DEF PushRow
    <3> QED
      BY <2>5, <3>1 DEF SameKeys
  <2>7. Grown(bs, arch)
    BY <1>1, <2>1, EnsureGrows
  <2>8. bs \in Seq(ArchetypeType)
    BY <2>1, <2>2, EnsureArchetypeIs DEF IInv, StorageInv, Indexed, Archetypes
  <2> QED
    BY <1>3, <2>6, <2>7, <2>8
<1>5. ASSUME NEW e \in order, Despawn(e)
      PROVE  Grown(arch', arch)
  <2>1. PICK a : a = loc[e.index].arch
    OBVIOUS
  <2>2. PICK b : b = RemoveRow(arch[a], loc[e.index].row)
    OBVIOUS
  <2>3. arch' = [arch EXCEPT ![a] = b]
    BY <1>5, <2>1, <2>2 DEF Despawn
  <2>4. b.key = arch[a].key
    BY <2>2 DEF RemoveRow
  <2>5. SameKeys(arch', arch)
    BY <2>3, <2>4 DEF SameKeys
  <2> QED
    BY <1>1, <1>2, <1>3, <2>5
<1>6. ASSUME NEW e \in order, NEW t, NEW key \in SUBSET Components, NEW bs, NEW cs,
             bs = EnsureArchetype(arch, key), bs \in Seq(ArchetypeType),
             cs = t.archetypes, SameKeys(cs, bs) \/ cs = arch,
             MoveEntity(e, t)
      PROVE  Grown(arch', arch)
  <2>1. arch' = MoveRow(cs, loc[e.index].arch, loc[e.index].row, t.target, e)
    BY <1>6 DEF MoveEntity
  <2>2. SameKeys(arch', cs)
    BY <2>1, MoveRowKeys
  <2>3. CASE cs = arch
    BY <1>1, <1>2, <1>3, <2>2, <2>3
  <2>4. CASE SameKeys(cs, bs)
    <3>1. SameKeys(arch', bs)
      BY <2>2, <2>4, SameKeysTwice
    <3>2. Grown(bs, arch)
      BY <1>1, <1>6, EnsureGrows
    <3> QED
      BY <1>3, <1>6, <3>1, <3>2
  <2> QED
    BY <1>6, <2>3, <2>4
<1>7. ASSUME NEW key \in SUBSET Components
      PROVE  EnsureArchetype(arch, key) \in Seq(ArchetypeType)
  BY EnsureArchetypeIs DEF IInv, StorageInv, Indexed, Archetypes
<1>8. ASSUME NEW e \in order
      PROVE  arch[loc[e.index].arch].key \in SUBSET Components
  BY RowOfEntity DEF IInv, ArchetypeType
<1>9. ASSUME NEW e \in order, NEW c \in Components, AddComponent(e, c)
      PROVE  Grown(arch', arch)
  <2>1. PICK source : source = loc[e.index].arch
    OBVIOUS
  <2>2. PICK key : key = arch[source].key \union {c}
    OBVIOUS
  <2>3. PICK bs : bs = EnsureArchetype(arch, key)
    OBVIOUS
  <2>4. PICK t : t = AddTransition(source, c)
    OBVIOUS
  <2>5. key \in SUBSET Components
    BY <1>8, <2>1, <2>2
  <2>6. SameKeys(t.archetypes, bs) \/ t.archetypes = arch
    <3>1. \/ t.archetypes = arch
          \/ t.archetypes = CacheEdges(bs, source, c, ArchetypeOf(bs, key))
      BY <2>2, <2>3, <2>4 DEF AddTransition
    <3> QED
      BY <3>1, CacheEdgesKeys
  <2>7. MoveEntity(e, t)
    BY <1>9, <2>1, <2>4 DEF AddComponent
  <2>8. bs \in Seq(ArchetypeType)
    BY <1>7, <2>3, <2>5
  <2> QED
    BY <1>6, <2>3, <2>5, <2>6, <2>7, <2>8
<1>10. ASSUME NEW e \in order, NEW c \in Components, RemoveComponent(e, c)
       PROVE  Grown(arch', arch)
  <2>1. PICK source : source = loc[e.index].arch
    OBVIOUS
  <2>2. PICK key : key = arch[source].key \ {c}
    OBVIOUS
  <2>3. PICK bs : bs = EnsureArchetype(arch, key)
    OBVIOUS
  <2>4. PICK t : t = RemoveTransition(source, c)
    OBVIOUS
  <2>5. key \in SUBSET Components
    BY <1>8, <2>1, <2>2
  <2>6. SameKeys(t.archetypes, bs) \/ t.archetypes = arch
    <3>1. \/ t.archetypes = arch
          \/ t.archetypes = CacheEdges(bs, ArchetypeOf(bs, key), c, source)
      BY <2>2, <2>3, <2>4 DEF RemoveTransition
    <3> QED
      BY <3>1, CacheEdgesKeys
  <2>7. MoveEntity(e, t)
    BY <1>10, <2>1, <2>4 DEF RemoveComponent
  <2>8. bs \in Seq(ArchetypeType)
    BY <1>7, <2>3, <2>5
  <2> QED
    BY <1>6, <2>3, <2>5, <2>6, <2>7, <2>8
<1>11. ASSUME NEW e \in order, NEW c \in Components, NEW v \in Values, SetField(e, c, v)
       PROVE  Grown(arch', arch)
  <2>1. PICK a : a = loc[e.index].arch
    OBVIOUS
  <2>2. PICK b : b = WriteCell(arch[a], c, loc[e.index].row, v)
    OBVIOUS
  <2>3. arch' = [arch EXCEPT ![a] = b]
    BY <1>11, <2>1, <2>2 DEF SetField
  <2>4. b.key = arch[a].key
    BY <2>2 DEF WriteCell
  <2>5. SameKeys(arch', arch)
    BY <2>3, <2>4 DEF SameKeys
  <2> QED
    BY <1>1, <1>2, <1>3, <2>5
<1>12. ASSUME NEW e \in order, NEW t \in Tags, AddTag(e, t) \/ RemoveTag(e, t)
       PROVE  Grown(arch', arch)
  <2>1. arch' = arch
    BY <1>12 DEF AddTag, RemoveTag
  <2> QED
    BY <1>2, <2>1
<1> QED
  BY <1>4, <1>5, <1>9, <1>10, <1>11, <1>12 DEF WorldNext

-----------------------------------------------------------------------------
(* EcsQueries: the lists of archetypes.                                    *)

\* A scan finds the archetypes that match, in their order.
LEMMA ScanIs ==
  ASSUME Len(arch) \in Nat, NEW af
  PROVE  /\ ScanArchetypes(af) \in Seq(1 .. Len(arch))
         /\ ToSet(ScanArchetypes(af)) = {a \in 1 .. Len(arch) : FilterMatches(af, arch[a].key)}
<1>1. PICK I : I = {a \in 1 .. Len(arch) : FilterMatches(af, arch[a].key)}
  OBVIOUS
<1>2. I \in SUBSET Nat /\ IsFiniteSet(I) /\ I \subseteq 1 .. Len(arch)
  <2>1. IsFiniteSet(1 .. Len(arch)) /\ I \in SUBSET (1 .. Len(arch))
    BY <1>1, FS_Interval
  <2>2. IsFiniteSet(I)
    BY <2>1, FS_Subset
  <2> QED
    BY <2>1, <2>2
<1>3. PICK s : s = ScanArchetypes(af)
  OBVIOUS
<1>4. Increasing(s, I)
  BY <1>1, <1>2, <1>3, InOrderIncreases DEF ScanArchetypes
<1>5. s \in Seq(I) /\ s \in Seq(1 .. Len(arch)) /\ DOMAIN s = 1 .. Len(s)
  <2>1. s \in Seq(I)
    BY <1>4 DEF Increasing
  <2>2. s \in [1 .. Len(s) -> I] /\ Len(s) \in Nat
    BY <2>1, LenProperties
  <2>3. s \in [1 .. Len(s) -> 1 .. Len(arch)]
    BY <1>2, <2>2
  <2>4. s \in Seq(1 .. Len(arch))
    BY <2>2, <2>3
  <2> QED
    BY <2>1, <2>2, <2>4
<1>6. ToSet(s) = I
  <2>1. \A k \in DOMAIN s : s[k] \in I
    BY <1>5
  <2>2. \A n \in I : \E k \in DOMAIN s : s[k] = n
    BY <1>4, <1>5 DEF Increasing
  <2> QED
    BY <2>1, <2>2 DEF ToSet
<1> QED
  BY <1>1, <1>3, <1>5, <1>6

\* The scan after a step is the one before it, with what has appeared.
LEMMA ScanFollows ==
  ASSUME Grown(arch', arch), NEW af, NEW cached, cached = ScanArchetypes(af)
  PROVE  ScanArchetypes(af)' = ConsiderArchetype(af, cached)
<1>1. PICK n : n = Len(arch)
  OBVIOUS
<1>2. PICK m : m = Len(arch')
  OBVIOUS
<1>3. /\ n \in Nat /\ (m = n \/ m = n + 1)
      /\ \A i \in 1 .. n : arch'[i].key = arch[i].key
  BY <1>1, <1>2 DEF Grown
<1>4. PICK I : I = {a \in 1 .. n : FilterMatches(af, arch[a].key)}
  OBVIOUS
<1>5. PICK J : J = {a \in 1 .. m : FilterMatches(af, arch'[a].key)}
  OBVIOUS
<1>6. cached = InOrder(I, <) /\ ScanArchetypes(af)' = InOrder(J, <)
  <2>1. cached = InOrder(I, <)
    BY <1>1, <1>4 DEF ScanArchetypes
  <2>2. ScanArchetypes(af)' = InOrder({a \in 1 .. Len(arch') : FilterMatches(af, arch'[a].key)}, <)
    BY DEF ScanArchetypes, FilterMatches, InOrder
  <2>3. {a \in 1 .. Len(arch') : FilterMatches(af, arch'[a].key)} = J
    BY <1>2, <1>5
  <2> QED
    BY <2>1, <2>2, <2>3
<1>7. I \in SUBSET Nat /\ IsFiniteSet(I) /\ I \subseteq 1 .. n
  <2>1. IsFiniteSet(1 .. n) /\ I \in SUBSET (1 .. n)
    BY <1>3, <1>4, FS_Interval
  <2>2. IsFiniteSet(I)
    BY <2>1, FS_Subset
  <2> QED
    BY <2>1, <2>2
<1>8. Increasing(cached, I)
  BY <1>6, <1>7, InOrderIncreases
<1>9. cached = <<>> \/ cached[Len(cached)] # n + 1
  <2>1. ASSUME cached # <<>>
        PROVE  cached[Len(cached)] \in I
    BY <1>8, <2>1 DEF Increasing
  <2> QED
    BY <1>3, <1>7, <2>1
<1>10. CASE m = n + 1 /\ FilterMatches(af, arch'[m].key)
  <2>1. J = I \union {m}
    BY <1>3, <1>4, <1>5, <1>10
  <2>2. m \in Nat /\ \A i \in I : i < m
    BY <1>3, <1>7, <1>10
  <2>3. InOrder(J, <) = Append(cached, m)
    BY <1>6, <1>7, <2>1, <2>2, InOrderAppends
  <2>4. ConsiderArchetype(af, cached) = Append(cached, m)
    BY <1>1, <1>2, <1>3, <1>9, <1>10 DEF ConsiderArchetype
  <2> QED
    BY <1>6, <2>3, <2>4
<1>11. CASE ~(m = n + 1 /\ FilterMatches(af, arch'[m].key))
  <2>1. J = I
    BY <1>3, <1>4, <1>5, <1>11
  <2>2. ConsiderArchetype(af, cached) = cached
    BY <1>1, <1>2, <1>3, <1>11 DEF ConsiderArchetype
  <2> QED
    BY <1>6, <2>1, <2>2
<1> QED
  BY <1>10, <1>11

-----------------------------------------------------------------------------
(* EcsQueries: the rows.                                                   *)

\* The live entities a filter selects.
Selected(f) == {e \in order : Satisfies(e, f)}

\* The order of Entity::raw.
HandlesBefore(S) == {p \in S \X S : Before(p[1], p[2])}

\* Handles are told apart by their raw number.
LEMMA HandlesOrdered ==
  ASSUME NEW S \in SUBSET Entity
  PROVE  StrictOrder(S, HandlesBefore(S))
<1>1. \A d, e \in S : <<d, e>> \in HandlesBefore(S) <=> Before(d, e)
  BY DEF HandlesBefore
<1>2. \A e \in S : /\ e.index \in Int /\ e.generation \in Int
                   /\ e = [index |-> e.index, generation |-> e.generation]
  BY WorldAssumption DEF Entity, Slots
<1>3. \A d, e \in S : d.index = e.index /\ d.generation = e.generation => d = e
  BY <1>2
<1>4. \A e \in S : ~Before(e, e)
  BY <1>2 DEF Before
<1>5. \A d, e \in S : d # e => Before(d, e) \/ Before(e, d)
  BY <1>2, <1>3 DEF Before
<1>6. \A c, d, e \in S : Before(c, d) /\ Before(d, e) => Before(c, e)
  BY <1>2 DEF Before
<1> QED
  BY <1>1, <1>4, <1>5, <1>6 DEF StrictOrder

\* What a cached row list is: the selected entities in handle order.
Matching(f) == InOrder(Selected(f), Before)

\* They are listed once each.
LEMMA MatchingLists ==
  ASSUME IInv, NEW f
  PROVE  /\ Selected(f) \subseteq order /\ order \subseteq Entity
         /\ Lists(Matching(f), Selected(f), HandlesBefore(Selected(f)))
<1>1. order \subseteq Entity /\ IsFiniteSet(order)
  BY LiveHandles, FiniteOrder DEF IInv
<1>2. PICK S : S = Selected(f)
  OBVIOUS
<1>3. S \subseteq order
  BY <1>2 DEF Selected
<1>4. IsFiniteSet(S) /\ S \in SUBSET Entity
  BY <1>1, <1>3, FS_Subset
<1>5. Matching(f) = Enumeration(S, HandlesBefore(S))
  BY <1>2 DEF Matching, InOrder, HandlesBefore
<1>6. Lists(Matching(f), S, HandlesBefore(S))
  BY <1>4, <1>5, HandlesOrdered, EnumerationLists
<1> QED
  BY <1>1, <1>2, <1>3, <1>6

\* The rows collected through an exact archetype list are the matching ones.
LEMMA CollectIs ==
  ASSUME IInv, NEW f \in Filters
  PROVE  CollectRows(f, ScanArchetypes(ArchetypeFilter(f))) = Matching(f)
<1>1. PICK af : af = ArchetypeFilter(f)
  OBVIOUS
<1>2. af.with = f.with /\ af.without = f.without
  BY <1>1 DEF ArchetypeFilter
<1>3. PICK found : found = ToSet(ScanArchetypes(af))
  OBVIOUS
<1>4. found = {a \in 1 .. Len(arch) : FilterMatches(af, arch[a].key)}
  <2>1. Len(arch) \in Nat
    BY LenProperties DEF IInv, StorageInv, Indexed, Archetypes
  <2> QED
    BY <1>3, <2>1, ScanIs
<1>5. ASSUME NEW e \in order
      PROVE  /\ loc[e.index].arch \in 1 .. Len(arch)
             /\ DOMAIN StoreOf(e).comps = arch[loc[e.index].arch].key
  BY RowOfEntity DEF IInv, StoreOf
<1>6. ASSUME NEW e \in order
      PROVE  (/\ loc[e.index].arch \in found
              /\ f.tagged \subseteq slotTags[e.index]
              /\ f.untagged \cap slotTags[e.index] = {}) <=> Satisfies(e, f)
  BY <1>2, <1>4, <1>5 DEF Satisfies, FilterMatches
<1>7. {e \in order : /\ loc[e.index].arch \in found
                     /\ f.tagged \subseteq slotTags[e.index]
                     /\ f.untagged \cap slotTags[e.index] = {}} = Selected(f)
  BY <1>6 DEF Selected
<1> QED
  BY <1>1, <1>3, <1>7 DEF CollectRows, Matching

-----------------------------------------------------------------------------
(* EcsQueries: the invariant.                                              *)

\* The lists are scans, and the row entries typed.
CacheInv ==
  /\ revision \in 0 .. MaxRevision
  /\ DOMAIN archetypeCache \subseteq ArchetypeFilters
  /\ ArchetypeCacheExact
  /\ DOMAIN rowCache \subseteq Filters
  /\ \A f \in DOMAIN rowCache :
       /\ rowCache[f].revision \in 0 .. revision
       /\ rowCache[f].rows \in Seq(Entity)
       /\ ArchetypeFilter(f) \in DOMAIN archetypeCache

\* An entry of this revision is what a search would find.
RowInv ==
  \A f \in Filters :
    RowsCached(f) => /\ rowCache[f].rows = Matching(f)
                     /\ rowCache[f].locations = RowLocations(Matching(f))

QueryInv == IInv /\ CacheInv /\ RowInv

\* The invariant gives the checked ones.
LEMMA QueryInvGives ==
  ASSUME QueryInv
  PROVE  QueryTypeOK /\ ArchetypeCacheExact /\ CachedRowsFresh
<1>1. IInv /\ CacheInv /\ RowInv
  BY DEF QueryInv
<1>2. QueryTypeOK
  <2>1. Len(arch) \in Nat
    BY <1>1, LenProperties DEF IInv, StorageInv, Indexed, Archetypes
  <2>2. \A af \in DOMAIN archetypeCache : archetypeCache[af] \in Seq(1 .. Len(arch))
    BY <1>1, <2>1, ScanIs DEF CacheInv, ArchetypeCacheExact
  <2>3. TypeOK
    BY <1>1, IInvGives
  <2> QED
    BY <1>1, <2>2, <2>3 DEF QueryTypeOK, CacheInv
<1>3. ASSUME NEW f \in Filters, RowsCached(f), NEW rows, rows = rowCache[f].rows
      PROVE  /\ ToSet(rows) = {e \in order : Satisfies(e, f)}
             /\ \A i, j \in 1 .. Len(rows) : i < j => Before(rows[i], rows[j])
             /\ \A i \in 1 .. Len(rows) :
                  LET l == rowCache[f].locations[i] IN
                  arch[l[1]].entities[l[2]] = rows[i]
  <2>1. rows = Matching(f) /\ rowCache[f].locations = RowLocations(rows)
    BY <1>1, <1>3 DEF RowInv
  <2>2. Selected(f) \subseteq order /\ Lists(rows, Selected(f), HandlesBefore(Selected(f)))
    BY <1>1, <2>1, MatchingLists
  <2>3. rows \in Seq(Selected(f)) /\ DOMAIN rows = 1 .. Len(rows)
    BY <2>2 DEF Lists
  <2>4. \A i \in 1 .. Len(rows) : rows[i] \in Selected(f)
    BY <2>3
  <2>5. ToSet(rows) = Selected(f)
    BY <2>2, <2>3, <2>4 DEF Lists, ToSet
  <2>6. \A i, j \in 1 .. Len(rows) : i < j => Before(rows[i], rows[j])
    BY <2>2 DEF Lists, HandlesBefore
  <2>7. ASSUME NEW i \in 1 .. Len(rows)
        PROVE  LET l == rowCache[f].locations[i] IN
               arch[l[1]].entities[l[2]] = rows[i]
    <3>1. rowCache[f].locations[i] = <<loc[rows[i].index].arch, loc[rows[i].index].row>>
      BY <2>1 DEF RowLocations
    <3>2. arch[loc[rows[i].index].arch].entities[loc[rows[i].index].row] = rows[i]
      BY <1>1, <2>2, <2>4 DEF IInv, StorageInv, RowsExact
    <3> QED
      BY <3>1, <3>2
  <2> QED
    BY <2>5, <2>6, <2>7 DEF Selected
<1>4. CachedRowsFresh
  BY <1>3 DEF CachedRowsFresh
<1> QED
  BY <1>1, <1>2, <1>4 DEF CacheInv

-----------------------------------------------------------------------------
(* EcsQueries: the actions.                                                *)

\* Every list takes what appears (update_query_caches_for_new_archetype).
LEMMA ListsFollow ==
  ASSUME ArchetypeCacheExact, Grown(arch', arch), FollowArchetypes
  PROVE  ArchetypeCacheExact' /\ DOMAIN archetypeCache' = DOMAIN archetypeCache
<1>1. DOMAIN archetypeCache' = DOMAIN archetypeCache
  BY DEF FollowArchetypes
<1>2. ASSUME NEW af \in DOMAIN archetypeCache
      PROVE  archetypeCache'[af] = ScanArchetypes(af)'
  <2>1. PICK cached : cached = archetypeCache[af]
    OBVIOUS
  <2>2. cached = ScanArchetypes(af)
    BY <2>1 DEF ArchetypeCacheExact
  <2>3. archetypeCache'[af] = ConsiderArchetype(af, cached)
    BY <2>1 DEF FollowArchetypes
  <2> QED
    BY <2>2, <2>3, ScanFollows
<1> QED
  BY <1>1, <1>2 DEF ArchetypeCacheExact

\* What every structural method does, whatever else it does.
StructuralStep ==
  /\ revision < MaxRevision
  /\ revision' = revision + 1
  /\ WorldNext
  /\ FollowArchetypes
  /\ rowCache' = rowCache

\* A structural change makes every row entry stale and keeps the lists exact.
LEMMA StructuralKeeps ==
  ASSUME QueryInv, StructuralStep
  PROVE  QueryInv'
<1>1. IInv /\ CacheInv
  BY DEF QueryInv
<1>2. IInv'
  BY <1>1, NextIInv DEF StructuralStep
<1>3. Grown(arch', arch)
  BY <1>1, <1>2, ArchetypesGrow DEF StructuralStep
<1>4. ArchetypeCacheExact' /\ DOMAIN archetypeCache' = DOMAIN archetypeCache
  BY <1>1, <1>3, ListsFollow DEF CacheInv, StructuralStep
<1>5. /\ revision \in Nat /\ revision' = revision + 1 /\ revision' \in 0 .. MaxRevision
      /\ rowCache' = rowCache
  BY <1>1, QueryAssumption DEF CacheInv, StructuralStep
<1>6. \A f \in DOMAIN rowCache :
        rowCache[f].revision \in 0 .. revision' /\ rowCache[f].revision # revision'
  BY <1>1, <1>5 DEF CacheInv
<1>7. CacheInv'
  BY <1>1, <1>4, <1>5, <1>6 DEF CacheInv
<1>8. RowInv'
  BY <1>5, <1>6 DEF RowInv, RowsCached
<1> QED
  BY <1>2, <1>7, <1>8 DEF QueryInv

\* The selected entities say which rows match.
LEMMA MatchingStill ==
  ASSUME NEW f, Selected(f)' = Selected(f)
  PROVE  Matching(f)' = Matching(f)
  BY DEF Matching, InOrder, Before

\* A written field moves nothing a query looks at (World::set_field).
LEMMA FieldKeeps ==
  ASSUME QueryInv, FieldChange
  PROVE  QueryInv'
<1>1. PICK e \in order, c \in Components, v \in Values : SetField(e, c, v)
  BY DEF FieldChange
<1>2. /\ revision' = revision /\ archetypeCache' = archetypeCache /\ rowCache' = rowCache
      /\ loc' = loc /\ order' = order /\ slotTags' = slotTags
  BY <1>1 DEF FieldChange, cacheVars, SetField
<1>3. IInv /\ CacheInv /\ RowInv
  BY DEF QueryInv
<1>4. WorldNext
  BY <1>1 DEF WorldNext
<1>5. IInv'
  BY <1>3, <1>4, NextIInv
<1>6. Grown(arch', arch)
  BY <1>3, <1>4, <1>5, ArchetypesGrow
<1>7. Len(arch') = Len(arch) /\ Len(arch) \in Nat
  <2>1. arch \in Seq(ArchetypeType) /\ arch' \in Seq(ArchetypeType)
    BY <1>3, <1>5 DEF IInv, StorageInv, Indexed, Archetypes
  <2>2. PICK a : a = loc[e.index].arch
    OBVIOUS
  <2>3. PICK b : b = WriteCell(arch[a], c, loc[e.index].row, v)
    OBVIOUS
  <2>4. arch' = [arch EXCEPT ![a] = b] /\ b.key = arch[a].key
    BY <1>1, <2>2, <2>3 DEF SetField, WriteCell
  <2>5. SameKeys(arch', arch)
    BY <2>4 DEF SameKeys
  <2> QED
    BY <2>1, <2>5, LengthKept, LenProperties
<1>8. ArchetypeCacheExact'
  <2>1. ASSUME NEW af \in DOMAIN archetypeCache
        PROVE  ScanArchetypes(af)' = archetypeCache[af]
    <3>1. PICK cached : cached = archetypeCache[af]
      OBVIOUS
    <3>2. cached = ScanArchetypes(af)
      BY <1>3, <3>1 DEF CacheInv, ArchetypeCacheExact
    <3>3. ConsiderArchetype(af, cached) = cached
      BY <1>7 DEF ConsiderArchetype
    <3> QED
      BY <1>6, <3>1, <3>2, <3>3, ScanFollows
  <2> QED
    BY <1>2, <2>1 DEF ArchetypeCacheExact
<1>9. CacheInv'
  BY <1>2, <1>3, <1>8 DEF CacheInv
<1>10. ASSUME NEW f
       PROVE  Matching(f)' = Matching(f)
  <2>1. ASSUME NEW d \in order
        PROVE  DOMAIN StoreOf(d)'.comps = DOMAIN StoreOf(d).comps
    <3>1. PICK a : a = loc[d.index].arch
      OBVIOUS
    <3>2. a \in 1 .. Len(arch)
      BY <1>3, <3>1, RowOfEntity DEF IInv
    <3>3. arch'[a].key = arch[a].key
      BY <1>6, <3>2 DEF Grown
    <3> QED
      BY <1>2, <3>1, <3>3 DEF StoreOf
  <2>2. \A d \in order : Satisfies(d, f)' <=> Satisfies(d, f)
    BY <1>2, <2>1 DEF Satisfies
  <2>3. Selected(f)' = Selected(f)
    BY <1>2, <2>2 DEF Selected
  <2> QED
    BY <2>3, MatchingStill
<1>11. \A rows : RowLocations(rows)' = RowLocations(rows)
  BY <1>2 DEF RowLocations
<1>12. ASSUME NEW f \in Filters, RowsCached(f)'
       PROVE  /\ rowCache'[f].rows = Matching(f)'
              /\ rowCache'[f].locations = RowLocations(Matching(f))'
  <2>1. RowsCached(f)
    BY <1>2, <1>12 DEF RowsCached
  <2>2. rowCache[f].rows = Matching(f) /\ rowCache[f].locations = RowLocations(Matching(f))
    BY <1>3, <2>1 DEF RowInv
  <2>3. RowLocations(Matching(f))' = RowLocations(Matching(f))
    BY <1>2, <1>10 DEF RowLocations
  <2> QED
    BY <1>2, <1>10, <2>2, <2>3
<1> QED
  BY <1>5, <1>9, <1>12 DEF QueryInv, RowInv

\* A miss fills both caches with what a search finds
\* (World::execution_query).
LEMMA MissKeeps ==
  ASSUME QueryInv, NEW f \in Filters, ExecutionQueryMiss(f)
  PROVE  QueryInv'
<1>1. IInv /\ CacheInv /\ RowInv
  BY DEF QueryInv
<1>2. PICK af : af = ArchetypeFilter(f)
  OBVIOUS
<1>3. PICK archetypes : archetypes = IF af \in DOMAIN archetypeCache
                                       THEN archetypeCache[af] ELSE ScanArchetypes(af)
  OBVIOUS
<1>4. PICK rows : rows = CollectRows(f, archetypes)
  OBVIOUS
<1>5. PICK entry : entry = [revision |-> revision, rows |-> rows,
                            locations |-> RowLocations(rows)]
  OBVIOUS
<1>6. /\ archetypeCache' = Insert(archetypeCache, af, archetypes)
      /\ rowCache' = Insert(rowCache, f, entry)
      /\ revision' = revision /\ UNCHANGED worldVars
  BY <1>2, <1>3, <1>4, <1>5 DEF ExecutionQueryMiss
<1>7. /\ slotCount' = slotCount /\ generations' = generations /\ alive' = alive
      /\ arch' = arch /\ loc' = loc /\ slotTags' = slotTags /\ order' = order
  BY <1>6 DEF worldVars
<1>8. IInv'
  BY <1>1, <1>6, NextIInv
<1>9. archetypes = ScanArchetypes(af) /\ af \in ArchetypeFilters
  BY <1>1, <1>2, <1>3 DEF CacheInv, ArchetypeCacheExact, ArchetypeFilters
<1>10. rows = Matching(f) /\ rows \in Seq(Entity)
  <2>1. rows = Matching(f)
    BY <1>1, <1>2, <1>4, <1>9, CollectIs
  <2>2. rows \in Seq(Selected(f)) /\ Selected(f) \subseteq Entity
    BY <1>1, <2>1, MatchingLists DEF Lists
  <2>3. rows \in [1 .. Len(rows) -> Selected(f)] /\ Len(rows) \in Nat
    BY <2>2, LenProperties
  <2>4. rows \in [1 .. Len(rows) -> Entity]
    BY <2>2, <2>3
  <2>5. rows \in Seq(Entity)
    BY <2>3, <2>4
  <2> QED
    BY <2>1, <2>5
<1>11. /\ DOMAIN archetypeCache' = DOMAIN archetypeCache \union {af}
       /\ \A k \in DOMAIN archetypeCache' :
            archetypeCache'[k] = IF k = af THEN archetypes ELSE archetypeCache[k]
  BY <1>6 DEF Insert
<1>12. /\ DOMAIN rowCache' = DOMAIN rowCache \union {f}
       /\ \A g \in DOMAIN rowCache' :
            rowCache'[g] = IF g = f THEN entry ELSE rowCache[g]
  BY <1>6 DEF Insert
<1>13. ArchetypeCacheExact'
  <2>1. \A k \in DOMAIN archetypeCache' : archetypeCache'[k] = ScanArchetypes(k)
    BY <1>1, <1>9, <1>11 DEF CacheInv, ArchetypeCacheExact
  <2>2. \A k : ScanArchetypes(k)' = ScanArchetypes(k)
    BY <1>7 DEF ScanArchetypes, InOrder, FilterMatches
  <2> QED
    BY <2>1, <2>2 DEF ArchetypeCacheExact
<1>14. CacheInv'
  <2>1. revision \in Nat
    BY <1>1, QueryAssumption DEF CacheInv
  <2>2. /\ entry.revision = revision /\ entry.rows = rows
        /\ revision \in 0 .. revision
    BY <1>5, <2>1
  <2>3. ASSUME NEW g \in DOMAIN rowCache'
        PROVE  /\ rowCache'[g].revision \in 0 .. revision
               /\ rowCache'[g].rows \in Seq(Entity)
               /\ ArchetypeFilter(g) \in DOMAIN archetypeCache'
    <3>1. CASE g = f
      BY <1>2, <1>10, <1>11, <1>12, <2>2, <3>1
    <3>2. CASE g # f
      BY <1>1, <1>11, <1>12, <3>2 DEF CacheInv
    <3> QED
      BY <3>1, <3>2
  <2> QED
    BY <1>1, <1>6, <1>9, <1>11, <1>12, <1>13, <2>3 DEF CacheInv
<1>15. RowInv'
  <2>1. ASSUME NEW g
        PROVE  Matching(g)' = Matching(g)
    <3>1. Selected(g)' = Selected(g)
      BY <1>7 DEF Selected, Satisfies, StoreOf
    <3> QED
      BY <3>1, MatchingStill
  <2>2. ASSUME NEW g \in Filters, RowsCached(g)'
        PROVE  /\ rowCache'[g].rows = Matching(g)'
               /\ rowCache'[g].locations = RowLocations(Matching(g))'
    <3>1. g \in DOMAIN rowCache' /\ rowCache'[g].revision = revision
      BY <1>6, <2>2 DEF RowsCached
    <3>2. /\ rowCache'[g].rows = Matching(g)
          /\ rowCache'[g].locations = RowLocations(Matching(g))
      <4>1. CASE g = f
        BY <1>5, <1>10, <1>12, <3>1, <4>1
      <4>2. CASE g # f
        BY <1>1, <1>12, <3>1, <4>2 DEF RowInv, RowsCached
      <4> QED
        BY <4>1, <4>2
    <3>3. RowLocations(Matching(g))' = RowLocations(Matching(g))
      BY <1>7, <2>1 DEF RowLocations
    <3> QED
      BY <2>1, <3>2, <3>3
  <2> QED
    BY <2>2 DEF RowInv
<1> QED
  BY <1>8, <1>14, <1>15 DEF QueryInv

\* The structural methods are steps of World.
LEMMA StructuralIs == StructuralChange => StructuralStep
<1>1. ASSUME NEW K \in SUBSET Components, NEW tags \in SUBSET Tags,
             Structural(Spawn([c \in K |-> Default], tags))
      PROVE  StructuralStep
  <2>1. [c \in K |-> Default] \in Component(K)
    BY WorldAssumption DEF Component
  <2>2. WorldNext
    BY <1>1, <2>1 DEF Structural, WorldNext
  <2> QED
    BY <1>1, <2>2 DEF Structural, StructuralStep
<1>2. ASSUME NEW e \in order,
             \/ Structural(Despawn(e))
             \/ \E c \in Components : \/ Structural(AddComponent(e, c))
                                      \/ Structural(RemoveComponent(e, c))
             \/ \E t \in Tags : Structural(AddTag(e, t)) \/ Structural(RemoveTag(e, t))
      PROVE  StructuralStep
  BY <1>2 DEF Structural, StructuralStep, WorldNext
<1> QED
  BY <1>1, <1>2 DEF StructuralChange

\* Every step keeps the invariant.
LEMMA NextQueries == QueryInv /\ [QueryNext]_queryVars => QueryInv'
<1> SUFFICES ASSUME QueryInv, [QueryNext]_queryVars
             PROVE  QueryInv'
  OBVIOUS
<1>1. CASE StructuralChange
  BY <1>1, StructuralIs, StructuralKeeps
<1>2. CASE FieldChange
  BY <1>2, FieldKeeps
<1>3. ASSUME NEW f \in Filters, ExecutionQueryMiss(f)
      PROVE  QueryInv'
  BY <1>3, MissKeeps
<1>4. CASE UNCHANGED queryVars
  <2>1. /\ UNCHANGED worldVars /\ revision' = revision
        /\ archetypeCache' = archetypeCache /\ rowCache' = rowCache
    BY <1>4 DEF queryVars, cacheVars
  <2>2. /\ arch' = arch /\ loc' = loc /\ slotTags' = slotTags /\ order' = order
    BY <2>1 DEF worldVars
  <2>3. IInv'
    BY <2>1, NextIInv DEF QueryInv
  <2>4. \A k : ScanArchetypes(k)' = ScanArchetypes(k)
    BY <2>2 DEF ScanArchetypes, InOrder, FilterMatches
  <2>5. CacheInv'
    BY <2>1, <2>4 DEF QueryInv, CacheInv, ArchetypeCacheExact
  <2>6. ASSUME NEW f
        PROVE  Matching(f)' = Matching(f) /\ RowLocations(Matching(f))' = RowLocations(Matching(f))
    <3>1. Selected(f)' = Selected(f)
      BY <2>2 DEF Selected, Satisfies, StoreOf
    <3>2. Matching(f)' = Matching(f)
      BY <3>1, MatchingStill
    <3> QED
      BY <2>2, <3>2 DEF RowLocations
  <2>7. RowInv'
    BY <2>1, <2>6 DEF QueryInv, RowInv, RowsCached
  <2> QED
    BY <2>3, <2>5, <2>7 DEF QueryInv
<1> QED
  BY <1>1, <1>2, <1>3, <1>4 DEF QueryNext

-----------------------------------------------------------------------------
(* EcsQueries: the theorems.                                               *)

\* The caches and the storage stay in step.
THEOREM QueryInvariant == QuerySpec => []QueryInv
<1>1. QueryInit => QueryInv
  <2> SUFFICES ASSUME QueryInit PROVE QueryInv
    OBVIOUS
  <2>1. IInv
    BY InitIInv DEF QueryInit
  <2>2. DOMAIN archetypeCache = {} /\ DOMAIN rowCache = {}
    BY DEF QueryInit
  <2>3. revision \in 0 .. MaxRevision
    BY QueryAssumption DEF QueryInit
  <2> QED
    BY <2>1, <2>2, <2>3
       DEF QueryInv, CacheInv, RowInv, RowsCached, ArchetypeCacheExact
<1> QED
  BY <1>1, NextQueries, PTL DEF QuerySpec

\* The caches hold what they are declared to, and a row entry always has the
\* archetype list it was collected through.
THEOREM QueryTypesCorrect == QuerySpec => []QueryTypeOK
<1>1. QueryInv => QueryTypeOK
  BY QueryInvGives
<1> QED
  BY <1>1, QueryInvariant, PTL

\* A cached archetype list is what a fresh scan would give
\* (CachedQuery::consider_archetype).
THEOREM ArchetypeListsCorrect == QuerySpec => []ArchetypeCacheExact
<1>1. QueryInv => ArchetypeCacheExact
  BY QueryInvGives
<1> QED
  BY <1>1, QueryInvariant, PTL

\* The rows execution_query returns from its cache are the live entities the
\* filter selects, in handle order, where they are now.
THEOREM CachedRowsCorrect == QuerySpec => []CachedRowsFresh
<1>1. QueryInv => CachedRowsFresh
  BY QueryInvGives
<1> QED
  BY <1>1, QueryInvariant, PTL

-----------------------------------------------------------------------------
(* EcsBarrier: commands and component sets.                                *)

\* The fields of a command.
LEMMA CommandFields ==
  ASSUME NEW command \in Command
  PROVE  /\ command.op \in {"spawn", "despawn", "add", "remove"}
         /\ command.op = "spawn" =>
              command.components \in SUBSET Names /\ command.tags \in SUBSET Tags
         /\ command.op # "spawn" => command.entity \in Issued
         /\ command.op \in {"add", "remove"} => command.component \in Names
<1>1. CASE command \in [op : {"spawn"}, components : SUBSET Names, tags : SUBSET Tags]
  BY <1>1
<1>2. CASE command \in [op : {"despawn"}, entity : Issued]
  BY <1>2
<1>3. CASE command \in [op : {"add", "remove"}, entity : Issued, component : Names]
  BY <1>3
<1> QED
  BY <1>1, <1>2, <1>3 DEF Command

\* An issued handle is located exactly when its entity is alive (World::location).
LEMMA LocatedIsLive ==
  ASSUME IInv, NEW e \in Issued
  PROVE  Located(e) <=> e \in order
<1>1. /\ AllocatorInv /\ StorageInv /\ RowsExact(arch, loc, order)
      /\ order = {HandleIn(i) : i \in {j \in Slots : alive[j]}}
  BY DEF IInv, AllocatorInv, StorageInv
<1>2. e.index \in Slots /\ e = [index |-> e.index, generation |-> e.generation]
  BY DEF Issued
<1>3. ASSUME Located(e) PROVE e \in order
  <2>1. alive[e.index] /\ generations[e.index] = e.generation
    BY <1>3 DEF Located, ValidHandle
  <2>2. e = HandleIn(e.index)
    BY <1>2, <2>1 DEF HandleIn
  <2> QED
    BY <1>1, <1>2, <2>1, <2>2
<1>4. ASSUME e \in order PROVE Located(e)
  <2>1. ValidHandle(e)
    BY <1>1, <1>4, LiveHandles DEF ValidHandle
  <2>2. loc[e.index].generation = e.generation /\ loc[e.index].arch \in 1 .. Len(arch)
    BY <1>1, <1>4 DEF RowsExact
  <2>3. loc[e.index].arch # 0
    BY <2>2
  <2> QED
    BY <2>1, <2>2, <2>3 DEF Located
<1> QED
  BY <1>3, <1>4

\* The component set of an entity is the key of its archetype.
LEMMA KeyIs ==
  ASSUME IInv, NEW e \in order
  PROVE  KeyOf(e) \in SUBSET Components /\ KeyOf(e) = DOMAIN StoreOf(e).comps
<1>1. arch[loc[e.index].arch] \in ArchetypeType
  BY RowOfEntity DEF IInv
<1> QED
  BY <1>1, StoreOfIs DEF KeyOf, ArchetypeType

\* What the commands make of the component sets, one by one.
LEMMA MeantIs ==
  ASSUME NEW keys, NEW commands, Len(commands) \in Nat
  PROVE  \A k \in 0 .. Len(commands) :
           Meant(keys, commands)[k] =
             IF k = 0 THEN keys ELSE Meaning(Meant(keys, commands)[k - 1], commands[k])
<1> DEFINE Step(v, k) == Meaning(v, commands[k])
<1>1. PICK n : n = Len(commands)
  OBVIOUS
<1>2. PICK f : f = CHOOSE g : g = [k \in 0 .. n |-> IF k = 0 THEN keys ELSE Step(g[k - 1], k)]
  OBVIOUS
<1>3. Meant(keys, commands) = f
  BY <1>1, <1>2 DEF Meant
<1>4. FiniteNatInductiveDefHypothesis(f, keys, LAMBDA v, k : Step(v, k), 0, n)
  BY <1>2 DEF FiniteNatInductiveDefHypothesis
<1>5. FiniteNatInductiveDefConclusion(f, keys, LAMBDA v, k : Step(v, k), 0, n)
  BY <1>1, <1>4, FiniteNatInductiveDef
<1>6. \A k \in 0 .. n : f[k] = IF k = 0 THEN keys ELSE Meaning(f[k - 1], commands[k])
  BY <1>5 DEF FiniteNatInductiveDefConclusion
<1> QED
  BY <1>1, <1>3, <1>6

\* What the overlay holds after each command.
LEMMA OverlaysAre ==
  ASSUME NEW commands, Len(commands) \in Nat
  PROVE  \A k \in 0 .. Len(commands) :
           Overlays(commands)[k] =
             IF k = 0 THEN [x \in {} |-> Gone]
             ELSE Overlaid(Overlays(commands)[k - 1], commands[k])
<1> DEFINE Step(v, k) == Overlaid(v, commands[k])
<1>1. PICK n, start : n = Len(commands) /\ start = [x \in {} |-> Gone]
  OBVIOUS
<1>2. PICK f : f = CHOOSE g : g = [k \in 0 .. n |-> IF k = 0 THEN start ELSE Step(g[k - 1], k)]
  OBVIOUS
<1>3. Overlays(commands) = f
  BY <1>1, <1>2 DEF Overlays
<1>4. FiniteNatInductiveDefHypothesis(f, start, LAMBDA v, k : Step(v, k), 0, n)
  BY <1>2 DEF FiniteNatInductiveDefHypothesis
<1>5. FiniteNatInductiveDefConclusion(f, start, LAMBDA v, k : Step(v, k), 0, n)
  BY <1>1, <1>4, FiniteNatInductiveDef
<1>6. \A k \in 0 .. n : f[k] = IF k = 0 THEN start ELSE Overlaid(f[k - 1], commands[k])
  BY <1>5 DEF FiniteNatInductiveDefConclusion
<1> QED
  BY <1>1, <1>3, <1>6

-----------------------------------------------------------------------------
(* EcsBarrier: the preflight.                                              *)

\* A command that will succeed on entities with these component sets.
Legal(keys, command) ==
  \/ command.op = "spawn" /\ command.components \subseteq Components
  \/ command.op = "despawn" /\ command.entity \in DOMAIN keys
  \/ /\ command.op \in {"add", "remove"}
     /\ command.component \in Components
     /\ command.entity \in DOMAIN keys
     /\ command.op = "add" <=> command.component \notin keys[command.entity]

\* The overlay agrees with the component sets.
Agrees(overlay, keys) ==
  \A e \in Issued :
    OverlayEntry(overlay, e) = IF e \in DOMAIN keys THEN Having(keys[e]) ELSE Gone

\* A command that the overlay allows is legal, and after it the two agree again.
LEMMA OverlayStep ==
  ASSUME NEW overlay, NEW keys, NEW command \in Command, Agrees(overlay, keys),
         Allowed(overlay, command)
  PROVE  /\ Legal(keys, command)
         /\ Agrees(Overlaid(overlay, command), Meaning(keys, command))
<1>1. /\ command.op \in {"spawn", "despawn", "add", "remove"}
      /\ command.op # "spawn" => command.entity \in Issued
  BY CommandFields
<1>2. CASE command.op = "spawn"
  <2>1. Legal(keys, command)
    BY <1>2 DEF Allowed, Legal
  <2>2. Overlaid(overlay, command) = overlay /\ Meaning(keys, command) = keys
    BY <1>2 DEF Overlaid, Meaning
  <2> QED
    BY <2>1, <2>2
<1>3. CASE command.op # "spawn"
  <2>1. PICK x : x = command.entity
    OBVIOUS
  <2>2. PICK entry : entry = OverlayEntry(overlay, x)
    OBVIOUS
  <2>3. x \in Issued
    BY <1>1, <1>3, <2>1
  <2>4. entry = IF x \in DOMAIN keys THEN Having(keys[x]) ELSE Gone
    BY <2>2, <2>3 DEF Agrees
  <2>5. entry.live
    BY <1>3, <2>1, <2>2 DEF Allowed
  <2>6. x \in DOMAIN keys /\ entry = Having(keys[x]) /\ entry.key = keys[x]
    <3>1. Gone.live = FALSE
      BY DEF Gone
    <3>2. x \in DOMAIN keys
      BY <2>4, <2>5, <3>1
    <3> QED
      BY <2>4, <3>2 DEF Having
  <2>7. \A state : \A e : OverlayEntry(Overlay(overlay, x, state), e) =
                            IF e = x THEN state ELSE OverlayEntry(overlay, e)
    BY DEF OverlayEntry, Overlay
  <2>8. CASE command.op = "despawn"
    <3>1. Legal(keys, command)
      BY <2>1, <2>6, <2>8 DEF Legal
    <3>2. Overlaid(overlay, command) = Overlay(overlay, x, Gone)
      BY <2>1, <2>8 DEF Overlaid
    <3>3. Meaning(keys, command) = [e \in DOMAIN keys \ {x} |-> keys[e]]
      BY <2>1, <2>8 DEF Meaning
    <3>4. Agrees(Overlay(overlay, x, Gone), [e \in DOMAIN keys \ {x} |-> keys[e]])
      BY <2>7 DEF Agrees
    <3> QED
      BY <3>1, <3>2, <3>3, <3>4
  <2>9. CASE command.op # "despawn"
    <3>1. PICK key : key = Changed(keys[x], command)
      OBVIOUS
    <3>2. command.op \in {"add", "remove"}
      BY <1>1, <1>3, <2>9
    <3>3. command.component \in Components /\ Changed(entry.key, command) # entry.key
      BY <1>3, <2>1, <2>2, <2>9 DEF Allowed
    <3>4. command.op = "add" <=> command.component \notin keys[x]
      BY <2>6, <3>2, <3>3 DEF Changed
    <3>5. Legal(keys, command)
      BY <2>1, <2>6, <3>2, <3>3, <3>4 DEF Legal
    <3>6. Overlaid(overlay, command) = Overlay(overlay, x, Having(key))
      BY <1>3, <2>1, <2>2, <2>6, <2>9, <3>1 DEF Overlaid
    <3>7. Meaning(keys, command) = [keys EXCEPT ![x] = key]
      BY <2>1, <3>1, <3>2 DEF Meaning, Changed
    <3>8. Agrees(Overlay(overlay, x, Having(key)), [keys EXCEPT ![x] = key])
      BY <2>6, <2>7 DEF Agrees
    <3> QED
      BY <3>5, <3>6, <3>7, <3>8
  <2> QED
    BY <2>8, <2>9
<1> QED
  BY <1>2, <1>3

\* validate_staged_barrier lets a buffer pass only when each of its commands is
\* legal where the ones before it have left the entities.
LEMMA ValidIsLegal ==
  ASSUME IInv, GenerationBound, NEW commands \in Seq(Command), BarrierValid(commands)
  PROVE  \A k \in 1 .. Len(commands) : Legal(Meant(Keys, commands)[k - 1], commands[k])
<1>1. PICK n, over, keys : /\ n = Len(commands) /\ over = Overlays(commands)
                           /\ keys = Meant(Keys, commands)
  OBVIOUS
<1>2. n \in Nat /\ \A k \in 1 .. n : commands[k] \in Command
  BY <1>1, ElementOfSeq
<1>3. \A k \in 1 .. n : Allowed(over[k - 1], commands[k])
  BY <1>1 DEF BarrierValid
<1>4. /\ over[0] = [x \in {} |-> Gone] /\ keys[0] = Keys
      /\ \A k \in 1 .. n : /\ over[k] = Overlaid(over[k - 1], commands[k])
                           /\ keys[k] = Meaning(keys[k - 1], commands[k])
  <2>1. 0 \in 0 .. n /\ \A k \in 1 .. n : k \in 0 .. n /\ k # 0
    BY <1>2
  <2> QED
    BY <1>1, <1>2, <2>1, MeantIs, OverlaysAre
<1>5. Agrees(over[0], keys[0])
  <2> SUFFICES ASSUME NEW e \in Issued
               PROVE  OverlayEntry(over[0], e) =
                        IF e \in DOMAIN keys[0] THEN Having(keys[0][e]) ELSE Gone
    BY DEF Agrees
  <2>1. DOMAIN over[0] = {} /\ DOMAIN keys[0] = order
    BY <1>4 DEF Keys
  <2>2. e \in order => keys[0][e] = KeyOf(e)
    BY <1>4 DEF Keys
  <2>3. Located(e) <=> e \in order
    BY LocatedIsLive
  <2> QED
    BY <2>1, <2>2, <2>3 DEF OverlayEntry, KeyOf
<1>6. \A k \in 0 .. n : Agrees(over[k], keys[k])
  <2>1. PICK B : B = {k \in 0 .. n : ~Agrees(over[k], keys[k])}
    OBVIOUS
  <2> SUFFICES ASSUME B # {} PROVE FALSE
    BY <2>1
  <2>2. PICK k \in B : \A j \in B : k <= j
    <3>1. B \in SUBSET Nat
      BY <1>2, <2>1
    <3> QED
      BY <3>1, LeastNumber
  <2>3. k \in 1 .. n /\ k - 1 \in 0 .. n /\ k - 1 \notin B
    <3>1. k \in 0 .. n /\ k # 0
      BY <1>5, <2>1, <2>2
    <3>2. k \in 1 .. n /\ k - 1 \in 0 .. n
      BY <1>2, <3>1
    <3>3. k - 1 \notin B
      <4> SUFFICES ASSUME k <= k - 1 PROVE FALSE
        BY <2>2
      <4> QED
        BY <1>2, <3>1
    <3> QED
      BY <3>2, <3>3
  <2>4. Agrees(over[k - 1], keys[k - 1])
    BY <2>1, <2>3
  <2>5. Agrees(over[k], keys[k])
    BY <1>2, <1>3, <1>4, <2>3, <2>4, OverlayStep
  <2> QED
    BY <2>1, <2>2, <2>5
<1>7. ASSUME NEW k \in 1 .. n PROVE Legal(keys[k - 1], commands[k])
  <2>1. k - 1 \in 0 .. n
    BY <1>2
  <2> QED
    BY <1>2, <1>3, <1>6, <2>1, OverlayStep
<1> QED
  BY <1>1, <1>7

-----------------------------------------------------------------------------
(* EcsBarrier: the loop.                                                   *)

\* A step of the world forgets no handle.
LEMMA WorldIssues ==
  ASSUME IInv, IInv', GenerationBound, [WorldNext]_worldVars
  PROVE  Issued \subseteq Issued'
<1>1. AllocatorInv /\ AllocatorInv'
  BY DEF IInv
<1>2. CASE AllocatorSpawn
  <2>1. PICK e : e = NextHandle
    OBVIOUS
  <2> QED
    BY <1>1, <1>2, <2>1, SpawnIssues
<1>3. ASSUME NEW e \in order, AllocatorDespawn(e) PROVE Issued \subseteq Issued'
  BY <1>1, <1>3, DespawnIssues
<1>4. CASE UNCHANGED allocVars
  BY <1>4, KeepsIssued
<1>5. \/ AllocatorSpawn
      \/ \E e \in order : AllocatorDespawn(e)
      \/ UNCHANGED allocVars
  BY DEF WorldNext, worldVars, allocVars, Spawn, Despawn, AddComponent,
         RemoveComponent, SetField, AddTag, RemoveTag
<1> QED
  BY <1>2, <1>3, <1>4, <1>5

\* A handle that was issued stays one a command may name.
LEMMA CommandsStay ==
  ASSUME Issued \subseteq Issued'
  PROVE  Command \subseteq Command'
BY DEF Command

\* A legal command is a step of the world.
LEMMA PerformIsNext ==
  ASSUME NEW command \in Command, Legal(Keys, command), Perform(command)
  PROVE  WorldNext
<1>1. DOMAIN Keys = order
  BY DEF Keys
<1>2. /\ command.op \in {"spawn", "despawn", "add", "remove"}
      /\ command.op = "spawn" => command.tags \in SUBSET Tags
  BY CommandFields
<1>3. CASE command.op = "spawn"
  <2>1. PICK K : K = command.components
    OBVIOUS
  <2>2. PICK comps : comps = [c \in K |-> Default]
    OBVIOUS
  <2>3. K \in SUBSET Components /\ comps \in Component(K)
    BY <1>3, <2>1, <2>2, WorldAssumption DEF Legal, Component
  <2>4. Spawn(comps, command.tags)
    BY <1>3, <2>1, <2>2 DEF Perform
  <2> QED
    BY <1>2, <1>3, <2>3, <2>4 DEF WorldNext
<1>4. CASE command.op = "despawn"
  <2>1. command.entity \in order /\ Despawn(command.entity)
    BY <1>1, <1>4 DEF Legal, Perform
  <2> QED
    BY <2>1 DEF WorldNext
<1>5. CASE command.op = "add"
  <2>1. /\ command.entity \in order /\ command.component \in Components
        /\ AddComponent(command.entity, command.component)
    BY <1>1, <1>5 DEF Legal, Perform
  <2> QED
    BY <2>1 DEF WorldNext
<1>6. CASE command.op = "remove"
  <2>1. /\ command.entity \in order /\ command.component \in Components
        /\ RemoveComponent(command.entity, command.component)
    BY <1>1, <1>6 DEF Legal, Perform
  <2> QED
    BY <2>1 DEF WorldNext
<1> QED
  BY <1>2, <1>3, <1>4, <1>5, <1>6

\* The component set of an entity is that of its row in the abstract store.
LEMMA KeyOfStore ==
  \A e : KeyOf(e) = DOMAIN StoreOf(e).comps /\ KeyOf(e)' = DOMAIN StoreOf(e)'.comps
BY DEF KeyOf, StoreOf

\* What a legal spawn does to the component sets.
LEMMA SpawnKeys ==
  ASSUME IInv, IInv', GenerationBound, NEW command \in Command, Legal(Keys, command),
         Perform(command), command.op = "spawn"
  PROVE  \E e : /\ e \notin Issued /\ e \notin order /\ order' = order \union {e}
                /\ KeyOf(e)' = command.components
                /\ \A d \in order : KeyOf(d)' = KeyOf(d)
<1>1. PICK K, tags, comps, e : /\ K = command.components /\ tags = command.tags
                               /\ comps = [c \in K |-> Default] /\ e = NextHandle
  OBVIOUS
<1>2. K \in SUBSET Components /\ comps \in Component(K) /\ tags \in SUBSET Tags
  BY <1>1, WorldAssumption, CommandFields DEF Legal, Component
<1>3. Spawn(comps, tags)
  BY <1>1 DEF Perform
<1>4. /\ e \notin order /\ order' = order \union {e}
      /\ StoreOf(e)' = [comps |-> comps, tags |-> tags]
      /\ \A d \in order : StoreOf(d)' = StoreOf(d)
  BY <1>1, <1>2, <1>3, SpawnEffect
<1>5. AllocatorSpawn /\ AllocatorInv /\ AllocatorInv'
  BY <1>3 DEF Spawn, IInv
<1>6. e \notin Issued
  BY <1>1, <1>5, SpawnIssues
<1>7. KeyOf(e)' = K
  <2>1. KeyOf(e)' = DOMAIN StoreOf(e)'.comps
    BY KeyOfStore
  <2> QED
    BY <1>1, <1>4, <2>1
<1>8. \A d \in order : KeyOf(d)' = KeyOf(d)
  BY <1>4, KeyOfStore
<1> QED
  BY <1>1, <1>4, <1>6, <1>7, <1>8

\* What another legal command does to them.
LEMMA OtherKeys ==
  ASSUME IInv, IInv', NEW command \in Command, Legal(Keys, command),
         Perform(command), command.op # "spawn"
  PROVE  /\ command.entity \in order
         /\ order' = IF command.op = "despawn" THEN order \ {command.entity} ELSE order
         /\ \A d \in order : d # command.entity => KeyOf(d)' = KeyOf(d)
         /\ command.op \in {"add", "remove"} =>
              KeyOf(command.entity)' = Changed(KeyOf(command.entity), command)
<1>1. PICK e : e = command.entity
  OBVIOUS
<1>2. e \in order /\ command.op \in {"despawn", "add", "remove"}
  BY <1>1, CommandFields DEF Legal, Keys
<1>3. CASE command.op = "despawn"
  <2>1. Despawn(e)
    BY <1>1, <1>3 DEF Perform
  <2>2. /\ order' = order \ {e}
        /\ \A d \in order' : StoreOf(d)' = StoreOf(d)
    BY <1>2, <2>1, DespawnEffect
  <2>3. \A d \in order' : KeyOf(d)' = KeyOf(d)
    BY <2>2, KeyOfStore
  <2> QED
    BY <1>1, <1>2, <1>3, <2>2, <2>3
<1>4. CASE command.op = "add"
  <2>1. PICK c : c = command.component
    OBVIOUS
  <2>2. AddComponent(e, c) /\ c \in Components
    BY <1>1, <1>4, <2>1 DEF Perform, Legal
  <2>3. order' = order
    BY <2>2 DEF AddComponent
  <2>4. /\ \A d \in order : d # e => StoreOf(d)' = StoreOf(d)
        /\ StoreOf(e)' =
             [comps |-> [k \in DOMAIN StoreOf(e).comps \union {c} |->
                           IF k \in DOMAIN StoreOf(e).comps
                             THEN StoreOf(e).comps[k] ELSE Default],
              tags |-> slotTags[e.index]]
    BY <1>2, <2>2, AddEffect
  <2>5. DOMAIN StoreOf(e)'.comps = DOMAIN StoreOf(e).comps \union {c}
    BY <2>4
  <2>6. KeyOf(e)' = KeyOf(e) \union {c} /\ \A d \in order : d # e => KeyOf(d)' = KeyOf(d)
    BY <2>4, <2>5, KeyOfStore
  <2> QED
    BY <1>1, <1>2, <1>4, <2>1, <2>3, <2>6 DEF Changed
<1>5. CASE command.op = "remove"
  <2>1. PICK c : c = command.component
    OBVIOUS
  <2>2. RemoveComponent(e, c) /\ c \in Components
    BY <1>1, <1>5, <2>1 DEF Perform, Legal
  <2>3. order' = order
    BY <2>2 DEF RemoveComponent
  <2>4. /\ \A d \in order : d # e => StoreOf(d)' = StoreOf(d)
        /\ StoreOf(e)' =
             [comps |-> [k \in DOMAIN StoreOf(e).comps \ {c} |-> StoreOf(e).comps[k]],
              tags |-> slotTags[e.index]]
    BY <1>2, <2>2, RemoveEffect
  <2>5. DOMAIN StoreOf(e)'.comps = DOMAIN StoreOf(e).comps \ {c}
    BY <2>4
  <2>6. KeyOf(e)' = KeyOf(e) \ {c} /\ \A d \in order : d # e => KeyOf(d)' = KeyOf(d)
    BY <2>4, <2>5, KeyOfStore
  <2> QED
    BY <1>1, <1>2, <1>5, <2>1, <2>3, <2>6 DEF Changed
<1> QED
  BY <1>2, <1>3, <1>4, <1>5

-----------------------------------------------------------------------------
(* EcsBarrier: what the commands applied so far have done.                 *)

\* The spawns with components K among the first n commands.
Spawns(commands, n, K) ==
  {j \in 1 .. n : commands[j].op = "spawn" /\ commands[j].components = K}

\* Of the entities in old the ones in keys are left, with these component sets,
\* and there is one new entity for each spawn among the first n commands.
Applied(old, keys, commands, n) ==
  /\ order \cap DOMAIN old = DOMAIN keys
  /\ \A e \in DOMAIN keys : KeyOf(e) = keys[e]
  /\ \A K \in SUBSET Components :
       Cardinality({e \in order \ DOMAIN old : KeyOf(e) = K}) =
       Cardinality(Spawns(commands, n, K))

\* A command that is legal where the ones before it should have left the
\* entities is legal on the entities there are, and does not fail.
LEMMA LegalSucceeds ==
  ASSUME IInv, NEW old, NEW keys, NEW commands, NEW n, NEW command \in Command,
         Applied(old, keys, commands, n), Legal(keys, command)
  PROVE  Legal(Keys, command) /\ Succeeds(command)
<1>1. /\ command.op \in {"spawn", "despawn", "add", "remove"}
      /\ command.op # "spawn" => command.entity \in Issued
  BY CommandFields
<1>2. DOMAIN Keys = order /\ \A e \in order : Keys[e] = KeyOf(e)
  BY DEF Keys
<1>3. DOMAIN keys \subseteq order /\ \A e \in DOMAIN keys : KeyOf(e) = keys[e]
  BY DEF Applied
<1>4. Legal(Keys, command)
  BY <1>2, <1>3 DEF Legal
<1>5. command.op # "spawn" => (Located(command.entity) <=> command.entity \in order)
  BY <1>1, LocatedIsLive
<1>6. Succeeds(command)
  BY <1>1, <1>2, <1>4, <1>5 DEF Succeeds, Legal
<1> QED
  BY <1>4, <1>6

\* Counting the spawns with one more command.
LEMMA SpawnsGrow ==
  ASSUME NEW commands, NEW n \in Nat, NEW K
  PROVE  /\ IsFiniteSet(Spawns(commands, n, K))
         /\ Cardinality(Spawns(commands, n + 1, K)) =
              IF commands[n + 1].op = "spawn" /\ commands[n + 1].components = K
                THEN Cardinality(Spawns(commands, n, K)) + 1
                ELSE Cardinality(Spawns(commands, n, K))
<1>1. IsFiniteSet(Spawns(commands, n, K))
  <2>1. IsFiniteSet(1 .. n)
    BY FS_Interval
  <2>2. Spawns(commands, n, K) \in SUBSET (1 .. n)
    BY DEF Spawns
  <2> QED
    BY <2>1, <2>2, FS_Subset
<1>2. CASE commands[n + 1].op = "spawn" /\ commands[n + 1].components = K
  <2>1. Spawns(commands, n + 1, K) = Spawns(commands, n, K) \union {n + 1}
    BY <1>2 DEF Spawns
  <2>2. n + 1 \notin Spawns(commands, n, K)
    BY DEF Spawns
  <2> QED
    BY <1>1, <1>2, <2>1, <2>2, FS_AddElement
<1>3. CASE ~(commands[n + 1].op = "spawn" /\ commands[n + 1].components = K)
  <2>1. Spawns(commands, n + 1, K) = Spawns(commands, n, K)
    BY <1>3 DEF Spawns
  <2> QED
    BY <1>1, <1>3, <2>1
<1> QED
  BY <1>1, <1>2, <1>3

\* Performing a legal command makes of the entities what it means.
LEMMA AppliedStep ==
  ASSUME IInv, IInv', GenerationBound, NEW old, DOMAIN old \subseteq Issued, NEW keys,
         NEW commands, NEW n \in Nat, NEW command \in Command,
         command = commands[n + 1], Legal(keys, command), Perform(command),
         Applied(old, keys, commands, n)
  PROVE  Applied(old, Meaning(keys, command), commands, n + 1)'
<1>1. Legal(Keys, command)
  BY LegalSucceeds
<1>2. /\ order \cap DOMAIN old = DOMAIN keys
      /\ \A e \in DOMAIN keys : KeyOf(e) = keys[e]
      /\ \A K \in SUBSET Components :
           Cardinality({e \in order \ DOMAIN old : KeyOf(e) = K}) =
           Cardinality(Spawns(commands, n, K))
  BY DEF Applied
<1>3. command.op \in {"spawn", "despawn", "add", "remove"}
  BY CommandFields
<1> SUFFICES
      /\ order' \cap DOMAIN old = DOMAIN Meaning(keys, command)
      /\ \A e \in DOMAIN Meaning(keys, command) : KeyOf(e)' = Meaning(keys, command)[e]
      /\ \A K \in SUBSET Components :
           Cardinality({e \in order' \ DOMAIN old : KeyOf(e)' = K}) =
           Cardinality(Spawns(commands, n + 1, K))
  BY DEF Applied
<1>4. CASE command.op = "spawn"
  <2>1. PICK d : /\ d \notin Issued /\ d \notin order /\ order' = order \union {d}
                 /\ KeyOf(d)' = command.components
                 /\ \A e \in order : KeyOf(e)' = KeyOf(e)
    BY <1>1, <1>4, SpawnKeys
  <2>2. Meaning(keys, command) = keys
    BY <1>4 DEF Meaning
  <2>3. order' \cap DOMAIN old = DOMAIN keys
    BY <1>2, <2>1
  <2>4. \A e \in DOMAIN keys : KeyOf(e)' = keys[e]
    BY <1>2, <2>1
  <2>5. ASSUME NEW K \in SUBSET Components
        PROVE  Cardinality({e \in order' \ DOMAIN old : KeyOf(e)' = K}) =
               Cardinality(Spawns(commands, n + 1, K))
    <3>1. PICK new, new1 : /\ new = {e \in order \ DOMAIN old : KeyOf(e) = K}
                           /\ new1 = {e \in order' \ DOMAIN old : KeyOf(e)' = K}
      OBVIOUS
    <3>2. new1 = IF command.components = K THEN new \union {d} ELSE new
      BY <2>1, <3>1
    <3>3. IsFiniteSet(new) /\ d \notin new
      <4>1. IsFiniteSet(order)
        BY FiniteOrder DEF IInv
      <4>2. new \in SUBSET order
        BY <3>1
      <4> QED
        BY <2>1, <4>1, <4>2, FS_Subset
    <3>4. Cardinality(new) = Cardinality(Spawns(commands, n, K))
      BY <1>2, <3>1
    <3>5. Cardinality(new1) = IF command.components = K THEN Cardinality(new) + 1
                                                        ELSE Cardinality(new)
      BY <3>2, <3>3, FS_AddElement
    <3>6. Cardinality(Spawns(commands, n + 1, K)) =
            IF command.components = K THEN Cardinality(Spawns(commands, n, K)) + 1
                                      ELSE Cardinality(Spawns(commands, n, K))
      BY <1>4, SpawnsGrow
    <3> QED
      BY <3>1, <3>4, <3>5, <3>6
  <2> QED
    BY <2>2, <2>3, <2>4, <2>5
<1>5. CASE command.op # "spawn"
  <2>1. PICK x : x = command.entity
    OBVIOUS
  <2>2. /\ x \in order
        /\ order' = IF command.op = "despawn" THEN order \ {x} ELSE order
        /\ \A d \in order : d # x => KeyOf(d)' = KeyOf(d)
        /\ command.op \in {"add", "remove"} => KeyOf(x)' = Changed(KeyOf(x), command)
    BY <1>1, <1>5, <2>1, OtherKeys
  <2>3. x \in DOMAIN keys /\ x \in DOMAIN old
    BY <1>2, <1>3, <1>5, <2>1 DEF Legal
  <2>4. /\ order' \cap DOMAIN old = DOMAIN Meaning(keys, command)
        /\ \A e \in DOMAIN Meaning(keys, command) : KeyOf(e)' = Meaning(keys, command)[e]
    <3>1. CASE command.op = "despawn"
      <4>1. Meaning(keys, command) = [e \in DOMAIN keys \ {x} |-> keys[e]]
        BY <2>1, <3>1 DEF Meaning
      <4> QED
        BY <1>2, <2>2, <3>1, <4>1
    <3>2. CASE command.op # "despawn"
      <4>1. Meaning(keys, command) = [keys EXCEPT ![x] = Changed(keys[x], command)]
        BY <1>3, <1>5, <2>1, <3>2 DEF Meaning, Changed
      <4>2. KeyOf(x)' = Changed(keys[x], command)
        BY <1>2, <1>3, <1>5, <2>2, <2>3, <3>2
      <4>3. DOMAIN Meaning(keys, command) = DOMAIN keys
        BY <4>1
      <4>4. order' \cap DOMAIN old = DOMAIN keys
        BY <1>2, <2>2, <3>2
      <4>5. ASSUME NEW e \in DOMAIN keys PROVE KeyOf(e)' = Meaning(keys, command)[e]
        BY <1>2, <2>2, <4>1, <4>2
      <4> QED
        BY <4>3, <4>4, <4>5
    <3> QED
      BY <3>1, <3>2
  <2>5. ASSUME NEW K \in SUBSET Components
        PROVE  Cardinality({e \in order' \ DOMAIN old : KeyOf(e)' = K}) =
               Cardinality(Spawns(commands, n + 1, K))
    <3>1. {e \in order' \ DOMAIN old : KeyOf(e)' = K} =
          {e \in order \ DOMAIN old : KeyOf(e) = K}
      <4>1. order' \ DOMAIN old = order \ DOMAIN old
        BY <2>2, <2>3
      <4>2. \A e \in order \ DOMAIN old : KeyOf(e)' = KeyOf(e)
        BY <2>2, <2>3
      <4> QED
        BY <4>1, <4>2
    <3>2. Cardinality(Spawns(commands, n + 1, K)) = Cardinality(Spawns(commands, n, K))
      BY <1>5, SpawnsGrow
    <3> QED
      BY <1>2, <3>1, <3>2
  <2> QED
    BY <2>4, <2>5
<1> QED
  BY <1>4, <1>5

-----------------------------------------------------------------------------
(* EcsBarrier: the inductive invariant.                                    *)

\* The buffer holds commands on handles that were issued, and what the loop has
\* still to apply is the rest of what it drained.
BufferInv ==
  /\ staged \in Seq(Command) /\ Len(staged) <= MaxStaged
  /\ batch \in Seq(Command) /\ pending \in Seq(Command)
  /\ Len(pending) <= Len(batch)
  /\ \A k \in 1 .. Len(pending) : pending[k] = batch[Len(batch) - Len(pending) + k]
  /\ outcome \in {"none", "ok", "rejected"}
  /\ ~Idle => staged = <<>> /\ outcome = "none"

\* In the loop, and when it has ended with Ok: every command drained is legal
\* where the ones before it leave the entities, and the ones already taken have
\* done what they mean.
LoopInv ==
  ~Idle \/ outcome = "ok" =>
    /\ DOMAIN before \subseteq Issued
    /\ \A k \in 1 .. Len(batch) : Legal(Meant(before, batch)[k - 1], batch[k])
    /\ Applied(before, Meant(before, batch)[Len(batch) - Len(pending)], batch,
               Len(batch) - Len(pending))

RejectedInv == outcome = "rejected" => Keys = before /\ staged = batch

BarrierInv == IInv /\ GenerationBound /\ BufferInv /\ LoopInv /\ RejectedInv

\* The world of a barrier step is a step of the world or stands still, so that
\* its own invariant and the handles issued are kept.
LEMMA WorldKept ==
  ASSUME IInv, GenerationBound, [WorldNext]_worldVars
  PROVE  IInv' /\ GenerationBound' /\ Issued \subseteq Issued' /\ Command \subseteq Command'
<1>1. IInv'
  BY NextIInv
<1>2. GenerationBound'
  BY BoundKept
<1>3. Issued \subseteq Issued'
  BY <1>1, WorldIssues
<1> QED
  BY <1>1, <1>2, <1>3, CommandsStay

\* Sequences of commands stay sequences of commands.
LEMMA BuffersStay ==
  ASSUME Command \subseteq Command'
  PROVE  Seq(Command) \subseteq Seq(Command')
<1> SUFFICES ASSUME NEW s \in Seq(Command) PROVE s \in Seq(Command')
  OBVIOUS
<1>1. \A k \in 1 .. Len(s) : s[k] \in Command
  BY ElementOfSeq
<1> QED
  BY <1>1

\* A direct call clears what is remembered of the last barrier (World's own methods).
LEMMA DirectKeeps == BarrierInv /\ Direct => BarrierInv'
<1> SUFFICES ASSUME BarrierInv, Direct PROVE BarrierInv'
  OBVIOUS
<1>1. /\ IInv' /\ GenerationBound' /\ Command \subseteq Command'
      /\ Seq(Command) \subseteq Seq(Command')
  BY WorldKept, BuffersStay DEF BarrierInv, Direct
<1>2. /\ pending = <<>> /\ pending' = <<>> /\ staged' = staged
      /\ batch' = <<>> /\ outcome' = "none"
  BY DEF Direct, Idle, ClearOutcome
<1>3. BufferInv'
  BY <1>1, <1>2 DEF BarrierInv, BufferInv, Idle
<1>4. LoopInv' /\ RejectedInv'
  BY <1>2 DEF LoopInv, RejectedInv, Idle
<1> QED
  BY <1>1, <1>3, <1>4 DEF BarrierInv

\* Staging a command leaves the world alone (World::stage_spawn and its like).
LEMMA StageKeeps ==
  ASSUME BarrierInv, NEW command \in Command, Stage(command)
  PROVE  BarrierInv'
<1>1. IInv' /\ GenerationBound' /\ Command = Command'
  <2>1. UNCHANGED worldVars
    BY DEF Stage
  <2>2. IInv' /\ GenerationBound'
    BY <2>1, WorldKept DEF BarrierInv
  <2>3. Command' = Command
    BY <2>1 DEF worldVars, Command, Issued
  <2> QED
    BY <2>2, <2>3
<1>2. /\ pending = <<>> /\ pending' = <<>> /\ Len(staged) < MaxStaged
      /\ staged' = Append(staged, command) /\ batch' = <<>> /\ outcome' = "none"
  BY DEF Stage, Idle, ClearOutcome
<1>3. staged \in Seq(Command)
  BY DEF BarrierInv, BufferInv
<1>4. staged' \in Seq(Command) /\ Len(staged') = Len(staged) + 1
  BY <1>2, <1>3, AppendProperties
<1>5. Len(staged) \in Nat /\ MaxStaged \in Nat
  BY <1>3, BarrierAssumption, LenProperties
<1>6. BufferInv'
  BY <1>1, <1>2, <1>4, <1>5 DEF BufferInv, Idle
<1>7. LoopInv' /\ RejectedInv'
  BY <1>2 DEF LoopInv, RejectedInv, Idle
<1> QED
  BY <1>1, <1>6, <1>7 DEF BarrierInv

\* A buffer that is refused stays as it was, a valid one is drained and all its
\* commands are legal (World::apply_staged before its loop).
LEMMA EnterKeeps == BarrierInv /\ EnterBarrier => BarrierInv'
<1> SUFFICES ASSUME BarrierInv, EnterBarrier PROVE BarrierInv'
  OBVIOUS
<1>1. /\ IInv' /\ GenerationBound' /\ Command' = Command
      /\ Issued' = Issued /\ order' = order /\ \A e : KeyOf(e)' = KeyOf(e)
  <2>1. UNCHANGED worldVars
    BY DEF EnterBarrier
  <2>2. IInv' /\ GenerationBound'
    BY <2>1, WorldKept DEF BarrierInv
  <2>3. Command' = Command /\ Issued' = Issued
    BY <2>1 DEF worldVars, Command, Issued
  <2>4. order' = order /\ \A e : KeyOf(e)' = KeyOf(e)
    BY <2>1 DEF worldVars, KeyOf
  <2> QED
    BY <2>2, <2>3, <2>4
<1>2. /\ staged \in Seq(Command) /\ Len(staged) <= MaxStaged /\ Len(staged) \in Nat
      /\ pending = <<>> /\ staged # <<>> /\ batch' = staged /\ before' = Keys
  BY LenProperties DEF BarrierInv, BufferInv, EnterBarrier, Idle
<1>3. CASE BarrierValid(staged)
  <2>1. pending' = staged /\ staged' = <<>> /\ outcome' = "none"
    BY <1>3 DEF EnterBarrier
  <2>2. BufferInv'
    BY <1>1, <1>2, <2>1, BarrierAssumption DEF BufferInv
  <2>3. RejectedInv'
    BY <2>1 DEF RejectedInv
  <2>4. PICK keys : keys = Meant(Keys, staged)
    OBVIOUS
  <2>5. \A k \in 1 .. Len(staged) : Legal(keys[k - 1], staged[k])
    BY <1>2, <1>3, <2>4, ValidIsLegal DEF BarrierInv
  <2>6. keys[0] = Keys
    BY <1>2, <2>4, MeantIs
  <2>7. DOMAIN Keys = order /\ order \subseteq Issued
    BY LiveIsIssued DEF BarrierInv, IInv, Keys
  <2>8. PICK old : old = Keys
    OBVIOUS
  <2>9. Applied(old, old, staged, 0)
    <3>1. \A K : {e \in order \ DOMAIN old : KeyOf(e) = K} = {} /\ Spawns(staged, 0, K) = {}
      BY <2>7, <2>8 DEF Spawns
    <3>2. \A e \in order : KeyOf(e) = old[e]
      BY <2>8 DEF Keys
    <3> QED
      BY <2>7, <2>8, <3>1, <3>2 DEF Applied
  <2>10. PICK commands : commands = staged
    OBVIOUS
  <2>11. Applied(old, old, commands, 0)'
    BY <1>1, <2>9, <2>10 DEF Applied
  <2>12. before' = old /\ batch' = commands /\ pending' = commands
    BY <1>2, <2>1, <2>8, <2>10
  <2>13. Len(commands) - Len(commands) = 0 /\ keys = Meant(old, commands)
    BY <1>2, <2>4, <2>8, <2>10
  <2>14. LoopInv'
    <3>1. DOMAIN old \subseteq Issued'
      BY <1>1, <2>7, <2>8
    <3>2. \A k \in 1 .. Len(commands) : Legal(keys[k - 1], commands[k])
      BY <2>5, <2>10
    <3>3. Applied(old, keys[0], commands, 0)'
      BY <2>6, <2>8, <2>11
    <3> QED
      BY <2>12, <2>13, <3>1, <3>2, <3>3 DEF LoopInv
  <2> QED
    BY <1>1, <2>2, <2>3, <2>14 DEF BarrierInv
<1>4. CASE ~BarrierValid(staged)
  <2>1. pending' = <<>> /\ staged' = staged /\ outcome' = "rejected"
    BY <1>2, <1>4 DEF EnterBarrier
  <2>2. BufferInv'
    BY <1>1, <1>2, <2>1 DEF BufferInv, Idle
  <2>3. LoopInv'
    BY <2>1 DEF LoopInv, Idle
  <2>4. Keys' = Keys
    BY <1>1 DEF Keys
  <2>5. RejectedInv'
    BY <1>2, <2>1, <2>4 DEF RejectedInv
  <2> QED
    BY <1>1, <2>2, <2>3, <2>5 DEF BarrierInv
<1> QED
  BY <1>3, <1>4

\* The next command of the loop succeeds and does what it means
\* (World::apply_staged's loop).
LEMMA ApplyKeeps == BarrierInv /\ ApplyCommand => BarrierInv'
<1> SUFFICES ASSUME BarrierInv, ApplyCommand PROVE BarrierInv'
  OBVIOUS
<1>1. /\ IInv /\ GenerationBound /\ BufferInv /\ LoopInv
      /\ batch \in Seq(Command) /\ pending \in Seq(Command) /\ pending # <<>>
      /\ staged = <<>> /\ outcome = "none"
  BY DEF BarrierInv, BufferInv, ApplyCommand, Idle
<1>2. PICK commands, old, keys, len, left, n, command :
        /\ commands = batch /\ old = before /\ keys = Meant(before, batch)
        /\ len = Len(batch) /\ left = Len(pending) /\ n = len - left
        /\ command = Head(pending)
  OBVIOUS
<1>3. /\ len \in Nat /\ left \in Nat /\ left >= 1 /\ n \in Nat /\ n + 1 \in 1 .. len
      /\ command \in Command /\ command = commands[n + 1]
      /\ Tail(pending) \in Seq(Command) /\ Len(Tail(pending)) = left - 1
      /\ \A k \in 1 .. left - 1 : Tail(pending)[k] = pending[k + 1]
  <2>1. len \in Nat /\ left \in Nat /\ left # 0
    BY <1>1, <1>2, LenProperties, EmptySeq
  <2>2. left <= len
    BY <1>1, <1>2 DEF BufferInv
  <2>3. pending[1] = commands[n + 1]
    BY <1>1, <1>2, <2>1 DEF BufferInv
  <2>4. command = pending[1] /\ command \in Command
    <3>1. 1 \in 1 .. Len(pending)
      BY <1>2, <2>1
    <3> QED
      BY <1>1, <1>2, <3>1, HeadTailProperties, ElementOfSeq
  <2>5. /\ Tail(pending) \in Seq(Command) /\ Len(Tail(pending)) = left - 1
        /\ \A k \in 1 .. left - 1 : Tail(pending)[k] = pending[k + 1]
    BY <1>1, <1>2, HeadTailProperties
  <2>6. n \in Nat /\ n + 1 \in 1 .. len /\ left >= 1
    BY <1>2, <2>1, <2>2
  <2> QED
    BY <2>1, <2>3, <2>4, <2>5, <2>6
<1>4. /\ DOMAIN old \subseteq Issued
      /\ \A k \in 1 .. len : Legal(keys[k - 1], commands[k])
      /\ Applied(old, keys[n], commands, n)
  BY <1>1, <1>2 DEF LoopInv, Idle
<1>5. Legal(keys[n], command)
  <2>1. (n + 1) - 1 = n
    BY <1>3
  <2> QED
    BY <1>3, <1>4, <2>1
<1>6. Legal(Keys, command) /\ Succeeds(command)
  BY <1>1, <1>3, <1>4, <1>5, LegalSucceeds
<1>7. /\ Perform(command) /\ pending' = Tail(pending)
      /\ outcome' = IF left = 1 THEN "ok" ELSE "none"
      /\ staged' = <<>> /\ before' = old /\ batch' = commands
  BY <1>1, <1>2, <1>6 DEF ApplyCommand
<1>8. /\ IInv' /\ GenerationBound' /\ Issued \subseteq Issued'
      /\ Command \subseteq Command' /\ Seq(Command) \subseteq Seq(Command')
  <2>1. WorldNext
    BY <1>3, <1>6, <1>7, PerformIsNext
  <2> QED
    BY <1>1, <2>1, WorldKept, BuffersStay
<1>9. Applied(old, Meaning(keys[n], command), commands, n + 1)'
  BY <1>1, <1>3, <1>4, <1>5, <1>7, <1>8, AppliedStep
<1>10. keys[n + 1] = Meaning(keys[n], command)
  <2>1. n + 1 \in 0 .. len /\ n + 1 # 0 /\ (n + 1) - 1 = n
    BY <1>3
  <2> QED
    BY <1>2, <1>3, <2>1, MeantIs
<1>11. len - (left - 1) = n + 1
  BY <1>2, <1>3
<1>12. PICK rest : rest = Tail(pending)
  OBVIOUS
<1>13. /\ rest \in Seq(Command') /\ Len(rest) = left - 1
       /\ batch' \in Seq(Command')
       /\ \A k \in 1 .. left - 1 : rest[k] = commands[(n + 1) + k]
  <2>1. ASSUME NEW k \in 1 .. left - 1 PROVE rest[k] = commands[(n + 1) + k]
    <3>1. k + 1 \in 1 .. left /\ n + (k + 1) = (n + 1) + k
      BY <1>3
    <3>2. pending[k + 1] = commands[n + (k + 1)]
      BY <1>1, <1>2, <3>1 DEF BufferInv
    <3> QED
      BY <1>3, <1>12, <3>1, <3>2
  <2> QED
    BY <1>1, <1>2, <1>3, <1>7, <1>8, <1>12, <2>1
<1>14. outcome' = "none" \/ rest = <<>>
  BY <1>3, <1>7, <1>13, EmptySeq
<1>15. BufferInv'
  <2>1. left - 1 <= len /\ 0 <= MaxStaged
    BY <1>2, <1>3, BarrierAssumption
  <2>2. Len(pending') = left - 1 /\ Len(batch') = len /\ pending' = rest
    BY <1>2, <1>7, <1>12, <1>13
  <2>3. \A k \in 1 .. Len(pending') : pending'[k] = batch'[Len(batch') - Len(pending') + k]
    BY <1>7, <1>11, <1>13, <2>2
  <2>4. staged' \in Seq(Command') /\ Len(staged') <= MaxStaged
    BY <1>7, <2>1
  <2>5. outcome' \in {"none", "ok"} /\ (outcome' = "none" \/ pending' = <<>>)
    BY <1>7, <1>14, <2>2
  <2> QED
    BY <1>7, <1>13, <2>1, <2>2, <2>3, <2>4, <2>5 DEF BufferInv, Idle
<1>16. LoopInv'
  <2>1. DOMAIN before' \subseteq Issued'
    BY <1>4, <1>7, <1>8
  <2>2. Meant(before', batch') = keys /\ Len(batch') = len /\ Len(pending') = left - 1
    BY <1>2, <1>7, <1>12, <1>13
  <2>3. Applied(old, keys[n + 1], commands, n + 1)'
    BY <1>9, <1>10
  <2> QED
    BY <1>4, <1>7, <1>11, <2>1, <2>2, <2>3 DEF LoopInv
<1>17. RejectedInv'
  BY <1>7 DEF RejectedInv
<1> QED
  BY <1>8, <1>15, <1>16, <1>17 DEF BarrierInv

\* The invariant holds before anything is staged (World::new).
LEMMA BarrierStarts == BarrierInit => BarrierInv
<1> SUFFICES ASSUME BarrierInit PROVE BarrierInv
  OBVIOUS
<1>1. IInv /\ GenerationBound
  BY InitIInv, InitImplements DEF BarrierInit
<1>2. BufferInv
  BY BarrierAssumption DEF BarrierInit, BufferInv, Idle
<1>3. LoopInv /\ RejectedInv
  BY DEF BarrierInit, LoopInv, RejectedInv, Idle
<1> QED
  BY <1>1, <1>2, <1>3 DEF BarrierInv

\* Every step of the world and its buffer keeps the invariant.
LEMMA BarrierStep == BarrierInv /\ [BarrierNext]_allBarrierVars => BarrierInv'
<1> SUFFICES ASSUME BarrierInv, [BarrierNext]_allBarrierVars PROVE BarrierInv'
  OBVIOUS
<1>1. CASE Direct
  BY <1>1, DirectKeeps
<1>2. ASSUME NEW command \in Command, Stage(command) PROVE BarrierInv'
  BY <1>2, StageKeeps
<1>3. CASE EnterBarrier
  BY <1>3, EnterKeeps
<1>4. CASE ApplyCommand
  BY <1>4, ApplyKeeps
<1>5. CASE UNCHANGED allBarrierVars
  <2>1. UNCHANGED worldVars /\ UNCHANGED barrierVars
    BY <1>5 DEF allBarrierVars
  <2>2. /\ staged' = staged /\ pending' = pending /\ before' = before
        /\ batch' = batch /\ outcome' = outcome
    BY <2>1 DEF barrierVars
  <2>3. IInv' /\ GenerationBound'
    BY <2>1, WorldKept DEF BarrierInv
  <2>4. /\ Command' = Command /\ Issued' = Issued /\ order' = order
        /\ \A e : KeyOf(e)' = KeyOf(e)
    BY <2>1 DEF worldVars, Command, Issued, KeyOf
  <2>5. BufferInv'
    BY <2>2, <2>4 DEF BarrierInv, BufferInv, Idle
  <2>6. LoopInv'
    BY <2>2, <2>4 DEF BarrierInv, LoopInv, Idle, Applied
  <2>7. RejectedInv'
    BY <2>2, <2>4 DEF BarrierInv, RejectedInv, Keys
  <2> QED
    BY <2>3, <2>5, <2>6, <2>7 DEF BarrierInv
<1> QED
  BY <1>1, <1>2, <1>3, <1>4, <1>5 DEF BarrierNext

\* The inductive invariant of the barrier holds throughout.
THEOREM BarrierInvariant == BarrierSpec => []BarrierInv
<1>1. BarrierInit => BarrierInv
  BY BarrierStarts
<1>2. BarrierInv /\ [BarrierNext]_allBarrierVars => BarrierInv'
  BY BarrierStep
<1> QED
  BY <1>1, <1>2, PTL DEF BarrierSpec

\* The buffer is a bounded sequence of commands, and what is pending is the
\* rest of the batch (World::apply_staged).
THEOREM BarrierTypesCorrect == BarrierSpec => []BarrierTypeOK
<1>1. BarrierInv => BarrierTypeOK
  <2> SUFFICES ASSUME BarrierInv PROVE BarrierTypeOK
    OBVIOUS
  <2>1. TypeOK
    BY IInvGives DEF BarrierInv
  <2>2. BufferInv
    BY DEF BarrierInv
  <2>3. pending = SubSeq(batch, Len(batch) - Len(pending) + 1, Len(batch))
    <3>1. PICK len, left, rest : /\ len = Len(batch) /\ left = Len(pending)
                                 /\ rest = SubSeq(batch, len - left + 1, len)
      OBVIOUS
    <3>2. /\ len \in Nat /\ left \in Nat /\ left <= len
          /\ batch \in Seq(Command) /\ pending \in Seq(Command)
          /\ \A k \in 1 .. left : pending[k] = batch[len - left + k]
      BY <2>2, <3>1, LenProperties DEF BufferInv
    <3>3. \A k \in (len - left + 1) .. len : batch[k] \in Command
      BY <3>1, <3>2, ElementOfSeq
    <3>4. /\ rest \in Seq(Command)
          /\ Len(rest) = IF len - left + 1 <= len THEN len - (len - left + 1) + 1 ELSE 0
          /\ \A k \in 1 .. len - (len - left + 1) + 1 :
               rest[k] = batch[(len - left + 1) + k - 1]
      BY <3>1, <3>2, <3>3, SubSeqProperties
    <3>5. Len(rest) = left /\ \A k \in 1 .. left : rest[k] = batch[len - left + k]
      BY <3>2, <3>4
    <3> QED
      BY <3>1, <3>2, <3>4, <3>5, SeqEqual
  <2> QED
    BY <2>1, <2>2, <2>3 DEF BarrierTypeOK, BufferInv
<1> QED
  BY <1>1, BarrierInvariant, PTL

\* apply_staged is all or nothing: it never stops half way, refuses without a
\* change, and after Ok every command of the batch has had its effect
\* (World::apply_staged).
THEOREM BarrierCorrect == BarrierSpec => []AllOrNothing
<1>1. BarrierInv => AllOrNothing
  <2> SUFFICES ASSUME BarrierInv PROVE AllOrNothing
    OBVIOUS
  <2>1. outcome # "failed"
    BY DEF BarrierInv, BufferInv
  <2>2. outcome = "rejected" => Keys = before /\ staged = batch
    BY DEF BarrierInv, RejectedInv
  <2>3. ASSUME outcome = "ok"
        PROVE  Applied(before, Meant(before, batch)[Len(batch)], batch, Len(batch))
    <3>1. pending = <<>> /\ batch \in Seq(Command)
      BY <2>3 DEF BarrierInv, BufferInv, Idle
    <3>2. Len(batch) - Len(pending) = Len(batch)
      <4>1. Len(batch) \in Nat /\ Len(pending) = 0
        BY <3>1, LenProperties
      <4> QED
        BY <4>1
    <3> QED
      BY <2>3, <3>2 DEF BarrierInv, LoopInv
  <2> QED
    BY <2>1, <2>2, <2>3 DEF AllOrNothing, Applied, Spawns
<1> QED
  BY <1>1, BarrierInvariant, PTL
=============================================================================
