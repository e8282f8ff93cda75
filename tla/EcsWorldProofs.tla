--------------------------- MODULE EcsWorldProofs ---------------------------
(***************************************************************************)
(* The storage core of gummy_ecs keeps its indexes exact for any number of *)
(* components, tags, values and slots.  The proof is by the conjunction    *)
(* IInv of the invariants of EcsWorld: none of them is inductive alone     *)
(* (a row is removed where the location index says it is, the location     *)
(* index is repaired from the row that moved, and the row pushed for a new *)
(* entity is a new one because the allocator hands out a dead slot).       *)
(* The last part shows that World implements EcsStore: what a method does  *)
(* to the abstract store is stated as a lemma of its own (SpawnEffect,     *)
(* MoveEffect ...), which the proofs of the journal and the queries use.   *)
(*                                                                         *)
(* The first part says what the helpers of EcsWorld do to the storage: a   *)
(* lemma per helper, about sequences of archetypes and location indexes    *)
(* and no action.  The hypotheses a lemma takes from a step are one        *)
(* predicate (Replaced, RowRemoved, RowPushed ...), so that a step cites   *)
(* the lemma by stating that predicate.                                    *)
(***************************************************************************)
EXTENDS EcsWorld, SequenceTheorems, FiniteSetTheorems, TLAPS

Location == [arch : Nat, row : Nat, generation : Nat]

\* A well-formed archetype: typed, with aligned columns.
GoodArchetype(a) == a \in ArchetypeType /\ Aligned(a)

Archetypes(archs) ==
  /\ archs \in Seq(ArchetypeType)
  /\ \A a \in 1 .. Len(archs) : Aligned(archs[a])

\* No slot is shared by two live entities.
OnePerSlot(live) == \A d, e \in live : d.index = e.index => d = e

-----------------------------------------------------------------------------
(* Vec::swap_remove.                                                       *)

\* What SwapRemove returns (Archetype::remove_row_swap_remove).
LEMMA SwapRemoveIs ==
  ASSUME NEW S, NEW s \in Seq(S), NEW row \in Nat
  PROVE  /\ SwapRemove(s, row) \in Seq(S)
         /\ Len(s) > 0 => Len(SwapRemove(s, row)) = Len(s) - 1
         /\ \A i \in 1 .. (Len(s) - 1) :
              SwapRemove(s, row)[i] = IF i = row THEN s[Len(s)] ELSE s[i]
<1> DEFINE r == SwapRemove(s, row)
           n == IF Len(s) = 0 THEN 0 ELSE Len(s) - 1
<1>1. n \in Nat /\ 1 .. n = 1 .. (Len(s) - 1) /\ (Len(s) > 0 => n = Len(s) - 1)
  OBVIOUS
<1>2. r = [i \in 1 .. n |-> IF i = row THEN s[Len(s)] ELSE s[i]]
  BY <1>1 DEF SwapRemove
<1>3. \A i \in 1 .. n : (IF i = row THEN s[Len(s)] ELSE s[i]) \in S
  OBVIOUS
<1>4. r \in Seq(S) /\ Len(r) = n
  BY <1>1, <1>2, <1>3
<1> QED
  BY <1>1, <1>2, <1>4

\* The indexes of a sequence with one more element.
LEMMA IndexLast ==
  ASSUME NEW n \in Nat, NEW m, m = n + 1
  PROVE  /\ n <= m
         /\ n + 1 \in 1 .. m
         /\ \A i \in 1 .. n : i \in 1 .. m
         /\ \A i \in 1 .. m : i \in 1 .. n \/ i = n + 1
         /\ \A i \in 1 .. m : i > n => i = n + 1
         /\ \A i \in 1 .. n : ~(i > n)
         /\ n <= n
         /\ n + 1 \notin 1 .. n
  OBVIOUS

\* Append, element by element.
LEMMA AppendIs ==
  ASSUME NEW S, NEW s \in Seq(S), NEW e \in S
  PROVE  /\ Append(s, e) \in Seq(S)
         /\ Len(s) \in Nat
         /\ Len(Append(s, e)) = Len(s) + 1
         /\ \A i \in 1 .. Len(s) : Append(s, e)[i] = s[i]
         /\ Append(s, e)[Len(s) + 1] = e
  OBVIOUS

-----------------------------------------------------------------------------
(* Rows pushed to and removed from one archetype.                          *)

\* A fresh archetype is well formed and has no row (Archetype::new).
LEMMA NewArchetypeGood ==
  ASSUME NEW key \in SUBSET Components
  PROVE  /\ GoodArchetype(NewArchetype(key))
         /\ NewArchetype(key).key = key
         /\ NewArchetype(key).entities = <<>>
         /\ NewArchetype(key).add = NoEdges
         /\ NewArchetype(key).remove = NoEdges
<1>1. NewArchetype(key) \in ArchetypeType
  BY DEF NewArchetype, ArchetypeType, NoEdges
<1>2. Aligned(NewArchetype(key))
  BY DEF NewArchetype, Aligned
<1> QED
  BY <1>1, <1>2 DEF GoodArchetype, NewArchetype

\* Archetype::push_row keeps the columns aligned: it pushes one value to each
\* column of the key and the entity to the entity vector.
LEMMA PushRowGood ==
  ASSUME NEW a, GoodArchetype(a), NEW e \in Entity,
         NEW comps \in Component(a.key)
  PROVE  /\ GoodArchetype(PushRow(a, e, comps))
         /\ PushRow(a, e, comps).key = a.key
         /\ PushRow(a, e, comps).add = a.add
         /\ PushRow(a, e, comps).remove = a.remove
         /\ PushRow(a, e, comps).entities = Append(a.entities, e)
<1> DEFINE b == PushRow(a, e, comps)
           cols == [c \in Components |->
                      IF c \in a.key THEN Append(a.columns[c], comps[c])
                                     ELSE a.columns[c]]
<1>1. a \in ArchetypeType /\ Aligned(a)
  BY DEF GoodArchetype
<1>2. /\ a.key \in SUBSET Components /\ a.entities \in Seq(Entity)
      /\ a.columns \in [Components -> Seq(Values)]
      /\ a.add \in [Components -> Nat] /\ a.remove \in [Components -> Nat]
  BY <1>1 DEF ArchetypeType
<1>3. b = [key |-> a.key, entities |-> Append(a.entities, e), columns |-> cols,
           add |-> a.add, remove |-> a.remove]
  BY DEF PushRow
<1>4. \A c \in Components :
        /\ cols[c] \in Seq(Values)
        /\ Len(cols[c]) = IF c \in a.key THEN Len(a.columns[c]) + 1
                                         ELSE Len(a.columns[c])
  BY <1>2 DEF Component
<1>5. Append(a.entities, e) \in Seq(Entity)
      /\ Len(Append(a.entities, e)) = Len(a.entities) + 1
  BY <1>2
<1>6. b \in ArchetypeType
  BY <1>2, <1>3, <1>4, <1>5 DEF ArchetypeType
<1>7. Aligned(b)
  BY <1>1, <1>2, <1>3, <1>4, <1>5 DEF Aligned
<1> QED
  BY <1>3, <1>6, <1>7 DEF GoodArchetype

\* Archetype::remove_row_swap_remove swap-removes the same row of the entity
\* vector and of every column of the key.
LEMMA RemoveRowGood ==
  ASSUME NEW a, GoodArchetype(a), NEW row \in 1 .. Len(a.entities)
  PROVE  /\ GoodArchetype(RemoveRow(a, row))
         /\ RemoveRow(a, row).key = a.key
         /\ RemoveRow(a, row).add = a.add
         /\ RemoveRow(a, row).remove = a.remove
         /\ RemoveRow(a, row).entities = SwapRemove(a.entities, row)
<1> DEFINE b == RemoveRow(a, row)
           cols == [c \in Components |->
                      IF c \in a.key THEN SwapRemove(a.columns[c], row)
                                     ELSE a.columns[c]]
<1>1. a \in ArchetypeType /\ Aligned(a)
  BY DEF GoodArchetype
<1>2. /\ a.key \in SUBSET Components /\ a.entities \in Seq(Entity)
      /\ a.columns \in [Components -> Seq(Values)]
      /\ a.add \in [Components -> Nat] /\ a.remove \in [Components -> Nat]
      /\ row \in Nat /\ Len(a.entities) \in Nat /\ Len(a.entities) > 0
  BY <1>1 DEF ArchetypeType
<1>3. b = [key |-> a.key, entities |-> SwapRemove(a.entities, row),
           columns |-> cols, add |-> a.add, remove |-> a.remove]
  BY DEF RemoveRow
<1>4. ASSUME NEW c \in Components
      PROVE  /\ cols[c] \in Seq(Values)
             /\ Len(cols[c]) = IF c \in a.key THEN Len(a.entities) - 1 ELSE 0
  <2>1. CASE c \in a.key
    <3>1. /\ a.columns[c] \in Seq(Values) /\ Len(a.columns[c]) > 0
          /\ Len(a.columns[c]) = Len(a.entities)
      BY <1>1, <1>2, <2>1 DEF Aligned
    <3>2. cols[c] = SwapRemove(a.columns[c], row)
      BY <2>1
    <3>3. /\ SwapRemove(a.columns[c], row) \in Seq(Values)
          /\ Len(SwapRemove(a.columns[c], row)) = Len(a.columns[c]) - 1
      BY <1>2, <3>1, SwapRemoveIs
    <3> HIDE DEF cols
    <3> QED
      BY <2>1, <3>1, <3>2, <3>3
  <2>2. CASE c \notin a.key
    BY <1>1, <1>2, <2>2 DEF Aligned
  <2> QED
    BY <2>1, <2>2
<1>5. /\ SwapRemove(a.entities, row) \in Seq(Entity)
      /\ Len(SwapRemove(a.entities, row)) = Len(a.entities) - 1
  BY <1>2, SwapRemoveIs
<1>6. b \in ArchetypeType
  BY <1>2, <1>3, <1>4, <1>5 DEF ArchetypeType
<1>7. Aligned(b)
  BY <1>3, <1>4, <1>5 DEF Aligned
<1> QED
  BY <1>3, <1>6, <1>7 DEF GoodArchetype

-----------------------------------------------------------------------------
(* The archetype vector.                                                   *)

\* Archetypes that are well formed, found by their keys and linked by exact
\* transitions.
Indexed(archs) == Archetypes(archs) /\ KeysUnique(archs) /\ EdgesExact(archs)

\* bs is archs with archetypes without rows behind it; only transitions may
\* differ in the archetypes of archs.
Extends(bs, archs) ==
  /\ Len(archs) <= Len(bs)
  /\ \A i \in 1 .. Len(archs) :
       /\ bs[i].key = archs[i].key
       /\ bs[i].entities = archs[i].entities
       /\ bs[i].columns = archs[i].columns
  /\ \A i \in 1 .. Len(bs) : i > Len(archs) => bs[i].entities = <<>>

\* Keys and transitions that do not change stay unique and exact.
LEMMA SameKeysAndEdges ==
  ASSUME NEW archs, NEW bs, Len(archs) \in Nat, Len(bs) = Len(archs),
         KeysUnique(archs), EdgesExact(archs),
         \A i \in 1 .. Len(archs) : /\ bs[i].key = archs[i].key
                                 /\ bs[i].add = archs[i].add
                                 /\ bs[i].remove = archs[i].remove
  PROVE  KeysUnique(bs) /\ EdgesExact(bs)
<1>1. KeysUnique(bs)
  BY DEF KeysUnique
<1>2. ASSUME NEW i \in 1 .. Len(bs), NEW c \in Components
      PROVE  EdgeExact(bs, i, c)
  <2>1. EdgeExact(archs, i, c)
    BY DEF EdgesExact
  <2>2. /\ bs[i].key = archs[i].key
        /\ bs[i].add[c] = archs[i].add[c]
        /\ bs[i].remove[c] = archs[i].remove[c]
    OBVIOUS
  <2>3. ASSUME NEW n, n \in 1 .. Len(archs)
        PROVE  bs[n].key = archs[n].key
    BY <2>3
  <2> QED
    BY <2>1, <2>2, <2>3 DEF EdgeExact
<1> QED
  BY <1>1, <1>2 DEF EdgesExact

\* bs is archs with archetype a replaced by b, which has its key and edges.
Replaced(bs, archs, a, b) ==
  /\ Indexed(archs)
  /\ a \in 1 .. Len(archs)
  /\ GoodArchetype(b)
  /\ b.key = archs[a].key
  /\ b.add = archs[a].add
  /\ b.remove = archs[a].remove
  /\ bs = [archs EXCEPT ![a] = b]

\* What push_row, remove_row and set_field do to the vector keeps it indexed.
LEMMA ReplaceArchetype ==
  ASSUME NEW archs, NEW a, NEW b, NEW bs, Replaced(bs, archs, a, b)
  PROVE  /\ Indexed(bs)
         /\ Len(archs) \in Nat
         /\ Len(bs) = Len(archs)
         /\ \A i \in 1 .. Len(archs) : bs[i] = IF i = a THEN b ELSE archs[i]
<1> USE DEF Replaced
<1>1. archs \in Seq(ArchetypeType) /\ \A i \in 1 .. Len(archs) : Aligned(archs[i])
  BY DEF Indexed, Archetypes
<1>2. b \in ArchetypeType /\ Aligned(b)
  BY DEF GoodArchetype
<1>3. /\ bs \in Seq(ArchetypeType)
      /\ Len(archs) \in Nat
      /\ Len(bs) = Len(archs)
      /\ \A i \in 1 .. Len(archs) : bs[i] = IF i = a THEN b ELSE archs[i]
  <2>1. /\ [archs EXCEPT ![a] = b] \in Seq(ArchetypeType)
        /\ Len([archs EXCEPT ![a] = b]) = Len(archs)
        /\ \A i \in 1 .. Len(archs) :
             [archs EXCEPT ![a] = b][i] = IF i = a THEN b ELSE archs[i]
    BY <1>1, <1>2, ExceptSeq
  <2>2. Len(archs) \in Nat
    BY <1>1, LenProperties
  <2> QED
    BY <2>1, <2>2
<1>4. Archetypes(bs)
  BY <1>1, <1>2, <1>3 DEF Archetypes
<1>5. \A i \in 1 .. Len(archs) : /\ bs[i].key = archs[i].key
                              /\ bs[i].add = archs[i].add
                              /\ bs[i].remove = archs[i].remove
  BY <1>3
<1>6. KeysUnique(bs) /\ EdgesExact(bs)
  BY <1>3, <1>5, SameKeysAndEdges DEF Indexed
<1> QED
  BY <1>3, <1>4, <1>6 DEF Indexed

\* World::ensure_archetype finds or appends the archetype of a key.
LEMMA EnsureArchetypeIs ==
  ASSUME NEW archs, Indexed(archs), NEW key \in SUBSET Components,
         NEW bs, bs = EnsureArchetype(archs, key),
         NEW t, t = ArchetypeOf(bs, key)
  PROVE  /\ Indexed(bs)
         /\ Extends(bs, archs)
         /\ t \in 1 .. Len(bs)
         /\ bs[t].key = key
<1>1. /\ archs \in Seq(ArchetypeType) /\ Len(archs) \in Nat
      /\ \A i \in 1 .. Len(archs) : Aligned(archs[i])
  BY LenProperties DEF Indexed, Archetypes
<1>2. CASE HasArchetype(archs, key)
  <2>1. bs = archs
    BY <1>2 DEF EnsureArchetype
  <2>2. t \in 1 .. Len(bs) /\ bs[t].key = key
    BY <1>2, <2>1 DEF HasArchetype, ArchetypeOf
  <2>3. Extends(bs, archs)
    <3>1. \A i \in 1 .. Len(archs) : ~(i > Len(archs))
      BY <1>1, IndexLast
    <3>2. Len(archs) <= Len(archs)
      BY <1>1, IndexLast
    <3> QED
      BY <2>1, <3>1, <3>2 DEF Extends
  <2> QED
    BY <2>1, <2>2, <2>3
<1>3. CASE ~HasArchetype(archs, key)
  <2> DEFINE new == NewArchetype(key)
  <2>1. bs = Append(archs, new)
    BY <1>3 DEF EnsureArchetype
  <2>2. /\ new \in ArchetypeType /\ Aligned(new)
        /\ new.key = key /\ new.entities = <<>>
        /\ new.add = NoEdges /\ new.remove = NoEdges
    BY NewArchetypeGood DEF GoodArchetype
  <2> HIDE DEF new
  <2>3. /\ bs \in Seq(ArchetypeType)
        /\ Len(bs) = Len(archs) + 1
        /\ \A i \in 1 .. Len(archs) : bs[i] = archs[i]
        /\ bs[Len(archs) + 1] = new
    <3>1. /\ Append(archs, new) \in Seq(ArchetypeType)
          /\ Len(Append(archs, new)) = Len(archs) + 1
          /\ \A i \in 1 .. Len(archs) : Append(archs, new)[i] = archs[i]
          /\ Append(archs, new)[Len(archs) + 1] = new
      BY <1>1, <2>2, AppendIs
    <3> QED
      BY <2>1, <3>1
  <2>4. /\ Len(archs) <= Len(bs)
        /\ Len(archs) + 1 \in 1 .. Len(bs)
        /\ \A i \in 1 .. Len(archs) : i \in 1 .. Len(bs)
        /\ \A i \in 1 .. Len(bs) : i \in 1 .. Len(archs) \/ i = Len(archs) + 1
        /\ \A i \in 1 .. Len(bs) : i > Len(archs) => i = Len(archs) + 1
    BY <1>1, <2>3, IndexLast
  <2>5. Archetypes(bs)
    BY <1>1, <2>2, <2>3, <2>4 DEF Archetypes
  <2>6. KeysUnique(bs)
    <3>1. \A i \in 1 .. Len(archs) : archs[i].key # key
      BY <1>3 DEF HasArchetype
    <3>2. \A i \in 1 .. Len(archs) : bs[i].key = archs[i].key
      BY <2>3
    <3>3. bs[Len(archs) + 1].key = key
      BY <2>2, <2>3
    <3>4. KeysUnique(archs)
      BY DEF Indexed
    <3>5. ASSUME NEW i \in 1 .. Len(bs), NEW j \in 1 .. Len(bs),
                 bs[i].key = bs[j].key
          PROVE  i = j
      <4>1. CASE i \in 1 .. Len(archs) /\ j \in 1 .. Len(archs)
        BY <3>2, <3>4, <3>5, <4>1 DEF KeysUnique
      <4>2. CASE i \in 1 .. Len(archs) /\ j = Len(archs) + 1
        BY <3>1, <3>2, <3>3, <3>5, <4>2
      <4>3. CASE i = Len(archs) + 1 /\ j \in 1 .. Len(archs)
        BY <3>1, <3>2, <3>3, <3>5, <4>3
      <4> QED
        BY <2>4, <4>1, <4>2, <4>3
    <3> QED
      BY <3>5 DEF KeysUnique
  <2>7. EdgesExact(bs)
    <3> SUFFICES ASSUME NEW i \in 1 .. Len(bs), NEW c \in Components
                 PROVE  EdgeExact(bs, i, c)
      BY DEF EdgesExact
    <3>1. CASE i \in 1 .. Len(archs)
      <4>1. EdgeExact(archs, i, c)
        BY <3>1 DEF Indexed, EdgesExact
      <4>2. bs[i] = archs[i]
        BY <2>3, <3>1
      <4>3. \A n \in 1 .. Len(archs) : n \in 1 .. Len(bs) /\ bs[n].key = archs[n].key
        BY <2>3, <2>4
      <4> QED
        BY <4>1, <4>2, <4>3 DEF EdgeExact
    <3>2. CASE i = Len(archs) + 1
      BY <2>2, <2>3, <3>2 DEF NoEdges, EdgeExact
    <3> QED
      BY <2>4, <3>1, <3>2
  <2>8. t \in 1 .. Len(bs) /\ bs[t].key = key
    <3>1. Len(archs) + 1 \in 1 .. Len(bs) /\ bs[Len(archs) + 1].key = key
      BY <2>2, <2>3, <2>4
    <3> QED
      BY <3>1 DEF ArchetypeOf
  <2>9. Extends(bs, archs)
    BY <2>2, <2>3, <2>4 DEF Extends
  <2> QED
    BY <2>5, <2>6, <2>7, <2>8, <2>9 DEF Indexed
<1> QED
  BY <1>2, <1>3

\* Only the transitions of an archetype are replaced.
LEMMA WithEdgesIs ==
  ASSUME NEW a \in ArchetypeType, NEW f \in [Components -> Nat],
         NEW g \in [Components -> Nat]
  PROVE  /\ WithEdges(a, f, g) \in ArchetypeType
         /\ WithEdges(a, f, g).key = a.key
         /\ WithEdges(a, f, g).entities = a.entities
         /\ WithEdges(a, f, g).columns = a.columns
         /\ WithEdges(a, f, g).add = f
         /\ WithEdges(a, f, g).remove = g
  BY DEF WithEdges, ArchetypeType

\* One cached transition is set.
LEMMA EdgeSet ==
  ASSUME NEW f \in [Components -> Nat], NEW c \in Components, NEW n \in Nat
  PROVE  /\ [f EXCEPT ![c] = n] \in [Components -> Nat]
         /\ \A d \in Components :
              [f EXCEPT ![c] = n][d] = IF d = c THEN n ELSE f[d]
  OBVIOUS

\* The cached transitions of an archetype are functions of the component.
LEMMA EdgesTyped ==
  ASSUME NEW a \in ArchetypeType
  PROVE  a.add \in [Components -> Nat] /\ a.remove \in [Components -> Nat]
  BY DEF ArchetypeType

\* add_transition and remove_transition cache an edge both ways between two
\* archetypes whose keys differ by the component, and change nothing else.
LEMMA CacheEdgesIs ==
  ASSUME NEW archs, Indexed(archs), NEW small \in 1 .. Len(archs),
         NEW large \in 1 .. Len(archs), NEW c \in Components,
         c \notin archs[small].key,
         archs[large].key = archs[small].key \union {c},
         NEW bs, bs = CacheEdges(archs, small, c, large)
  PROVE  Indexed(bs) /\ Extends(bs, archs) /\ Len(bs) = Len(archs)
<1> DEFINE b1  == WithEdges(archs[small],
                            [archs[small].add EXCEPT ![c] = large],
                            archs[small].remove)
           out == [archs EXCEPT ![small] = b1]
           b2  == WithEdges(out[large], out[large].add,
                            [out[large].remove EXCEPT ![c] = small])
<1>1. /\ archs \in Seq(ArchetypeType) /\ Len(archs) \in Nat
      /\ \A i \in 1 .. Len(archs) : Aligned(archs[i])
      /\ \A i \in 1 .. Len(archs) : archs[i] \in ArchetypeType
  BY LenProperties DEF Indexed, Archetypes
<1>2. /\ out \in Seq(ArchetypeType)
      /\ Len(out) = Len(archs)
      /\ \A i \in 1 .. Len(archs) :
           /\ out[i] \in ArchetypeType
           /\ out[i].key = archs[i].key
           /\ out[i].entities = archs[i].entities
           /\ out[i].columns = archs[i].columns
           /\ out[i].remove = archs[i].remove
           /\ \A d \in Components :
                out[i].add[d] = IF i = small /\ d = c THEN large
                                                      ELSE archs[i].add[d]
  <2> HIDE DEF b2, out
  <2>1. /\ b1 \in ArchetypeType
        /\ b1.key = archs[small].key /\ b1.entities = archs[small].entities
        /\ b1.columns = archs[small].columns
        /\ b1.remove = archs[small].remove
        /\ \A d \in Components :
             b1.add[d] = IF d = c THEN large ELSE archs[small].add[d]
    <3> DEFINE g == archs[small].remove
               f == [archs[small].add EXCEPT ![c] = large]
    <3>1. archs[small] \in ArchetypeType /\ large \in Nat
      BY <1>1
    <3>2. archs[small].add \in [Components -> Nat] /\ g \in [Components -> Nat]
      BY <3>1, EdgesTyped
    <3>3. /\ f \in [Components -> Nat]
          /\ \A d \in Components :
               f[d] = IF d = c THEN large ELSE archs[small].add[d]
      BY <3>1, <3>2, EdgeSet
    <3> HIDE DEF f, g
    <3>4. b1 = WithEdges(archs[small], f, g)
      BY DEF f, g
    <3> HIDE DEF b1
    <3>5. /\ b1 \in ArchetypeType
          /\ b1.key = archs[small].key /\ b1.entities = archs[small].entities
          /\ b1.columns = archs[small].columns
          /\ b1.add = f /\ b1.remove = g
      <4>1. archs[small] \in ArchetypeType /\ f \in [Components -> Nat]
            /\ g \in [Components -> Nat]
        BY <3>1, <3>2, <3>3
      <4> QED
        BY <4>1, <3>4, WithEdgesIs
    <3> QED
      BY <3>3, <3>5 DEF g
  <2> HIDE DEF b1
  <2> USE DEF out
  <2>2. /\ out \in Seq(ArchetypeType)
        /\ Len(out) = Len(archs)
        /\ \A i \in 1 .. Len(archs) :
             out[i] = IF i = small THEN b1 ELSE archs[i]
    BY <1>1, <2>1, ExceptSeq
  <2> HIDE DEF out
  <2> QED
    BY <1>1, <2>1, <2>2
<1>3. bs = [out EXCEPT ![large] = b2]
  BY DEF CacheEdges
<1> HIDE DEF b1, out
<1>4. /\ bs \in Seq(ArchetypeType)
      /\ Len(bs) = Len(archs)
      /\ \A i \in 1 .. Len(archs) :
           /\ bs[i].key = archs[i].key
           /\ bs[i].entities = archs[i].entities
           /\ bs[i].columns = archs[i].columns
           /\ \A d \in Components :
                /\ bs[i].add[d] = IF i = small /\ d = c THEN large
                                                        ELSE archs[i].add[d]
                /\ bs[i].remove[d] = IF i = large /\ d = c
                                       THEN small ELSE archs[i].remove[d]
  <2>1. /\ b2 \in ArchetypeType
        /\ b2.key = out[large].key /\ b2.entities = out[large].entities
        /\ b2.columns = out[large].columns
        /\ b2.add = out[large].add
        /\ \A d \in Components :
             b2.remove[d] = IF d = c THEN small ELSE out[large].remove[d]
    <3> DEFINE g == out[large].add
               f == [out[large].remove EXCEPT ![c] = small]
    <3>1. out[large] \in ArchetypeType /\ small \in Nat
      BY <1>1, <1>2
    <3>2. out[large].remove \in [Components -> Nat] /\ g \in [Components -> Nat]
      BY <3>1, EdgesTyped
    <3>3. /\ f \in [Components -> Nat]
          /\ \A d \in Components :
               f[d] = IF d = c THEN small ELSE out[large].remove[d]
      BY <3>1, <3>2, EdgeSet
    <3> HIDE DEF f, g
    <3>4. b2 = WithEdges(out[large], g, f)
      BY DEF f, g
    <3> HIDE DEF b2
    <3>5. /\ b2 \in ArchetypeType
          /\ b2.key = out[large].key /\ b2.entities = out[large].entities
          /\ b2.columns = out[large].columns
          /\ b2.remove = f /\ b2.add = g
      BY <3>1, <3>2, <3>3, <3>4, WithEdgesIs
    <3> QED
      BY <3>3, <3>5 DEF g
  <2> HIDE DEF b2
  <2>2. /\ bs \in Seq(ArchetypeType)
        /\ Len(bs) = Len(archs)
        /\ \A i \in 1 .. Len(archs) : bs[i] = IF i = large THEN b2 ELSE out[i]
    BY <1>2, <1>3, <2>1, ExceptSeq
  <2> QED
    BY <1>2, <2>1, <2>2
<1>5. Archetypes(bs)
  <2>1. ASSUME NEW i \in 1 .. Len(archs)
        PROVE  Aligned(bs[i])
    <3>1. Aligned(archs[i])
      BY <1>1
    <3>2. /\ bs[i].key = archs[i].key
          /\ bs[i].entities = archs[i].entities
          /\ bs[i].columns = archs[i].columns
      BY <1>4
    <3> QED
      BY <3>1, <3>2 DEF Aligned
  <2> QED
    BY <1>4, <2>1 DEF Archetypes
<1>6. KeysUnique(bs)
  BY <1>4 DEF Indexed, KeysUnique
<1>7. EdgesExact(bs)
  <2> SUFFICES ASSUME NEW i \in 1 .. Len(bs), NEW d \in Components
               PROVE  EdgeExact(bs, i, d)
    BY DEF EdgesExact
  <2>1. EdgeExact(archs, i, d)
    BY <1>4 DEF Indexed, EdgesExact
  <2>2. archs[small].key = archs[large].key \ {c}
    OBVIOUS
  <2>3. bs[i].add[d] # 0 =>
          /\ bs[i].add[d] \in 1 .. Len(bs)
          /\ d \notin bs[i].key
          /\ bs[bs[i].add[d]].key = bs[i].key \union {d}
    <3>1. CASE i = small /\ d = c
      BY <1>4, <3>1
    <3>2. CASE ~(i = small /\ d = c)
      BY <1>4, <2>1, <3>2 DEF EdgeExact
    <3> QED
      BY <3>1, <3>2
  <2>4. bs[i].remove[d] # 0 =>
          /\ bs[i].remove[d] \in 1 .. Len(bs)
          /\ d \in bs[i].key
          /\ bs[bs[i].remove[d]].key = bs[i].key \ {d}
    <3>1. CASE i = large /\ d = c
      BY <1>4, <2>2, <3>1
    <3>2. CASE ~(i = large /\ d = c)
      BY <1>4, <2>1, <3>2 DEF EdgeExact
    <3> QED
      BY <3>1, <3>2
  <2> QED
    BY <2>3, <2>4 DEF EdgeExact
<1>8. Extends(bs, archs)
  BY <1>1, <1>4 DEF Extends
<1> QED
  BY <1>4, <1>5, <1>6, <1>7, <1>8 DEF Indexed

\* What a transition must deliver to move_entity_to_archetype.
Leads(transition, archs, key) ==
  /\ Indexed(transition.archetypes)
  /\ Extends(transition.archetypes, archs)
  /\ transition.target \in 1 .. Len(transition.archetypes)
  /\ transition.archetypes[transition.target].key = key

\* Archetypes that are kept by two changes are kept by both together.
LEMMA ExtendsTwice ==
  ASSUME NEW archs, NEW bs, NEW cs, Len(archs) \in Nat, Len(bs) \in Nat,
         Extends(bs, archs), Extends(cs, bs), Len(cs) = Len(bs)
  PROVE  Extends(cs, archs)
<1>1. Len(archs) <= Len(cs)
  BY DEF Extends
<1>2. ASSUME NEW i \in 1 .. Len(archs)
      PROVE  /\ cs[i].key = archs[i].key
             /\ cs[i].entities = archs[i].entities
             /\ cs[i].columns = archs[i].columns
  <2>1. i \in 1 .. Len(bs)
    BY DEF Extends
  <2> QED
    BY <2>1 DEF Extends
<1>3. ASSUME NEW i \in 1 .. Len(cs), i > Len(archs)
      PROVE  cs[i].entities = <<>>
  <2>1. i \in 1 .. Len(bs)
    OBVIOUS
  <2>2. cs[i].entities = bs[i].entities
    <3>1. CASE i > Len(bs)
      BY <2>1, <3>1
    <3>2. CASE ~(i > Len(bs))
      BY <2>1 DEF Extends
    <3> QED
      BY <3>1, <3>2
  <2> QED
    BY <1>3, <2>1, <2>2 DEF Extends
<1> QED
  BY <1>1, <1>2, <1>3 DEF Extends

\* World::add_transition
LEMMA AddTransitionLeads ==
  ASSUME Indexed(arch), NEW source \in 1 .. Len(arch), NEW c \in Components,
         c \notin arch[source].key
  PROVE  Leads(AddTransition(source, c), arch, arch[source].key \union {c})
<1>1. /\ Len(arch) \in Nat /\ arch[source].key \in SUBSET Components
      /\ arch[source].add[c] \in Nat
  <2>1. arch \in Seq(ArchetypeType)
    BY DEF Indexed, Archetypes
  <2>2. Len(arch) \in Nat /\ arch[source] \in ArchetypeType
    BY <2>1
  <2> QED
    BY <2>2 DEF ArchetypeType
<1>2. CASE arch[source].add[c] # 0
  <2>1. EdgeExact(arch, source, c)
    BY DEF Indexed, EdgesExact
  <2> QED
    BY <1>1, <1>2, <2>1 DEF Leads, AddTransition, Extends, EdgeExact
<1>3. CASE arch[source].add[c] = 0
  <2> DEFINE key == arch[source].key \union {c}
             bs == EnsureArchetype(arch, key)
             t == ArchetypeOf(bs, key)
             cs == CacheEdges(bs, source, c, t)
  <2>1. AddTransition(source, c) = [archetypes |-> cs, target |-> t]
    BY <1>3 DEF AddTransition
  <2> HIDE DEF key, bs, t, cs
  <2>2. /\ Indexed(bs) /\ Extends(bs, arch)
        /\ t \in 1 .. Len(bs) /\ bs[t].key = key
    BY <1>1, EnsureArchetypeIs DEF key, bs, t
  <2>3. Len(bs) \in Nat
    BY <2>2, LenProperties DEF Indexed, Archetypes
  <2>4. source \in 1 .. Len(bs) /\ bs[source].key = arch[source].key
    BY <1>1, <2>2, <2>3 DEF Extends
  <2>5. Indexed(cs) /\ Extends(cs, bs) /\ Len(cs) = Len(bs)
    BY <2>2, <2>4, CacheEdgesIs DEF key, cs
  <2>6. cs[t].key = key
    BY <2>2, <2>5 DEF Extends
  <2>7. Extends(cs, arch)
    BY <1>1, <2>2, <2>3, <2>5, ExtendsTwice
  <2> QED
    BY <2>1, <2>2, <2>5, <2>6, <2>7 DEF Leads, key
<1> QED
  BY <1>2, <1>3

\* World::remove_transition
LEMMA RemoveTransitionLeads ==
  ASSUME Indexed(arch), NEW source \in 1 .. Len(arch), NEW c \in Components,
         c \in arch[source].key
  PROVE  Leads(RemoveTransition(source, c), arch, arch[source].key \ {c})
<1>1. /\ Len(arch) \in Nat /\ arch[source].key \in SUBSET Components
      /\ arch[source].remove[c] \in Nat
  <2>1. arch \in Seq(ArchetypeType)
    BY DEF Indexed, Archetypes
  <2>2. Len(arch) \in Nat /\ arch[source] \in ArchetypeType
    BY <2>1
  <2> QED
    BY <2>2 DEF ArchetypeType
<1>2. CASE arch[source].remove[c] # 0
  <2>1. EdgeExact(arch, source, c)
    BY DEF Indexed, EdgesExact
  <2> QED
    BY <1>1, <1>2, <2>1 DEF Leads, RemoveTransition, Extends, EdgeExact
<1>3. CASE arch[source].remove[c] = 0
  <2> DEFINE key == arch[source].key \ {c}
             bs == EnsureArchetype(arch, key)
             t == ArchetypeOf(bs, key)
             cs == CacheEdges(bs, t, c, source)
  <2>1. RemoveTransition(source, c) = [archetypes |-> cs, target |-> t]
    BY <1>3 DEF RemoveTransition
  <2> HIDE DEF key, bs, t, cs
  <2>2. /\ Indexed(bs) /\ Extends(bs, arch)
        /\ t \in 1 .. Len(bs) /\ bs[t].key = key
    BY <1>1, EnsureArchetypeIs DEF key, bs, t
  <2>3. Len(bs) \in Nat
    BY <2>2, LenProperties DEF Indexed, Archetypes
  <2>4. source \in 1 .. Len(bs) /\ bs[source].key = arch[source].key
    BY <1>1, <2>2, <2>3 DEF Extends
  <2>5. /\ c \notin bs[t].key
        /\ bs[source].key = bs[t].key \union {c}
    BY <2>2, <2>4 DEF key
  <2>6. Indexed(cs) /\ Extends(cs, bs) /\ Len(cs) = Len(bs)
    BY <2>2, <2>4, <2>5, CacheEdgesIs DEF cs
  <2>7. cs[t].key = key
    BY <2>2, <2>6 DEF Extends
  <2>8. Extends(cs, arch)
    BY <1>1, <2>2, <2>3, <2>6, ExtendsTwice
  <2> QED
    BY <2>1, <2>2, <2>6, <2>7, <2>8 DEF Leads, key
<1> QED
  BY <1>2, <1>3

-----------------------------------------------------------------------------
(* The location index.                                                     *)

\* RowsExact with the archetypes reduced to their rows.
Placed(m, rows, where, live) ==
  /\ \A e \in live :
       /\ where[e.index].generation = e.generation
       /\ where[e.index].arch \in 1 .. m
       /\ where[e.index].row \in 1 .. Len(rows[where[e.index].arch])
       /\ rows[where[e.index].arch][where[e.index].row] = e
  /\ \A a \in 1 .. m : \A row \in 1 .. Len(rows[a]) :
       /\ rows[a][row] \in live
       /\ where[rows[a][row].index].arch = a
       /\ where[rows[a][row].index].row = row

RowsOf(archs) == [a \in 1 .. Len(archs) |-> archs[a].entities]

\* RowsExact, seen as a statement about the entity rows alone.
LEMMA RowsExactIsPlaced ==
  ASSUME NEW archs, NEW rows, rows = RowsOf(archs), NEW where, NEW live
  PROVE  RowsExact(archs, where, live) <=> Placed(Len(archs), rows, where, live)
<1>1. \A a \in 1 .. Len(archs) : rows[a] = archs[a].entities
  BY DEF RowsOf
<1>2. (\A e \in live :
         LET l == where[e.index] IN
         /\ l.generation = e.generation
         /\ l.arch \in 1 .. Len(archs)
         /\ l.row \in 1 .. Len(archs[l.arch].entities)
         /\ archs[l.arch].entities[l.row] = e)
      <=> (\A e \in live :
             /\ where[e.index].generation = e.generation
             /\ where[e.index].arch \in 1 .. Len(archs)
             /\ where[e.index].row \in 1 .. Len(rows[where[e.index].arch])
             /\ rows[where[e.index].arch][where[e.index].row] = e)
  BY <1>1
<1>3. (\A a \in 1 .. Len(archs) : \A row \in 1 .. Len(archs[a].entities) :
         LET e == archs[a].entities[row] IN
         /\ e \in live
         /\ where[e.index].arch = a
         /\ where[e.index].row = row)
      <=> (\A a \in 1 .. Len(archs) : \A row \in 1 .. Len(rows[a]) :
             /\ rows[a][row] \in live
             /\ where[rows[a][row].index].arch = a
             /\ where[rows[a][row].index].row = row)
  <2>1. ASSUME NEW a \in 1 .. Len(archs)
        PROVE  (\A row \in 1 .. Len(archs[a].entities) :
                  LET e == archs[a].entities[row] IN
                  /\ e \in live
                  /\ where[e.index].arch = a
                  /\ where[e.index].row = row)
               <=> (\A row \in 1 .. Len(rows[a]) :
                      /\ rows[a][row] \in live
                      /\ where[rows[a][row].index].arch = a
                      /\ where[rows[a][row].index].row = row)
    <3>1. rows[a] = archs[a].entities
      BY <1>1
    <3> QED
      BY <3>1
  <2> QED
    BY <2>1
<1> QED
  BY <1>2, <1>3 DEF RowsExact, Placed

\* Archetypes without rows and new transitions disturb no location.
LEMMA ExtendsRows ==
  ASSUME NEW archs, NEW bs, Len(archs) \in Nat, Len(bs) \in Nat,
         Extends(bs, archs), NEW where, NEW live,
         RowsExact(archs, where, live)
  PROVE  RowsExact(bs, where, live)
<1>1. /\ Len(archs) <= Len(bs)
      /\ \A i \in 1 .. Len(archs) : bs[i].entities = archs[i].entities
      /\ \A i \in 1 .. Len(bs) : i > Len(archs) => bs[i].entities = <<>>
  BY DEF Extends
<1>2. ASSUME NEW e \in live
      PROVE  LET l == where[e.index] IN
             /\ l.generation = e.generation
             /\ l.arch \in 1 .. Len(bs)
             /\ l.row \in 1 .. Len(bs[l.arch].entities)
             /\ bs[l.arch].entities[l.row] = e
  <2> DEFINE l == where[e.index]
  <2>1. /\ l.generation = e.generation
        /\ l.arch \in 1 .. Len(archs)
        /\ l.row \in 1 .. Len(archs[l.arch].entities)
        /\ archs[l.arch].entities[l.row] = e
    BY DEF RowsExact
  <2> HIDE DEF l
  <2>2. l.arch \in 1 .. Len(bs)
    BY <1>1, <2>1
  <2>3. bs[l.arch].entities = archs[l.arch].entities
    BY <1>1, <2>1
  <2> QED
    BY <2>1, <2>2, <2>3 DEF l
<1>3. ASSUME NEW a \in 1 .. Len(bs), NEW row \in 1 .. Len(bs[a].entities)
      PROVE  LET e == bs[a].entities[row] IN
             /\ e \in live
             /\ where[e.index].arch = a
             /\ where[e.index].row = row
  <2>1. CASE a \in 1 .. Len(archs)
    <3>1. bs[a].entities = archs[a].entities
      BY <1>1, <2>1
    <3> QED
      BY <2>1, <3>1 DEF RowsExact
  <2>2. CASE a > Len(archs)
    BY <1>1, <2>2
  <2> QED
    BY <2>1, <2>2
<1> QED
  BY <1>2, <1>3 DEF RowsExact

\* Row `row' of archetype a, held by e, is swap-removed: the last of its n
\* rows fills the hole and is located there.
RowLeaves(m, old, new, live, where, end, e, a, n, row, last) ==
  /\ m \in Nat /\ OnePerSlot(live) /\ Placed(m, old, where, live)
  /\ e \in live /\ a \in 1 .. m /\ n \in Nat /\ row \in 1 .. n
  /\ where[e.index].arch = a
  /\ where[e.index].row = row
  /\ Len(old[a]) = n
  /\ last = old[a][n]
  /\ \A i \in 1 .. m : i # a => new[i] = old[i]
  /\ Len(new[a]) = n - 1
  /\ \A i \in 1 .. (n - 1) :
       new[a][i] = IF i = row THEN last ELSE old[a][i]
  /\ row < n => /\ end[last.index].arch = a
                /\ end[last.index].row = row
                /\ end[last.index].generation = last.generation
  /\ \A d \in live :
       d # e /\ ~(row < n /\ d = last) => end[d.index] = where[d.index]

\* A swap-remove keeps every remaining entity where its location says.
LEMMA PlacedRemove ==
  ASSUME NEW m, NEW old, NEW new, NEW live, NEW where, NEW end,
         NEW e, NEW a, NEW n, NEW row, NEW last,
         RowLeaves(m, old, new, live, where, end, e, a, n, row, last)
  PROVE  Placed(m, new, end, live \ {e})
<1> USE DEF RowLeaves
<1>1. old[a][row] = e /\ last \in live
      /\ where[last.index].arch = a /\ where[last.index].row = n
  BY DEF Placed
<1>2. ASSUME NEW d \in live \ {e}
      PROVE  /\ end[d.index].generation = d.generation
             /\ end[d.index].arch \in 1 .. m
             /\ end[d.index].row \in 1 .. Len(new[end[d.index].arch])
             /\ new[end[d.index].arch][end[d.index].row] = d
  <2>1. CASE row < n /\ d = last
    <3>1. row \in 1 .. (n - 1)
      BY <2>1
    <3> QED
      BY <2>1, <3>1
  <2>2. CASE ~(row < n /\ d = last)
    <3>1. end[d.index] = where[d.index]
      BY <2>2
    <3>2. /\ where[d.index].generation = d.generation
          /\ where[d.index].arch \in 1 .. m
          /\ where[d.index].row \in 1 .. Len(old[where[d.index].arch])
          /\ old[where[d.index].arch][where[d.index].row] = d
      BY DEF Placed
    <3>3. CASE where[d.index].arch = a
      <4>1. where[d.index].row \in 1 .. n /\ old[a][where[d.index].row] = d
        BY <3>2, <3>3
      <4>2. where[d.index].row # row /\ where[d.index].row # n
        BY <1>1, <2>2, <4>1
      <4>3. where[d.index].row \in 1 .. (n - 1)
        BY <4>1, <4>2
      <4>4. new[a][where[d.index].row] = d
        BY <4>1, <4>2, <4>3
      <4> QED
        BY <3>1, <3>2, <3>3, <4>3, <4>4
    <3>4. CASE where[d.index].arch # a
      BY <3>1, <3>2, <3>4
    <3> QED
      BY <3>3, <3>4
  <2> QED
    BY <2>1, <2>2
<1>3. ASSUME NEW i \in 1 .. m, NEW r \in 1 .. Len(new[i])
      PROVE  /\ new[i][r] \in live \ {e}
             /\ end[new[i][r].index].arch = i
             /\ end[new[i][r].index].row = r
  <2>1. CASE i # a
    <3>1. new[i] = old[i]
      BY <2>1
    <3>2. /\ old[i][r] \in live
          /\ where[old[i][r].index].arch = i
          /\ where[old[i][r].index].row = r
      BY <3>1 DEF Placed
    <3>3. old[i][r] # e /\ old[i][r] # last
      BY <1>1, <2>1, <3>2
    <3> QED
      BY <3>1, <3>2, <3>3
  <2>2. CASE i = a
    <3>1. r \in 1 .. (n - 1) /\ r \in 1 .. n
      BY <2>2
    <3>2. CASE r = row
      <4>1. row < n /\ new[i][r] = last
        BY <2>2, <3>1, <3>2
      <4>2. last # e
        BY <1>1, <4>1
      <4> QED
        BY <1>1, <2>2, <3>2, <4>1, <4>2
    <3>3. CASE r # row
      <4>1. new[i][r] = old[a][r]
        BY <2>2, <3>1, <3>3
      <4>2. /\ old[a][r] \in live
            /\ where[old[a][r].index].arch = a
            /\ where[old[a][r].index].row = r
        BY <3>1 DEF Placed
      <4>3. old[a][r] # e /\ old[a][r] # last
        BY <1>1, <3>1, <3>3, <4>2
      <4> QED
        BY <2>2, <4>1, <4>2, <4>3
    <3> QED
      BY <3>2, <3>3
  <2> QED
    BY <2>1, <2>2
<1> QED
  BY <1>2, <1>3 DEF Placed

\* A row is pushed onto archetype a and its entity e located there.
RowJoins(m, old, new, live, where, end, e, a, n) ==
  /\ m \in Nat /\ Placed(m, old, where, live) /\ a \in 1 .. m /\ n \in Nat
  /\ Len(old[a]) = n
  /\ \A i \in 1 .. m : i # a => new[i] = old[i]
  /\ Len(new[a]) = n + 1
  /\ \A i \in 1 .. n : new[a][i] = old[a][i]
  /\ new[a][n + 1] = e
  /\ end[e.index].arch = a
  /\ end[e.index].row = n + 1
  /\ end[e.index].generation = e.generation
  /\ \A d \in live : end[d.index] = where[d.index]

\* A push keeps every entity where its location says and adds one at the end.
LEMMA PlacedPush ==
  ASSUME NEW m, NEW old, NEW new, NEW live, NEW where, NEW end,
         NEW e, NEW a, NEW n,
         RowJoins(m, old, new, live, where, end, e, a, n)
  PROVE  Placed(m, new, end, live \union {e})
<1> USE DEF RowJoins
<1>1. ASSUME NEW d \in live
      PROVE  /\ end[d.index].generation = d.generation
             /\ end[d.index].arch \in 1 .. m
             /\ end[d.index].row \in 1 .. Len(new[end[d.index].arch])
             /\ new[end[d.index].arch][end[d.index].row] = d
  <2>1. /\ where[d.index].generation = d.generation
        /\ where[d.index].arch \in 1 .. m
        /\ where[d.index].row \in 1 .. Len(old[where[d.index].arch])
        /\ old[where[d.index].arch][where[d.index].row] = d
        /\ end[d.index] = where[d.index]
    BY DEF Placed
  <2>2. CASE where[d.index].arch = a
    <3>1. where[d.index].row \in 1 .. n /\ where[d.index].row \in 1 .. (n + 1)
      BY <2>1, <2>2
    <3> QED
      BY <2>1, <2>2, <3>1
  <2>3. CASE where[d.index].arch # a
    BY <2>1, <2>3
  <2> QED
    BY <2>2, <2>3
<1>2. /\ end[e.index].row \in 1 .. Len(new[end[e.index].arch])
      /\ new[end[e.index].arch][end[e.index].row] = e
  OBVIOUS
<1>3. ASSUME NEW i \in 1 .. m, NEW r \in 1 .. Len(new[i])
      PROVE  /\ new[i][r] \in live \union {e}
             /\ end[new[i][r].index].arch = i
             /\ end[new[i][r].index].row = r
  <2>1. CASE i = a /\ r = n + 1
    BY <2>1
  <2>2. CASE ~(i = a /\ r = n + 1)
    <3>1. r \in 1 .. Len(old[i]) /\ new[i][r] = old[i][r]
      <4>1. CASE i = a
        BY <2>2, <4>1
      <4>2. CASE i # a
        BY <4>2
      <4> QED
        BY <4>1, <4>2
    <3>2. /\ old[i][r] \in live
          /\ where[old[i][r].index].arch = i
          /\ where[old[i][r].index].row = r
      BY <3>1 DEF Placed
    <3> QED
      BY <3>1, <3>2
  <2> QED
    BY <2>1, <2>2
<1> QED
  BY <1>1, <1>2, <1>3 DEF Placed

\* Archetype::remove_row_swap_remove on one archetype of the vector.
RemovesRow(bs, archs, a, n, row) ==
  /\ Indexed(archs)
  /\ a \in 1 .. Len(archs)
  /\ n = Len(archs[a].entities)
  /\ row \in 1 .. n
  /\ bs = [archs EXCEPT ![a] = RemoveRow(archs[a], row)]

\* Archetype::remove_row_swap_remove on the vector of archetypes: the last row
\* takes the place of the removed one and no other archetype changes.
LEMMA RemoveRowVector ==
  ASSUME NEW bs, NEW archs, NEW a, NEW n, NEW row,
         RemovesRow(bs, archs, a, n, row)
  PROVE  /\ Indexed(bs)
         /\ Len(archs) \in Nat /\ n \in Nat
         /\ Len(bs) = Len(archs)
         /\ bs[a].key = archs[a].key
         /\ \A i \in 1 .. Len(archs) : i # a => bs[i] = archs[i]
         /\ Len(bs[a].entities) = n - 1
         /\ \A i \in 1 .. (n - 1) :
              bs[a].entities[i] = IF i = row THEN archs[a].entities[n]
                                             ELSE archs[a].entities[i]
<1> USE DEF RemovesRow
<1>1. PICK ents : ents = archs[a].entities
  OBVIOUS
<1>2. /\ GoodArchetype(archs[a]) /\ archs[a] \in ArchetypeType
  BY DEF GoodArchetype, Indexed, Archetypes
<1>3. ents \in Seq(Entity) /\ n \in Nat /\ row \in Nat /\ Len(ents) > 0
      /\ Len(ents) = n
  BY <1>1, <1>2 DEF ArchetypeType
<1>4. PICK b : b = RemoveRow(archs[a], row)
  OBVIOUS
<1>5. /\ GoodArchetype(b) /\ b.key = archs[a].key
      /\ b.add = archs[a].add /\ b.remove = archs[a].remove
      /\ b.entities = SwapRemove(ents, row)
  BY <1>1, <1>2, <1>4, RemoveRowGood
<1>6. Replaced(bs, archs, a, b)
  BY <1>4, <1>5 DEF Replaced
<1>7. /\ Indexed(bs)
      /\ Len(archs) \in Nat
      /\ Len(bs) = Len(archs)
      /\ \A i \in 1 .. Len(archs) : bs[i] = IF i = a THEN b ELSE archs[i]
  BY <1>6, ReplaceArchetype
<1>8. /\ Len(SwapRemove(ents, row)) = n - 1
      /\ \A i \in 1 .. (n - 1) :
           SwapRemove(ents, row)[i] = IF i = row THEN ents[n] ELSE ents[i]
  <2>1. /\ Len(SwapRemove(ents, row)) = Len(ents) - 1
        /\ \A i \in 1 .. (Len(ents) - 1) :
             SwapRemove(ents, row)[i]
               = IF i = row THEN ents[Len(ents)] ELSE ents[i]
    BY <1>3, SwapRemoveIs
  <2> QED
    BY <1>3, <2>1
<1>9. bs[a].entities = SwapRemove(ents, row) /\ bs[a].key = archs[a].key
  BY <1>5, <1>7
<1> QED
  BY <1>1, <1>3, <1>7, <1>8, <1>9

\* Archetype::push_row on one archetype of the vector.
PushesRow(bs, archs, a, n, e, comps) ==
  /\ Indexed(archs)
  /\ a \in 1 .. Len(archs)
  /\ n = Len(archs[a].entities)
  /\ e \in Entity
  /\ comps \in Component(archs[a].key)
  /\ bs = [archs EXCEPT ![a] = PushRow(archs[a], e, comps)]

\* Archetype::push_row on the vector of archetypes: one row more at the end of
\* one archetype, no other changes.
LEMMA PushRowVector ==
  ASSUME NEW bs, NEW archs, NEW a, NEW n, NEW e, NEW comps,
         PushesRow(bs, archs, a, n, e, comps)
  PROVE  /\ Indexed(bs)
         /\ Len(archs) \in Nat /\ n \in Nat
         /\ Len(bs) = Len(archs)
         /\ bs[a].key = archs[a].key
         /\ \A i \in 1 .. Len(archs) : i # a => bs[i] = archs[i]
         /\ Len(bs[a].entities) = n + 1
         /\ \A i \in 1 .. n : bs[a].entities[i] = archs[a].entities[i]
         /\ bs[a].entities[n + 1] = e
<1> USE DEF PushesRow
<1>1. PICK ents : ents = archs[a].entities
  OBVIOUS
<1>2. /\ GoodArchetype(archs[a]) /\ archs[a] \in ArchetypeType
  BY DEF GoodArchetype, Indexed, Archetypes
<1>3. ents \in Seq(Entity) /\ n \in Nat /\ Len(ents) = n
  BY <1>1, <1>2 DEF ArchetypeType
<1>4. PICK b : b = PushRow(archs[a], e, comps)
  OBVIOUS
<1>5. /\ GoodArchetype(b) /\ b.key = archs[a].key
      /\ b.add = archs[a].add /\ b.remove = archs[a].remove
      /\ b.entities = Append(ents, e)
  BY <1>1, <1>2, <1>4, PushRowGood
<1>6. Replaced(bs, archs, a, b)
  BY <1>4, <1>5 DEF Replaced
<1>7. /\ Indexed(bs)
      /\ Len(archs) \in Nat
      /\ Len(bs) = Len(archs)
      /\ \A i \in 1 .. Len(archs) : bs[i] = IF i = a THEN b ELSE archs[i]
  BY <1>6, ReplaceArchetype
<1>8. /\ Len(Append(ents, e)) = n + 1
      /\ \A i \in 1 .. n : Append(ents, e)[i] = ents[i]
      /\ Append(ents, e)[n + 1] = e
  BY <1>3, AppendIs
<1>9. bs[a].entities = Append(ents, e) /\ bs[a].key = archs[a].key
  BY <1>5, <1>7
<1> QED
  BY <1>1, <1>3, <1>7, <1>8, <1>9

\* A location is written (DenseEntityLocations::insert).
LEMMA LocationWritten ==
  ASSUME NEW start \in [Slots -> Location], NEW j \in Slots, NEW new \in Location,
         NEW end, end = [start EXCEPT ![j] = new]
  PROVE  /\ end \in [Slots -> Location]
         /\ end[j] = new
         /\ \A i \in Slots : i # j => end[i] = start[i]
  OBVIOUS

\* remove_entity_row: the row is swap-removed and the location of the entity
\* that filled the hole repaired; every other location stays as start has it.
RowRemoved(bs, end, archs, where, live, e, a, row, start) ==
  /\ live \in SUBSET Entity
  /\ OnePerSlot(live)
  /\ Indexed(archs)
  /\ RowsExact(archs, where, live)
  /\ e \in live
  /\ a = where[e.index].arch
  /\ row = where[e.index].row
  /\ start \in [Slots -> Location]
  /\ \A i \in Slots : i # e.index => start[i] = where[i]
  /\ bs = [archs EXCEPT ![a] = RemoveRow(archs[a], row)]
  /\ end = RepairSwapped(archs[a].entities, a, row, start)

RowGone(bs, end, archs, live, e, a, start) ==
  /\ Indexed(bs)
  /\ Len(bs) = Len(archs)
  /\ \A i \in 1 .. Len(archs) : i # a => bs[i] = archs[i]
  /\ end \in [Slots -> Location]
  /\ \A i \in Slots : \/ end[i] = start[i]
                      \/ i # e.index /\ end[i].arch = a /\ start[i].arch = a
  /\ RowsExact(bs, end, live \ {e})

\* A row removed where the location index says, and the location of the moved
\* entity repaired, leave the index exact for the other entities.
LEMMA RemoveRowRows ==
  ASSUME NEW bs, NEW end, NEW archs, NEW where, NEW live, NEW e, NEW a, NEW row,
         NEW start, RowRemoved(bs, end, archs, where, live, e, a, row, start)
  PROVE  RowGone(bs, end, archs, live, e, a, start)
<1>a. /\ live \in SUBSET Entity /\ e \in live
      /\ \A i \in Slots : i # e.index => start[i] = where[i]
  BY DEF RowRemoved
<1>b. start \in [Slots -> Location] /\ OnePerSlot(live)
  BY DEF RowRemoved
<1>c. RowsExact(archs, where, live)
  BY DEF RowRemoved
<1>d. end = RepairSwapped(archs[a].entities, a, row, start)
  BY DEF RowRemoved
<1>e. where[e.index].arch = a /\ where[e.index].row = row
  BY DEF RowRemoved
<1>n. PICK n : n = Len(archs[a].entities)
  OBVIOUS
<1>l. PICK last : last = archs[a].entities[n]
  OBVIOUS
<1>1. /\ a \in 1 .. Len(archs) /\ row \in 1 .. n
      /\ archs[a].entities[row] = e
      /\ e \in Entity /\ e.index \in Slots
  BY <1>a, <1>c, <1>e, <1>n DEF RowsExact, Entity
<1>2. /\ Indexed(bs)
      /\ Len(archs) \in Nat /\ n \in Nat
      /\ Len(bs) = Len(archs)
      /\ bs[a].key = archs[a].key
      /\ \A i \in 1 .. Len(archs) : i # a => bs[i] = archs[i]
      /\ Len(bs[a].entities) = n - 1
      /\ \A i \in 1 .. (n - 1) :
           bs[a].entities[i] = IF i = row THEN archs[a].entities[n]
                                          ELSE archs[a].entities[i]
  <2>1. RemovesRow(bs, archs, a, n, row)
    BY <1>n, <1>1 DEF RowRemoved, RemovesRow
  <2> QED
    BY <2>1, RemoveRowVector
<1>3. /\ last \in live /\ last.index \in Slots /\ last.generation \in Nat
      /\ where[last.index].arch = a /\ where[last.index].row = n
  <2>1. n \in 1 .. Len(archs[a].entities)
    BY <1>n, <1>1, <1>2
  <2>2. /\ last \in live
        /\ where[last.index].arch = a /\ where[last.index].row = n
    BY <1>l, <1>1, <1>c, <2>1 DEF RowsExact
  <2> QED
    BY <1>a, <2>2 DEF Entity
<1>4. row < n => last # e /\ last.index # e.index
  <2>1. row < n => row # n
    BY <1>1, <1>2
  <2> QED
    BY <1>3, <1>e, <2>1
<1>5. /\ end \in [Slots -> Location]
      /\ row < n => /\ end[last.index].arch = a
                    /\ end[last.index].row = row
                    /\ end[last.index].generation = last.generation
      /\ \A i \in Slots : ~(row < n /\ i = last.index) => end[i] = start[i]
  <2>1. PICK new : new = [arch |-> a, row |-> row,
                          generation |-> last.generation]
    OBVIOUS
  <2>2. /\ new.arch = a /\ new.row = row /\ new.generation = last.generation
        /\ new \in Location
    BY <1>1, <1>2, <1>3, <2>1 DEF Location
  <2>3. CASE row < n
    <3>1. end = [start EXCEPT ![last.index] = new]
      BY <1>d, <1>n, <1>l, <2>1, <2>3 DEF RepairSwapped
    <3>2. /\ end \in [Slots -> Location]
          /\ end[last.index] = new
          /\ \A i \in Slots : i # last.index => end[i] = start[i]
      BY <1>3, <1>b, <2>2, <3>1, LocationWritten
    <3> QED
      BY <2>2, <2>3, <3>2
  <2>4. CASE ~(row < n)
    <3>1. end = start
      BY <1>d, <1>n, <2>4 DEF RepairSwapped
    <3> QED
      BY <1>b, <2>4, <3>1
  <2> QED
    BY <2>3, <2>4
<1>6. ASSUME NEW d \in live, d # e, ~(row < n /\ d = last)
      PROVE  end[d.index] = where[d.index]
  <2>1. d.index \in Slots
    BY <1>a DEF Entity
  <2>2. d.index # e.index /\ ~(row < n /\ d.index = last.index)
    BY <1>a, <1>b, <1>3, <1>6 DEF OnePerSlot
  <2> QED
    BY <1>a, <1>5, <2>1, <2>2
<1>7. RowsExact(bs, end, live \ {e})
  <2>1. PICK old : old = RowsOf(archs)
    OBVIOUS
  <2>2. PICK new : new = RowsOf(bs)
    OBVIOUS
  <2>3. Placed(Len(archs), old, where, live)
    BY <1>c, <2>1, RowsExactIsPlaced
  <2>4. \A i \in 1 .. Len(archs) : old[i] = archs[i].entities
    BY <2>1 DEF RowsOf
  <2>5. \A i \in 1 .. Len(archs) : new[i] = bs[i].entities
    BY <1>2, <2>2 DEF RowsOf
  <2>6. /\ Len(old[a]) = n /\ last = old[a][n]
        /\ \A i \in 1 .. Len(archs) : i # a => new[i] = old[i]
    BY <1>n, <1>l, <1>1, <1>2, <2>4, <2>5
  <2>7. /\ Len(new[a]) = n - 1
        /\ \A i \in 1 .. (n - 1) :
             new[a][i] = IF i = row THEN last ELSE old[a][i]
    <3>1. new[a] = bs[a].entities /\ old[a] = archs[a].entities
      BY <1>1, <2>4, <2>5
    <3> QED
      BY <1>l, <1>2, <3>1
  <2>9. \A d \in live : d # e /\ ~(row < n /\ d = last)
                          => end[d.index] = where[d.index]
    BY <1>6
  <2>10. RowLeaves(Len(archs), old, new, live, where, end, e, a, n, row, last)
    BY <1>a, <1>b, <1>e, <1>1, <1>2, <1>5, <2>3, <2>6, <2>7, <2>9 DEF RowLeaves
  <2>11. Placed(Len(bs), new, end, live \ {e})
    BY <1>2, <2>10, PlacedRemove
  <2> QED
    BY <2>2, <2>11, RowsExactIsPlaced
<1>8. \A i \in Slots : \/ end[i] = start[i]
                       \/ i # e.index /\ end[i].arch = a /\ start[i].arch = a
  <2>1. row < n => start[last.index].arch = a
    BY <1>a, <1>3, <1>4
  <2> QED
    BY <1>4, <1>5, <2>1
<1> QED
  BY <1>2, <1>5, <1>7, <1>8 DEF RowGone

\* World::spawn and the end of move_entity_to_archetype: the entity's row is
\* the new last row of the archetype.
RowPushed(bs, end, archs, where, live, e, a, comps, start) ==
  /\ live \in SUBSET Entity
  /\ Indexed(archs)
  /\ RowsExact(archs, where, live)
  /\ e \in Entity
  /\ \A d \in live : d.index # e.index
  /\ a \in 1 .. Len(archs)
  /\ comps \in Component(archs[a].key)
  /\ start \in [Slots -> Location]
  /\ \A i \in Slots : i # e.index => start[i] = where[i]
  /\ bs = [archs EXCEPT ![a] = PushRow(archs[a], e, comps)]
  /\ end = Place(start, e, a, Len(archs[a].entities) + 1)

\* A row pushed for an entity that had none, and its location set, leave the
\* index exact with the entity.
LEMMA PushRowRows ==
  ASSUME NEW bs, NEW end, NEW archs, NEW where, NEW live, NEW e, NEW a,
         NEW comps, NEW start,
         RowPushed(bs, end, archs, where, live, e, a, comps, start)
  PROVE  /\ Indexed(bs)
         /\ end \in [Slots -> Location]
         /\ end[e.index].arch = a /\ a # 0
         /\ \A i \in Slots : i # e.index => end[i] = start[i]
         /\ RowsExact(bs, end, live \union {e})
<1>a. /\ live \in SUBSET Entity /\ e \in Entity
      /\ \A d \in live : d.index # e.index
      /\ \A i \in Slots : i # e.index => start[i] = where[i]
  BY DEF RowPushed
<1>b. start \in [Slots -> Location]
  BY DEF RowPushed
<1>c. RowsExact(archs, where, live) /\ a \in 1 .. Len(archs)
  BY DEF RowPushed
<1>d. end = Place(start, e, a, Len(archs[a].entities) + 1)
  BY DEF RowPushed
<1>n. PICK n : n = Len(archs[a].entities)
  OBVIOUS
<1>1. /\ Indexed(bs)
      /\ Len(archs) \in Nat /\ n \in Nat
      /\ Len(bs) = Len(archs)
      /\ \A i \in 1 .. Len(archs) : i # a => bs[i] = archs[i]
      /\ Len(bs[a].entities) = n + 1
      /\ \A i \in 1 .. n : bs[a].entities[i] = archs[a].entities[i]
      /\ bs[a].entities[n + 1] = e
  <2>1. PushesRow(bs, archs, a, n, e, comps)
    BY <1>n DEF RowPushed, PushesRow
  <2> QED
    BY <2>1, PushRowVector
<1>2. e.index \in Slots /\ e.generation \in Nat
  BY <1>a DEF Entity
<1>3. /\ end \in [Slots -> Location]
      /\ end[e.index].arch = a
      /\ end[e.index].row = n + 1
      /\ end[e.index].generation = e.generation
      /\ \A i \in Slots : i # e.index => end[i] = start[i]
  <2>1. PICK new : new = [arch |-> a, row |-> n + 1,
                          generation |-> e.generation]
    OBVIOUS
  <2>2. /\ new.arch = a /\ new.row = n + 1 /\ new.generation = e.generation
        /\ new \in Location
    BY <1>c, <1>1, <1>2, <2>1 DEF Location
  <2>3. end = [start EXCEPT ![e.index] = new]
    BY <1>d, <1>n, <2>1 DEF Place
  <2>4. /\ end \in [Slots -> Location]
        /\ end[e.index] = new
        /\ \A i \in Slots : i # e.index => end[i] = start[i]
    BY <1>b, <1>2, <2>2, <2>3, LocationWritten
  <2> QED
    BY <2>2, <2>4
<1>4. \A d \in live : end[d.index] = where[d.index]
  BY <1>a, <1>3 DEF Entity
<1>5. RowsExact(bs, end, live \union {e})
  <2>1. PICK old : old = RowsOf(archs)
    OBVIOUS
  <2>2. PICK new : new = RowsOf(bs)
    OBVIOUS
  <2>3. Placed(Len(archs), old, where, live)
    BY <1>c, <2>1, RowsExactIsPlaced
  <2>4. \A i \in 1 .. Len(archs) : old[i] = archs[i].entities
    BY <2>1 DEF RowsOf
  <2>5. \A i \in 1 .. Len(archs) : new[i] = bs[i].entities
    BY <1>1, <2>2 DEF RowsOf
  <2>6. Len(old[a]) = n /\ \A i \in 1 .. Len(archs) : i # a => new[i] = old[i]
    BY <1>c, <1>n, <1>1, <2>4, <2>5
  <2>7. /\ Len(new[a]) = n + 1
        /\ \A i \in 1 .. n : new[a][i] = old[a][i]
        /\ new[a][n + 1] = e
    <3>1. new[a] = bs[a].entities /\ old[a] = archs[a].entities
      BY <1>c, <2>4, <2>5
    <3> QED
      BY <1>1, <3>1
  <2>8. RowJoins(Len(archs), old, new, live, where, end, e, a, n)
    BY <1>c, <1>1, <1>3, <1>4, <2>3, <2>6, <2>7 DEF RowJoins
  <2>9. Placed(Len(bs), new, end, live \union {e})
    BY <1>1, <2>8, PlacedPush
  <2> QED
    BY <2>2, <2>9, RowsExactIsPlaced
<1>6. a # 0
  BY <1>c
<1> QED
  BY <1>1, <1>3, <1>5, <1>6

-----------------------------------------------------------------------------
(* What the cells of a row hold.                                           *)

\* The component values of an entity, read where its location says.
Cells(archs, where, e) ==
  [c \in archs[where[e.index].arch].key |->
     archs[where[e.index].arch].columns[c][where[e.index].row]]

\* Row r of archetype i of bs is row s of archetype i of archs.
SameRow(bs, archs, i, r, s) ==
  /\ i \in 1 .. Len(archs)
  /\ s \in 1 .. Len(archs[i].entities)
  /\ archs[i].entities[s] = bs[i].entities[r]
  /\ archs[i].key = bs[i].key
  /\ \A c \in bs[i].key : bs[i].columns[c][r] = archs[i].columns[c][s]

\* Every row of bs but that of e comes, with all its cells, from archs.
Carries(bs, archs, e) ==
  \A i \in 1 .. Len(bs) : \A r \in 1 .. Len(bs[i].entities) :
    bs[i].entities[r] # e => \E s : SameRow(bs, archs, i, r, s)

\* Rows that are carried over keep the cells of their entities, wherever the
\* rows have gone.
LEMMA CellsCarried ==
  ASSUME NEW archs, NEW bs, NEW where, NEW end, NEW old, NEW new, NEW e,
         RowsExact(archs, where, old), RowsExact(bs, end, new),
         Carries(bs, archs, e), NEW d \in old \cap new, d # e
  PROVE  Cells(bs, end, d) = Cells(archs, where, d)
<1>1. PICK i : i = end[d.index].arch
  OBVIOUS
<1>2. PICK r : r = end[d.index].row
  OBVIOUS
<1>3. /\ i \in 1 .. Len(bs) /\ r \in 1 .. Len(bs[i].entities)
      /\ bs[i].entities[r] = d
  BY <1>1, <1>2 DEF RowsExact
<1>4. PICK s : SameRow(bs, archs, i, r, s)
  BY <1>3 DEF Carries
<1>5. where[d.index].arch = i /\ where[d.index].row = s
  <2>1. /\ i \in 1 .. Len(archs) /\ s \in 1 .. Len(archs[i].entities)
        /\ archs[i].entities[s] = d
    BY <1>3, <1>4 DEF SameRow
  <2> QED
    BY <2>1 DEF RowsExact
<1>6. archs[i].key = bs[i].key
      /\ \A c \in bs[i].key : bs[i].columns[c][r] = archs[i].columns[c][s]
  BY <1>4 DEF SameRow
<1> QED
  BY <1>1, <1>2, <1>5, <1>6 DEF Cells

\* Rows carried over twice are carried over.
LEMMA CarriesTwice ==
  ASSUME NEW archs, NEW bs, NEW cs, NEW e,
         Carries(bs, archs, e), Carries(cs, bs, e)
  PROVE  Carries(cs, archs, e)
<1> SUFFICES ASSUME NEW i \in 1 .. Len(cs), NEW r \in 1 .. Len(cs[i].entities),
                    cs[i].entities[r] # e
             PROVE  \E s : SameRow(cs, archs, i, r, s)
  BY DEF Carries
<1>1. PICK t : SameRow(cs, bs, i, r, t)
  BY DEF Carries
<1>2. /\ i \in 1 .. Len(bs) /\ t \in 1 .. Len(bs[i].entities)
      /\ bs[i].entities[t] # e
  BY <1>1 DEF SameRow
<1>3. PICK s : SameRow(bs, archs, i, t, s)
  BY <1>2 DEF Carries
<1>4. SameRow(cs, archs, i, r, s)
  BY <1>1, <1>3 DEF SameRow
<1> QED
  BY <1>4

\* New archetypes and new transitions carry every row over.
LEMMA ExtendsCarries ==
  ASSUME NEW archs, NEW bs, Len(archs) \in Nat, Len(bs) \in Nat,
         Extends(bs, archs), NEW e
  PROVE  Carries(bs, archs, e)
<1> SUFFICES ASSUME NEW i \in 1 .. Len(bs), NEW r \in 1 .. Len(bs[i].entities)
             PROVE  SameRow(bs, archs, i, r, r)
  BY DEF Carries
<1>1. i \in 1 .. Len(archs)
  <2>1. CASE i > Len(archs)
    <3>1. bs[i].entities = <<>>
      BY <2>1 DEF Extends
    <3> QED
      BY <3>1
  <2> QED
    BY <2>1
<1> QED
  BY <1>1 DEF SameRow, Extends

\* remove_row_swap_remove carries the remaining rows over, the last one to the
\* place of the removed one, in every column alike.
LEMMA RemoveCarries ==
  ASSUME NEW bs, NEW archs, NEW a, NEW n, NEW row, NEW e,
         RemovesRow(bs, archs, a, n, row)
  PROVE  Carries(bs, archs, e)
<1>1. /\ Len(archs) \in Nat /\ n \in Nat
      /\ Len(bs) = Len(archs)
      /\ bs[a].key = archs[a].key
      /\ \A i \in 1 .. Len(archs) : i # a => bs[i] = archs[i]
      /\ Len(bs[a].entities) = n - 1
      /\ \A i \in 1 .. (n - 1) :
           bs[a].entities[i] = IF i = row THEN archs[a].entities[n]
                                          ELSE archs[a].entities[i]
  BY RemoveRowVector
<1>2. /\ a \in 1 .. Len(archs) /\ n = Len(archs[a].entities) /\ row \in 1 .. n
      /\ bs = [archs EXCEPT ![a] = RemoveRow(archs[a], row)]
      /\ archs \in Seq(ArchetypeType)
      /\ archs[a] \in ArchetypeType /\ Aligned(archs[a])
  BY DEF RemovesRow, Indexed, Archetypes
<1>3. ASSUME NEW c \in archs[a].key, NEW r \in 1 .. (n - 1)
      PROVE  bs[a].columns[c][r] = IF r = row THEN archs[a].columns[c][n]
                                              ELSE archs[a].columns[c][r]
  <2>1. c \in Components /\ archs[a].columns[c] \in Seq(Values)
    BY <1>2 DEF ArchetypeType
  <2>2. Len(archs[a].columns[c]) = n
    BY <1>2, <2>1 DEF Aligned
  <2>3. bs[a] = RemoveRow(archs[a], row)
    BY <1>2
  <2>4. bs[a].columns[c] = SwapRemove(archs[a].columns[c], row)
    BY <2>1, <2>3 DEF RemoveRow
  <2>5. row \in Nat
    BY <1>1, <1>2
  <2>6. PICK col \in Seq(Values) : col = archs[a].columns[c]
    BY <2>1
  <2>7. \A i \in 1 .. (Len(col) - 1) :
          SwapRemove(col, row)[i] = IF i = row THEN col[Len(col)] ELSE col[i]
    BY <2>5, SwapRemoveIs
  <2> QED
    BY <2>2, <2>4, <2>6, <2>7
<1> SUFFICES ASSUME NEW i \in 1 .. Len(bs), NEW r \in 1 .. Len(bs[i].entities)
             PROVE  \E s : SameRow(bs, archs, i, r, s)
  BY DEF Carries
<1>4. CASE i # a
  <2>1. SameRow(bs, archs, i, r, r)
    BY <1>1, <1>4 DEF SameRow
  <2> QED
    BY <2>1
<1>5. CASE i = a
  <2>1. r \in 1 .. (n - 1)
    BY <1>1, <1>5
  <2>2. PICK s : s = IF r = row THEN n ELSE r
    OBVIOUS
  <2>3. s \in 1 .. n
    BY <1>1, <1>2, <2>1, <2>2
  <2>4. archs[a].entities[s] = bs[a].entities[r]
    BY <1>1, <2>1, <2>2
  <2>5. \A c \in bs[a].key : bs[a].columns[c][r] = archs[a].columns[c][s]
    BY <1>1, <1>3, <2>1, <2>2
  <2>6. SameRow(bs, archs, i, r, s)
    BY <1>1, <1>2, <1>5, <2>3, <2>4, <2>5 DEF SameRow
  <2> QED
    BY <2>6
<1> QED
  BY <1>4, <1>5

\* push_row carries the rows there were over and adds one with the given values.
LEMMA PushCarries ==
  ASSUME NEW bs, NEW archs, NEW a, NEW n, NEW e, NEW comps,
         PushesRow(bs, archs, a, n, e, comps)
  PROVE  /\ Carries(bs, archs, e)
         /\ \A c \in archs[a].key : bs[a].columns[c][n + 1] = comps[c]
<1>1. /\ Len(archs) \in Nat /\ n \in Nat
      /\ Len(bs) = Len(archs)
      /\ bs[a].key = archs[a].key
      /\ \A i \in 1 .. Len(archs) : i # a => bs[i] = archs[i]
      /\ Len(bs[a].entities) = n + 1
      /\ \A i \in 1 .. n : bs[a].entities[i] = archs[a].entities[i]
      /\ bs[a].entities[n + 1] = e
  BY PushRowVector
<1>2. /\ a \in 1 .. Len(archs) /\ n = Len(archs[a].entities)
      /\ bs = [archs EXCEPT ![a] = PushRow(archs[a], e, comps)]
      /\ archs \in Seq(ArchetypeType)
      /\ archs[a] \in ArchetypeType /\ Aligned(archs[a])
      /\ comps \in Component(archs[a].key)
  BY DEF PushesRow, Indexed, Archetypes
<1>3. ASSUME NEW c \in archs[a].key
      PROVE  /\ bs[a].columns[c][n + 1] = comps[c]
             /\ \A r \in 1 .. n : bs[a].columns[c][r] = archs[a].columns[c][r]
  <2>1. c \in Components /\ archs[a].columns[c] \in Seq(Values)
    BY <1>2 DEF ArchetypeType
  <2>2. Len(archs[a].columns[c]) = n
    BY <1>2, <2>1 DEF Aligned
  <2>3. bs[a] = PushRow(archs[a], e, comps)
    BY <1>2
  <2>4. bs[a].columns[c] = Append(archs[a].columns[c], comps[c])
    BY <2>1, <2>3 DEF PushRow
  <2>5. comps[c] \in Values
    BY <1>2 DEF Component
  <2>6. PICK col : col = archs[a].columns[c]
    OBVIOUS
  <2>7. /\ \A r \in 1 .. Len(col) : Append(col, comps[c])[r] = col[r]
        /\ Append(col, comps[c])[Len(col) + 1] = comps[c]
    BY <2>1, <2>5, <2>6, AppendIs
  <2> QED
    BY <2>2, <2>4, <2>6, <2>7
<1>4. ASSUME NEW i \in 1 .. Len(bs), NEW r \in 1 .. Len(bs[i].entities),
             bs[i].entities[r] # e
      PROVE  SameRow(bs, archs, i, r, r)
  <2>1. CASE i # a
    BY <1>1, <2>1 DEF SameRow
  <2>2. CASE i = a
    <3>1. r \in 1 .. n
      BY <1>1, <1>4, <2>2
    <3> QED
      BY <1>1, <1>2, <1>3, <2>2, <3>1 DEF SameRow
  <2> QED
    BY <2>1, <2>2
<1> QED
  BY <1>3, <1>4 DEF Carries

\* bs is archs with the cell of component c in the row of e overwritten.
WritesCell(bs, archs, a, c, row, v, e) ==
  /\ archs \in Seq(ArchetypeType)
  /\ a \in 1 .. Len(archs)
  /\ c \in archs[a].key
  /\ row \in 1 .. Len(archs[a].entities)
  /\ archs[a].entities[row] = e
  /\ Aligned(archs[a])
  /\ bs = [archs EXCEPT ![a] = WriteCell(archs[a], c, row, v)]

\* set_field changes one cell, in the row of its entity.
LEMMA WriteCarries ==
  ASSUME NEW bs, NEW archs, NEW a, NEW c, NEW row, NEW v, NEW e,
         WritesCell(bs, archs, a, c, row, v, e)
  PROVE  /\ Carries(bs, archs, e)
         /\ bs[a].key = archs[a].key
         /\ \A k \in archs[a].key :
              bs[a].columns[k][row] = IF k = c THEN v ELSE archs[a].columns[k][row]
<1>0. /\ archs \in Seq(ArchetypeType) /\ a \in 1 .. Len(archs)
      /\ c \in archs[a].key /\ row \in 1 .. Len(archs[a].entities)
      /\ archs[a].entities[row] = e /\ Aligned(archs[a])
      /\ bs = [archs EXCEPT ![a] = WriteCell(archs[a], c, row, v)]
  BY DEF WritesCell
<1>1. /\ bs[a] = WriteCell(archs[a], c, row, v) /\ Len(bs) = Len(archs)
      /\ \A i \in 1 .. Len(archs) : i # a => bs[i] = archs[i]
  BY <1>0
<1>2. /\ bs[a].key = archs[a].key /\ bs[a].entities = archs[a].entities
      /\ bs[a].columns = [archs[a].columns EXCEPT ![c] =
                            [archs[a].columns[c] EXCEPT ![row] = v]]
  BY <1>1 DEF WriteCell
<1>3. archs[a] \in ArchetypeType
  BY <1>0
<1>4. archs[a].columns \in [Components -> Seq(Values)]
      /\ archs[a].key \subseteq Components
  BY <1>3 DEF ArchetypeType
<1>5. archs[a].columns[c] \in Seq(Values)
      /\ Len(archs[a].columns[c]) = Len(archs[a].entities)
  BY <1>0, <1>4 DEF Aligned
<1>6. ASSUME NEW k \in archs[a].key
      PROVE  /\ bs[a].columns[k][row] = IF k = c THEN v
                                        ELSE archs[a].columns[k][row]
             /\ \A r \in 1 .. Len(archs[a].entities) :
                  r # row => bs[a].columns[k][r] = archs[a].columns[k][r]
  <2>1. CASE k # c
    BY <1>0, <1>2, <1>4, <2>1
  <2>2. CASE k = c
    <3>1. bs[a].columns[c] = [archs[a].columns[c] EXCEPT ![row] = v]
      BY <1>0, <1>2, <1>4
    <3> QED
      BY <1>0, <1>5, <2>2, <3>1
  <2> QED
    BY <2>1, <2>2
<1>7. ASSUME NEW i \in 1 .. Len(bs), NEW r \in 1 .. Len(bs[i].entities),
             bs[i].entities[r] # e
      PROVE  SameRow(bs, archs, i, r, r)
  <2>1. CASE i # a
    BY <1>0, <1>1, <2>1 DEF SameRow
  <2>2. CASE i = a
    <3>1. r # row
      BY <1>0, <1>2, <1>7, <2>2
    <3> QED
      BY <1>0, <1>1, <1>2, <1>6, <2>2, <3>1 DEF SameRow
  <2> QED
    BY <2>1, <2>2
<1> QED
  BY <1>2, <1>6, <1>7 DEF Carries

-----------------------------------------------------------------------------
(* The invariant of the storage core.                                      *)

\* The allocator and what is indexed by its slots.
AllocatorInv ==
  /\ slotCount \in 0 .. MaxSlots
  /\ generations \in [Slots -> Nat]
  /\ alive \in [Slots -> BOOLEAN]
  /\ free \in Seq(Slots)
  /\ AllocatorExact
  /\ order = {HandleIn(i) : i \in {j \in Slots : alive[j]}}

\* The archetypes and the location index.
StorageInv ==
  /\ Indexed(arch)
  /\ loc \in [Slots -> Location]
  /\ RowsExact(arch, loc, order)

\* A slot has a location when it is alive and tags only then.
SlotInv ==
  /\ \A i \in Slots : alive[i] <=> loc[i].arch # 0
  /\ slotTags \in [Slots -> SUBSET Tags]
  /\ \A i \in Slots : ~alive[i] => slotTags[i] = {}

\* The inductive invariant, the parts of which are the invariants the runs
\* check, regrouped by what a step of World changes together.
IInv == AllocatorInv /\ StorageInv /\ SlotInv

\* IInv is the conjunction of the checked invariants.
LEMMA IInvGives ==
  ASSUME IInv
  PROVE  /\ TypeOK /\ AllocatorExact /\ LocationsExact
         /\ ColumnsAligned /\ TransitionsExact /\ SlotIndexesExact
<1>1. arch \in Seq(ArchetypeType) /\ ColumnsAligned /\ TransitionsExact
  BY DEF IInv, StorageInv, Indexed, Archetypes, ColumnsAligned, TransitionsExact
<1>2. order \subseteq Entity
  BY DEF IInv, AllocatorInv, HandleIn, Entity
<1>3. TypeOK
  BY <1>1, <1>2 DEF TypeOK, IInv, AllocatorInv, StorageInv, SlotInv, Location
<1>4. LocationsExact
  BY DEF LocationsExact, IInv, StorageInv, SlotInv
<1>5. SlotIndexesExact /\ AllocatorExact
  BY DEF SlotIndexesExact, IInv, AllocatorInv, SlotInv
<1> QED
  BY <1>1, <1>3, <1>4, <1>5

\* A handle in entity_order is the current handle of a live slot.
LEMMA LiveHandles ==
  ASSUME AllocatorInv
  PROVE  /\ order \in SUBSET Entity
         /\ OnePerSlot(order)
         /\ \A e \in order : /\ e.index \in Slots
                             /\ alive[e.index]
                             /\ e.index < slotCount
                             /\ e.generation = generations[e.index]
<1>1. \A e \in order : \E i \in Slots : alive[i] /\ e = HandleIn(i)
  BY DEF AllocatorInv
<1>2. \A i \in Slots : HandleIn(i) \in Entity /\ HandleIn(i).index = i
                       /\ HandleIn(i).generation = generations[i]
  BY DEF AllocatorInv, HandleIn, Entity
<1>3. \A i \in Slots : alive[i] => i < slotCount
  <2>1. \A i \in Slots : i \in Nat /\ (i >= slotCount => ~alive[i])
    BY DEF AllocatorInv, AllocatorExact, Slots
  <2> QED
    BY <2>1 DEF AllocatorInv
<1> QED
  BY <1>1, <1>2, <1>3 DEF OnePerSlot

-----------------------------------------------------------------------------
(* The allocator.                                                          *)

\* The live entities are finitely many: the slots are.
LEMMA FiniteOrder == ASSUME AllocatorInv PROVE IsFiniteSet(order)
<1>1. IsFiniteSet(Slots)
  <2>1. MaxSlots - 1 \in Int
    BY WorldAssumption
  <2> QED
    BY <2>1, FS_Interval DEF Slots
<1>2. PICK where : where = [e \in order |-> e.index]
  OBVIOUS
<1>3. where \in Injection(order, Slots)
  BY <1>2, LiveHandles DEF OnePerSlot, Injection, IsInjective
<1> QED
  BY <1>1, <1>3, FS_Injection

\* EntityAllocator::spawn hands out a slot nobody lives in.
LEMMA NextHandleIsFresh ==
  ASSUME AllocatorInv, AllocatorSpawn, NEW e, e = NextHandle
  PROVE  /\ e \in Entity /\ e.index \in Slots
         /\ ~alive[e.index]
         /\ \A d \in order : d.index # e.index
<1>1. CASE free # <<>>
  <2>1. Len(free) \in 1 .. Len(free)
    BY <1>1 DEF AllocatorInv
  <2>2. free[Len(free)] \in Slots /\ ~alive[free[Len(free)]]
    BY <2>1 DEF AllocatorInv, AllocatorExact
  <2>3. e = [index |-> free[Len(free)], generation |-> generations[free[Len(free)]]]
    BY <1>1 DEF NextHandle
  <2>4. e.index \in Slots /\ ~alive[e.index] /\ e \in Entity
    BY <2>2, <2>3 DEF AllocatorInv, Entity
  <2> QED
    BY <2>4, LiveHandles
<1>2. CASE free = <<>>
  <2>1. e = [index |-> slotCount, generation |-> 0]
    BY <1>2 DEF NextHandle
  <2>2. slotCount \in Slots /\ slotCount >= slotCount
    BY <1>2, WorldAssumption DEF AllocatorSpawn, AllocatorInv, Slots
  <2>3. ~alive[slotCount]
    BY <2>2 DEF AllocatorInv, AllocatorExact
  <2>4. e.index \in Slots /\ ~alive[e.index] /\ e \in Entity
    BY <2>1, <2>2, <2>3 DEF Entity
  <2> QED
    BY <2>4, LiveHandles
<1> QED
  BY <1>1, <1>2

\* EntityAllocator::spawn makes one dead slot live, under the handle that
\* enters entity_order, and takes it off the free list.
LEMMA SpawnAllocates ==
  ASSUME AllocatorInv, AllocatorSpawn, NEW e, e = NextHandle,
         order' = order \union {e}
  PROVE  /\ AllocatorInv'
         /\ \A i \in Slots : alive'[i] <=> alive[i] \/ i = e.index
<1>1. e \in Entity /\ e.index \in Slots /\ ~alive[e.index]
  BY NextHandleIsFresh
<1>2. /\ alive' = [alive EXCEPT ![e.index] = TRUE]
      /\ alive' \in [Slots -> BOOLEAN]
      /\ \A i \in Slots : alive'[i] <=> alive[i] \/ i = e.index
  BY <1>1 DEF AllocatorInv, AllocatorSpawn
<1>3. CASE free # <<>>
  <2>1. /\ free' = SubSeq(free, 1, Len(free) - 1)
        /\ slotCount' = slotCount /\ generations' = generations
    BY <1>3 DEF AllocatorSpawn
  <2>2. /\ e.index = free[Len(free)]
        /\ e.generation = generations[e.index]
    BY <1>3 DEF NextHandle
  <2>3. PICK n \in Nat : Len(free) = n + 1
    <3>1. Len(free) \in Nat /\ Len(free) # 0
      BY <1>3 DEF AllocatorInv
    <3>2. Len(free) - 1 \in Nat /\ Len(free) = (Len(free) - 1) + 1
      BY <3>1
    <3> QED
      BY <3>2
  <2>4. /\ free' \in Seq(Slots) /\ Len(free') = n
        /\ \A k \in 1 .. n : free'[k] = free[k]
    BY <2>1, <2>3 DEF AllocatorInv
  <2>5. AllocatorExact'
    <3>1. /\ {free[k] : k \in 1 .. (n + 1)}
               = {i \in Slots : i < slotCount /\ ~alive[i]}
          /\ \A j, k \in 1 .. (n + 1) : free[j] = free[k] => j = k
          /\ \A i \in Slots : i >= slotCount => ~alive[i]
          /\ free[n + 1] = e.index
      BY <2>2, <2>3 DEF AllocatorInv, AllocatorExact
    <3>2. \A j, k \in 1 .. n : free'[j] = free'[k] => j = k
      BY <2>4, <3>1
    <3>3. {free'[k] : k \in 1 .. n}
            = {i \in Slots : i < slotCount /\ ~alive[i] /\ i # e.index}
      <4>1. \A k \in 1 .. n : free[k] # e.index
        BY <3>1
      <4>2. ASSUME NEW i \in {free'[k] : k \in 1 .. n}
            PROVE  i \in Slots /\ i < slotCount /\ ~alive[i] /\ i # e.index
        <5>1. PICK k \in 1 .. n : i = free[k]
          BY <2>4
        <5>2. k \in 1 .. (n + 1)
          OBVIOUS
        <5> QED
          BY <3>1, <4>1, <5>1, <5>2
      <4>3. ASSUME NEW i \in Slots, i < slotCount, ~alive[i], i # e.index
            PROVE  i \in {free'[k] : k \in 1 .. n}
        <5>1. PICK k \in 1 .. (n + 1) : i = free[k]
          BY <3>1, <4>3
        <5>2. k \in 1 .. n
          BY <3>1, <4>3, <5>1
        <5> QED
          BY <2>4, <5>1, <5>2
      <4> QED
        BY <4>2, <4>3
    <3>4. {i \in Slots : i < slotCount /\ ~alive[i] /\ i # e.index}
            = {i \in Slots : i < slotCount' /\ ~alive'[i]}
      BY <1>2, <2>1
    <3>5. \A i \in Slots : i >= slotCount' => ~alive'[i]
      <4>1. e.index < slotCount /\ e.index \in Nat
        BY <3>1, <1>1 DEF Slots
      <4> QED
        BY <1>2, <2>1, <3>1, <4>1 DEF AllocatorInv
    <3> QED
      BY <2>4, <3>2, <3>3, <3>4, <3>5 DEF AllocatorExact
  <2>6. order' = {HandleIn(i)' : i \in {j \in Slots : alive'[j]}}
    <3>1. e = HandleIn(e.index)
      BY <1>1, <2>2 DEF HandleIn, Entity
    <3>2. \A i \in Slots : HandleIn(i)' = HandleIn(i)
      BY <2>1 DEF HandleIn
    <3>3. order = {HandleIn(i) : i \in {j \in Slots : alive[j]}}
      BY DEF AllocatorInv
    <3> QED
      BY <1>1, <1>2, <3>1, <3>2, <3>3
  <2> QED
    BY <1>2, <2>1, <2>4, <2>5, <2>6 DEF AllocatorInv
<1>4. CASE free = <<>>
  <2>1. /\ free' = free /\ slotCount' = slotCount + 1
        /\ generations' = [generations EXCEPT ![e.index] = 0]
        /\ slotCount < MaxSlots
    BY <1>4 DEF AllocatorSpawn
  <2>2. e.index = slotCount /\ e.generation = 0
    BY <1>4 DEF NextHandle
  <2>3. /\ generations' \in [Slots -> Nat]
        /\ generations'[e.index] = 0
        /\ \A i \in Slots : i # e.index => generations'[i] = generations[i]
    BY <1>1, <2>1 DEF AllocatorInv
  <2>4. slotCount' \in 0 .. MaxSlots /\ free' \in Seq(Slots)
    BY <2>1, WorldAssumption DEF AllocatorInv
  <2>5. AllocatorExact'
    <3>1. Len(free) = 0 /\ 1 .. Len(free) = {}
      BY <1>4
    <3>2. \A i \in Slots : i < slotCount => alive[i]
      BY <3>1 DEF AllocatorInv, AllocatorExact
    <3>3. \A i \in Slots : i >= slotCount => ~alive[i]
      BY DEF AllocatorInv, AllocatorExact
    <3>4. \A i \in Slots : i < slotCount + 1 => i < slotCount \/ i = slotCount
      BY DEF Slots, AllocatorInv
    <3>5. {i \in Slots : i < slotCount' /\ ~alive'[i]} = {}
      BY <1>2, <2>1, <2>2, <3>2, <3>4
    <3>6. \A i \in Slots : i >= slotCount' => i >= slotCount /\ i # slotCount
      BY <2>1 DEF Slots, AllocatorInv
    <3>7. \A i \in Slots : i >= slotCount' => ~alive'[i]
      BY <1>2, <2>2, <3>3, <3>6
    <3> QED
      BY <2>1, <3>1, <3>5, <3>7 DEF AllocatorExact
  <2>6. order' = {HandleIn(i)' : i \in {j \in Slots : alive'[j]}}
    <3>1. e = HandleIn(e.index)'
      BY <1>1, <2>2, <2>3 DEF HandleIn, Entity
    <3>2. \A i \in Slots : i # e.index => HandleIn(i)' = HandleIn(i)
      BY <2>3 DEF HandleIn
    <3>3. order = {HandleIn(i) : i \in {j \in Slots : alive[j]}}
      BY DEF AllocatorInv
    <3> QED
      BY <1>1, <1>2, <3>1, <3>2, <3>3
  <2> QED
    BY <1>2, <2>3, <2>4, <2>5, <2>6 DEF AllocatorInv
<1> QED
  BY <1>2, <1>3, <1>4

\* EntityAllocator::despawn frees a live slot once, under a new generation.
LEMMA DespawnFrees ==
  ASSUME AllocatorInv, NEW e \in order, AllocatorDespawn(e),
         order' = order \ {e}
  PROVE  /\ AllocatorInv'
         /\ \A i \in Slots : alive'[i] <=> alive[i] /\ i # e.index
<1>1. /\ e \in Entity /\ e.index \in Slots /\ alive[e.index]
      /\ e.index < slotCount /\ e.generation = generations[e.index]
  BY LiveHandles
<1>2. /\ alive' \in [Slots -> BOOLEAN]
      /\ \A i \in Slots : alive'[i] <=> alive[i] /\ i # e.index
  BY <1>1 DEF AllocatorInv, AllocatorDespawn
<1>3. /\ generations' \in [Slots -> Nat]
      /\ \A i \in Slots : i # e.index => generations'[i] = generations[i]
      /\ slotCount' = slotCount
  BY <1>1 DEF AllocatorInv, AllocatorDespawn
<1>4. PICK n : n = Len(free)
  OBVIOUS
<1>5. n \in Nat /\ free \in Seq(Slots)
  BY <1>4 DEF AllocatorInv
<1>6. /\ free' \in Seq(Slots) /\ Len(free') = n + 1
      /\ \A k \in 1 .. n : free'[k] = free[k]
      /\ free'[n + 1] = e.index
  <2>1. free' = Append(free, e.index)
    BY DEF AllocatorDespawn
  <2> QED
    BY <1>1, <1>4, <1>5, <2>1, AppendIs
<1>7. /\ {free[k] : k \in 1 .. n}
           = {i \in Slots : i < slotCount /\ ~alive[i]}
      /\ \A j, k \in 1 .. n : free[j] = free[k] => j = k
      /\ \A i \in Slots : i >= slotCount => ~alive[i]
  BY <1>4 DEF AllocatorInv, AllocatorExact
<1>8. \A k \in 1 .. n : free[k] # e.index
  BY <1>1, <1>7
<1>9. AllocatorExact'
  <2>1. \A k \in 1 .. (n + 1) : k \in 1 .. n \/ k = n + 1
    BY <1>5
  <2>2. \A j, k \in 1 .. (n + 1) : free'[j] = free'[k] => j = k
    BY <1>6, <1>7, <1>8, <2>1
  <2>3. {free'[k] : k \in 1 .. (n + 1)}
          = {i \in Slots : i < slotCount' /\ ~alive'[i]}
    <3>1. ASSUME NEW k \in 1 .. (n + 1)
          PROVE  /\ free'[k] \in Slots /\ free'[k] < slotCount'
                 /\ ~alive'[free'[k]]
      <4>1. CASE k \in 1 .. n
        BY <1>2, <1>3, <1>6, <1>7, <4>1
      <4>2. CASE k = n + 1
        BY <1>1, <1>2, <1>3, <1>6, <4>2
      <4> QED
        BY <2>1, <4>1, <4>2
    <3>2. ASSUME NEW i \in Slots, i < slotCount', ~alive'[i]
          PROVE  \E k \in 1 .. (n + 1) : i = free'[k]
      <4>1. CASE i = e.index
        <5>1. n + 1 \in 1 .. (n + 1)
          BY <1>5
        <5> QED
          BY <1>6, <4>1, <5>1
      <4>2. CASE i # e.index
        <5>1. PICK k \in 1 .. n : i = free[k]
          BY <1>2, <1>3, <1>7, <3>2, <4>2
        <5>2. k \in 1 .. (n + 1)
          BY <1>5
        <5> QED
          BY <1>6, <5>1, <5>2
      <4> QED
        BY <4>1, <4>2
    <3> QED
      BY <3>1, <3>2
  <2>4. \A i \in Slots : i >= slotCount' => ~alive'[i]
    BY <1>2, <1>3, <1>7
  <2> QED
    BY <1>6, <2>2, <2>3, <2>4 DEF AllocatorExact
<1>10. order' = {HandleIn(i)' : i \in {j \in Slots : alive'[j]}}
  <2>1. e = HandleIn(e.index)
    BY <1>1 DEF HandleIn, Entity
  <2>2. \A i \in Slots : i # e.index => HandleIn(i)' = HandleIn(i)
    BY <1>3 DEF HandleIn
  <2>3. order = {HandleIn(i) : i \in {j \in Slots : alive[j]}}
    BY DEF AllocatorInv
  <2>4. \A i \in Slots : HandleIn(i).index = i
    BY DEF HandleIn
  <2> QED
    BY <1>2, <2>1, <2>2, <2>3, <2>4
<1> QED
  BY <1>2, <1>3, <1>6, <1>9, <1>10 DEF AllocatorInv

-----------------------------------------------------------------------------
(* The storage.                                                            *)

\* The archetype and the row of a live entity.
LEMMA RowOfEntity ==
  ASSUME StorageInv, NEW e \in order
  PROVE  /\ loc[e.index].arch \in 1 .. Len(arch)
         /\ arch[loc[e.index].arch] \in ArchetypeType
         /\ GoodArchetype(arch[loc[e.index].arch])
         /\ loc[e.index].row \in 1 .. Len(arch[loc[e.index].arch].entities)
<1>1. /\ loc[e.index].arch \in 1 .. Len(arch)
      /\ loc[e.index].row \in 1 .. Len(arch[loc[e.index].arch].entities)
  BY DEF StorageInv, RowsExact
<1>2. /\ arch[loc[e.index].arch] \in ArchetypeType
      /\ Aligned(arch[loc[e.index].arch])
  BY <1>1 DEF StorageInv, Indexed, Archetypes
<1> QED
  BY <1>1, <1>2 DEF GoodArchetype

\* Spawn pushes the row of the new entity.
LEMMA SpawnStores ==
  ASSUME AllocatorInv, StorageInv,
         NEW K \in SUBSET Components, NEW comps \in Component(K),
         NEW tags \in SUBSET Tags, Spawn(comps, tags)
  PROVE  /\ StorageInv'
         /\ loc'[NextHandle.index].arch # 0
         /\ \A i \in Slots : i # NextHandle.index => loc'[i] = loc[i]
<1>1. PICK e : e = NextHandle
  OBVIOUS
<1>2. PICK archs : archs = EnsureArchetype(arch, K)
  OBVIOUS
<1>3. PICK a : a = ArchetypeOf(archs, K)
  OBVIOUS
<1>4. DOMAIN comps = K
  BY DEF Component
<1>5. /\ arch' = [archs EXCEPT ![a] = PushRow(archs[a], e, comps)]
      /\ loc' = Place(loc, e, a, Len(archs[a].entities) + 1)
      /\ order' = order \union {e}
      /\ AllocatorSpawn
  BY <1>1, <1>2, <1>3, <1>4 DEF Spawn
<1>6. /\ Indexed(archs) /\ Extends(archs, arch)
      /\ a \in 1 .. Len(archs) /\ archs[a].key = K
  BY <1>2, <1>3, EnsureArchetypeIs DEF StorageInv
<1>7. RowsExact(archs, loc, order)
  <2>1. Len(arch) \in Nat /\ Len(archs) \in Nat
    BY <1>6, LenProperties DEF StorageInv, Indexed, Archetypes
  <2> QED
    BY <1>6, <2>1, ExtendsRows DEF StorageInv
<1>8. e \in Entity /\ \A d \in order : d.index # e.index
  BY <1>1, <1>5, NextHandleIsFresh
<1>9. order \in SUBSET Entity
  BY LiveHandles
<1>10. loc \in [Slots -> Location]
  BY DEF StorageInv
<1>11. RowPushed(arch', loc', archs, loc, order, e, a, comps, loc)
  BY <1>5, <1>6, <1>7, <1>8, <1>9, <1>10 DEF RowPushed
<1>12. /\ Indexed(arch')
       /\ loc' \in [Slots -> Location]
       /\ loc'[e.index].arch = a /\ a # 0
       /\ \A i \in Slots : i # e.index => loc'[i] = loc[i]
       /\ RowsExact(arch', loc', order \union {e})
  BY <1>11, PushRowRows
<1> QED
  BY <1>1, <1>5, <1>12 DEF StorageInv

\* Despawn removes the row of the entity and repairs the one it displaces.
LEMMA DespawnRemovesRow ==
  ASSUME AllocatorInv, StorageInv, NEW e \in order, Despawn(e)
  PROVE  /\ StorageInv'
         /\ loc'[e.index].arch = 0
         /\ \A i \in Slots : i # e.index =>
              (loc'[i].arch = 0 <=> loc[i].arch = 0)
<1>1. PICK a : a = loc[e.index].arch
  OBVIOUS
<1>2. PICK row : row = loc[e.index].row
  OBVIOUS
<1>3. PICK start : start = [loc EXCEPT ![e.index] = NoLocation]
  OBVIOUS
<1>4. /\ arch' = [arch EXCEPT ![a] = RemoveRow(arch[a], row)]
      /\ loc' = RepairSwapped(arch[a].entities, a, row, start)
      /\ order' = order \ {e}
  BY <1>1, <1>2, <1>3 DEF Despawn
<1>5. order \in SUBSET Entity /\ OnePerSlot(order) /\ e.index \in Slots
  BY LiveHandles
<1>6. /\ start \in [Slots -> Location]
      /\ start[e.index] = NoLocation
      /\ \A i \in Slots : i # e.index => start[i] = loc[i]
  <2>1. loc \in [Slots -> Location] /\ NoLocation \in Location
    BY DEF StorageInv, NoLocation, Location
  <2> QED
    BY <1>3, <1>5, <2>1, LocationWritten
<1>7. RowRemoved(arch', loc', arch, loc, order, e, a, row, start)
  BY <1>1, <1>2, <1>4, <1>5, <1>6 DEF RowRemoved, StorageInv
<1>8. /\ Indexed(arch')
      /\ loc' \in [Slots -> Location]
      /\ \A i \in Slots :
           \/ loc'[i] = start[i]
           \/ i # e.index /\ loc'[i].arch = a /\ start[i].arch = a
      /\ RowsExact(arch', loc', order \ {e})
  <2>1. RowGone(arch', loc', arch, order, e, a, start)
    BY <1>7, RemoveRowRows
  <2> QED
    BY <2>1 DEF RowGone
<1>9. loc'[e.index].arch = 0
  BY <1>5, <1>6, <1>8 DEF NoLocation
<1>10. \A i \in Slots : i # e.index => (loc'[i].arch = 0 <=> loc[i].arch = 0)
  BY <1>6, <1>8
<1> QED
  BY <1>4, <1>8, <1>9, <1>10 DEF StorageInv

\* move_row_to gives the target a value for each of its columns.
LEMMA MovedTyped ==
  ASSUME NEW archs, NEW source, NEW target, NEW row,
         GoodArchetype(archs[source]), GoodArchetype(archs[target]),
         row \in 1 .. Len(archs[source].entities)
  PROVE  MovedComponents(archs, source, row, target)
           \in Component(archs[target].key)
<1>1. ASSUME NEW c \in archs[target].key, c \in archs[source].key
      PROVE  archs[source].columns[c][row] \in Values
  <2>1. c \in Components /\ archs[source].columns[c] \in Seq(Values)
    BY DEF GoodArchetype, ArchetypeType
  <2>2. Len(archs[source].columns[c]) = Len(archs[source].entities)
    BY <1>1, <2>1 DEF GoodArchetype, Aligned
  <2> QED
    BY <2>1, <2>2
<1> QED
  BY <1>1, WorldAssumption DEF MovedComponents, Component

\* move_entity_to_archetype moves the row of the entity to an archetype other
\* than its own.
LEMMA MoveStores ==
  ASSUME AllocatorInv, StorageInv, NEW e \in order, NEW key,
         key # arch[loc[e.index].arch].key,
         NEW transition, Leads(transition, arch, key),
         MoveEntity(e, transition), order' = order
  PROVE  /\ StorageInv'
         /\ \A i \in Slots : (loc'[i].arch = 0 <=> loc[i].arch = 0)
<1>1. PICK archs : archs = transition.archetypes
  OBVIOUS
<1>2. PICK target : target = transition.target
  OBVIOUS
<1>3. PICK source : source = loc[e.index].arch
  OBVIOUS
<1>4. PICK row : row = loc[e.index].row
  OBVIOUS
<1>5. PICK bs : bs = [archs EXCEPT ![source] = RemoveRow(archs[source], row)]
  OBVIOUS
<1>6. PICK middle :
        middle = RepairSwapped(archs[source].entities, source, row, loc)
  OBVIOUS
<1>7. PICK comps : comps = MovedComponents(archs, source, row, target)
  OBVIOUS
<1>8. /\ arch' = [bs EXCEPT ![target] = PushRow(bs[target], e, comps)]
      /\ loc' = Place(middle, e, target, Len(archs[target].entities) + 1)
  BY <1>1, <1>2, <1>3, <1>4, <1>5, <1>6, <1>7 DEF MoveEntity, MoveRow
<1>9. /\ Indexed(archs) /\ Extends(archs, arch)
      /\ target \in 1 .. Len(archs) /\ archs[target].key = key
  BY <1>1, <1>2 DEF Leads
<1>10. /\ order \in SUBSET Entity /\ OnePerSlot(order)
       /\ e \in Entity /\ e.index \in Slots
  BY LiveHandles
<1>11. loc \in [Slots -> Location] /\ RowsExact(archs, loc, order)
  <2>1. Len(arch) \in Nat /\ Len(archs) \in Nat
    BY <1>9, LenProperties DEF StorageInv, Indexed, Archetypes
  <2> QED
    BY <1>9, <2>1, ExtendsRows DEF StorageInv
<1>12. /\ source \in 1 .. Len(archs)
       /\ row \in 1 .. Len(archs[source].entities)
  BY <1>3, <1>4, <1>11 DEF RowsExact
<1>13. source # target
  <2>1. source \in 1 .. Len(arch)
    BY <1>3, RowOfEntity
  <2>2. archs[source].key = arch[source].key
    BY <1>9, <2>1 DEF Extends
  <2> QED
    BY <1>3, <1>9, <2>2
<1>14. RowRemoved(bs, middle, archs, loc, order, e, source, row, loc)
  BY <1>3, <1>4, <1>5, <1>6, <1>9, <1>10, <1>11 DEF RowRemoved
<1>15. /\ Indexed(bs)
       /\ Len(bs) = Len(archs)
       /\ \A i \in 1 .. Len(archs) : i # source => bs[i] = archs[i]
       /\ middle \in [Slots -> Location]
       /\ \A i \in Slots :
            \/ middle[i] = loc[i]
            \/ i # e.index /\ middle[i].arch = source /\ loc[i].arch = source
       /\ RowsExact(bs, middle, order \ {e})
  <2>1. RowGone(bs, middle, archs, order, e, source, loc)
    BY <1>14, RemoveRowRows
  <2> QED
    BY <2>1 DEF RowGone
<1>16. target \in 1 .. Len(bs) /\ bs[target] = archs[target]
  BY <1>9, <1>13, <1>15
<1>17. comps \in Component(bs[target].key)
  <2>1. GoodArchetype(archs[source]) /\ GoodArchetype(archs[target])
    BY <1>9, <1>12 DEF GoodArchetype, Indexed, Archetypes
  <2> QED
    BY <1>7, <1>12, <1>16, <2>1, MovedTyped
<1>18. RowPushed(arch', loc', bs, middle, order \ {e}, e, target, comps, middle)
  <2>1. \A d \in order \ {e} : d.index # e.index
    BY <1>10 DEF OnePerSlot
  <2>2. loc' = Place(middle, e, target, Len(bs[target].entities) + 1)
    BY <1>8, <1>16
  <2>3. order \ {e} \in SUBSET Entity
    BY <1>10
  <2> QED
    BY <1>8, <1>10, <1>15, <1>16, <1>17, <2>1, <2>2, <2>3 DEF RowPushed
<1>19. /\ Indexed(arch')
       /\ loc' \in [Slots -> Location]
       /\ loc'[e.index].arch = target /\ target # 0
       /\ \A i \in Slots : i # e.index => loc'[i] = middle[i]
       /\ RowsExact(arch', loc', (order \ {e}) \union {e})
  BY <1>18, PushRowRows
<1>20. (order \ {e}) \union {e} = order
  OBVIOUS
<1>21. StorageInv'
  BY <1>19, <1>20 DEF StorageInv
<1>22. source # 0
  BY <1>12
<1>23. \A i \in Slots : (loc'[i].arch = 0 <=> loc[i].arch = 0)
  BY <1>3, <1>10, <1>15, <1>19, <1>22
<1> QED
  BY <1>21, <1>23

\* One cell of one column is overwritten.
LEMMA WriteCellGood ==
  ASSUME NEW a, GoodArchetype(a), NEW c \in a.key,
         NEW row \in 1 .. Len(a.entities), NEW v \in Values
  PROVE  /\ GoodArchetype(WriteCell(a, c, row, v))
         /\ WriteCell(a, c, row, v).key = a.key
         /\ WriteCell(a, c, row, v).add = a.add
         /\ WriteCell(a, c, row, v).remove = a.remove
         /\ WriteCell(a, c, row, v).entities = a.entities
<1>1. /\ a.key \in SUBSET Components /\ a.entities \in Seq(Entity)
      /\ a.columns \in [Components -> Seq(Values)]
      /\ a.add \in [Components -> Nat] /\ a.remove \in [Components -> Nat]
      /\ c \in Components
  BY DEF GoodArchetype, ArchetypeType
<1>2. PICK col : col = a.columns[c]
  OBVIOUS
<1>3. col \in Seq(Values) /\ Len(col) = Len(a.entities)
  BY <1>1, <1>2 DEF GoodArchetype, Aligned
<1>4. PICK new : new = [col EXCEPT ![row] = v]
  OBVIOUS
<1>5. new \in Seq(Values) /\ Len(new) = Len(col)
  BY <1>3, <1>4, ExceptSeq
<1>6. PICK cols : cols = [a.columns EXCEPT ![c] = new]
  OBVIOUS
<1>7. /\ cols \in [Components -> Seq(Values)]
      /\ cols[c] = new
      /\ \A d \in Components : d # c => cols[d] = a.columns[d]
  BY <1>1, <1>5, <1>6
<1>8. PICK b : b = WriteCell(a, c, row, v)
  OBVIOUS
<1>9. b = [key |-> a.key, entities |-> a.entities, columns |-> cols,
           add |-> a.add, remove |-> a.remove]
  BY <1>2, <1>4, <1>6, <1>8 DEF WriteCell
<1>10. b \in ArchetypeType
  BY <1>1, <1>7, <1>9 DEF ArchetypeType
<1>11. Aligned(b)
  <2>1. \A d \in Components : Len(cols[d]) = Len(a.columns[d])
    BY <1>2, <1>5, <1>7
  <2> QED
    BY <1>9, <2>1 DEF GoodArchetype, Aligned
<1> QED
  BY <1>8, <1>9, <1>10, <1>11 DEF GoodArchetype

\* set_field leaves every row where it is.
LEMMA SetFieldStores ==
  ASSUME StorageInv, NEW e \in order, NEW c \in Components, NEW v \in Values,
         SetField(e, c, v)
  PROVE  StorageInv'
<1>1. PICK a : a = loc[e.index].arch
  OBVIOUS
<1>2. PICK row : row = loc[e.index].row
  OBVIOUS
<1>3. PICK b : b = WriteCell(arch[a], c, row, v)
  OBVIOUS
<1>4. /\ arch' = [arch EXCEPT ![a] = b] /\ c \in arch[a].key
      /\ loc' = loc /\ order' = order
  BY <1>1, <1>2, <1>3 DEF SetField
<1>5. /\ a \in 1 .. Len(arch) /\ GoodArchetype(arch[a])
      /\ row \in 1 .. Len(arch[a].entities)
  BY <1>1, <1>2, RowOfEntity
<1>6. /\ GoodArchetype(b) /\ b.key = arch[a].key
      /\ b.add = arch[a].add /\ b.remove = arch[a].remove
      /\ b.entities = arch[a].entities
  BY <1>3, <1>4, <1>5, WriteCellGood
<1>7. Replaced(arch', arch, a, b)
  BY <1>4, <1>5, <1>6 DEF Replaced, StorageInv
<1>8. /\ Indexed(arch')
      /\ Len(arch) \in Nat /\ Len(arch') = Len(arch)
      /\ \A i \in 1 .. Len(arch) : arch'[i] = IF i = a THEN b ELSE arch[i]
  BY <1>7, ReplaceArchetype
<1>9. RowsOf(arch') = RowsOf(arch)
  BY <1>6, <1>8 DEF RowsOf
<1>10. RowsExact(arch', loc, order)
  <2>1. Placed(Len(arch), RowsOf(arch), loc, order)
    BY RowsExactIsPlaced DEF StorageInv
  <2>2. Placed(Len(arch'), RowsOf(arch'), loc, order)
    BY <1>8, <1>9, <2>1
  <2> QED
    BY <2>2, RowsExactIsPlaced
<1> QED
  BY <1>4, <1>8, <1>10 DEF StorageInv

-----------------------------------------------------------------------------
(* The invariant.                                                          *)

\* The empty world satisfies the invariant (World::new).
LEMMA InitIInv == WorldInit => IInv
<1> SUFFICES ASSUME WorldInit
             PROVE  IInv
  OBVIOUS
<1>1. /\ slotCount = 0 /\ free = <<>> /\ arch = <<>> /\ order = {}
      /\ \A i \in Slots : /\ generations[i] = 0
                          /\ ~alive[i]
                          /\ loc[i] = NoLocation
                          /\ slotTags[i] = {}
  BY DEF WorldInit
<1>2. /\ generations \in [Slots -> Nat] /\ alive \in [Slots -> BOOLEAN]
      /\ slotTags \in [Slots -> SUBSET Tags]
  BY DEF WorldInit
<1>3. loc \in [Slots -> Location]
  BY DEF WorldInit, NoLocation, Location
<1>4. AllocatorExact
  <2>1. Len(free) = 0 /\ 1 .. Len(free) = {}
    BY <1>1
  <2>2. {i \in Slots : i < slotCount /\ ~alive[i]} = {}
    BY <1>1 DEF Slots
  <2> QED
    BY <1>1, <2>1, <2>2 DEF AllocatorExact
<1>5. AllocatorInv
  <2>1. {j \in Slots : alive[j]} = {}
    BY <1>1
  <2>2. slotCount \in 0 .. MaxSlots /\ free \in Seq(Slots)
    BY <1>1, WorldAssumption
  <2> QED
    BY <1>1, <1>2, <1>4, <2>1, <2>2 DEF AllocatorInv
<1>6. StorageInv
  <2>1. arch \in Seq(ArchetypeType) /\ Len(arch) = 0 /\ 1 .. Len(arch) = {}
    BY <1>1
  <2>2. Indexed(arch)
    BY <2>1 DEF Indexed, Archetypes, KeysUnique, EdgesExact
  <2>3. RowsExact(arch, loc, order)
    BY <1>1, <2>1 DEF RowsExact
  <2> QED
    BY <1>3, <2>2, <2>3 DEF StorageInv
<1>7. SlotInv
  BY <1>1, <1>2 DEF SlotInv, NoLocation
<1> QED
  BY <1>5, <1>6, <1>7 DEF IInv

\* A spawn adds the new entity to one archetype, one location and the order
\* (World::spawn_with_defaults).
LEMMA SpawnIInv ==
  ASSUME IInv, NEW K \in SUBSET Components, NEW comps \in Component(K),
         NEW tags \in SUBSET Tags, Spawn(comps, tags)
  PROVE  IInv'
<1>1. AllocatorInv /\ StorageInv /\ SlotInv
  BY DEF IInv
<1>2. PICK e : e = NextHandle
  OBVIOUS
<1>3. /\ AllocatorSpawn /\ order' = order \union {e}
      /\ slotTags' = [slotTags EXCEPT ![e.index] = tags]
  BY <1>2 DEF Spawn
<1>4. /\ AllocatorInv'
      /\ \A i \in Slots : alive'[i] <=> alive[i] \/ i = e.index
  BY <1>1, <1>2, <1>3, SpawnAllocates
<1>5. /\ StorageInv'
      /\ loc'[e.index].arch # 0
      /\ \A i \in Slots : i # e.index => loc'[i] = loc[i]
  BY <1>1, <1>2, SpawnStores
<1>6. SlotInv'
  <2>1. \A i \in Slots : alive'[i] <=> loc'[i].arch # 0
    BY <1>1, <1>4, <1>5 DEF SlotInv
  <2>2. /\ slotTags' \in [Slots -> SUBSET Tags]
        /\ \A i \in Slots : i # e.index => slotTags'[i] = slotTags[i]
    BY <1>1, <1>3 DEF SlotInv
  <2>3. \A i \in Slots : ~alive'[i] => slotTags'[i] = {}
    BY <1>1, <1>4, <2>2 DEF SlotInv
  <2> QED
    BY <2>1, <2>2, <2>3 DEF SlotInv
<1> QED
  BY <1>4, <1>5, <1>6 DEF IInv

\* A despawn removes the row and the location of the entity, repairs those of
\* the one that moved and clears the slot (World::despawn).
LEMMA DespawnIInv ==
  ASSUME IInv, NEW e \in order, Despawn(e)
  PROVE  IInv'
<1>1. AllocatorInv /\ StorageInv /\ SlotInv
  BY DEF IInv
<1>2. /\ AllocatorDespawn(e) /\ order' = order \ {e}
      /\ slotTags' = [slotTags EXCEPT ![e.index] = {}]
  BY DEF Despawn
<1>3. /\ AllocatorInv'
      /\ \A i \in Slots : alive'[i] <=> alive[i] /\ i # e.index
  BY <1>1, <1>2, DespawnFrees
<1>4. /\ StorageInv'
      /\ loc'[e.index].arch = 0
      /\ \A i \in Slots : i # e.index =>
           (loc'[i].arch = 0 <=> loc[i].arch = 0)
  BY <1>1, DespawnRemovesRow
<1>5. e.index \in Slots
  BY <1>1, LiveHandles
<1>6. SlotInv'
  <2>1. \A i \in Slots : alive'[i] <=> loc'[i].arch # 0
    BY <1>1, <1>3, <1>4 DEF SlotInv
  <2>2. /\ slotTags' \in [Slots -> SUBSET Tags]
        /\ slotTags'[e.index] = {}
        /\ \A i \in Slots : i # e.index => slotTags'[i] = slotTags[i]
    BY <1>1, <1>2, <1>5 DEF SlotInv
  <2>3. \A i \in Slots : ~alive'[i] => slotTags'[i] = {}
    BY <1>1, <1>3, <2>2 DEF SlotInv
  <2> QED
    BY <2>1, <2>2, <2>3 DEF SlotInv
<1> QED
  BY <1>3, <1>4, <1>6 DEF IInv

\* The steps that leave the allocator alone.
LEMMA AllocatorKept ==
  ASSUME AllocatorInv, UNCHANGED allocVars, order' = order
  PROVE  AllocatorInv'
<1>1. /\ slotCount' = slotCount /\ generations' = generations
      /\ alive' = alive /\ free' = free
  BY DEF allocVars
<1>2. AllocatorExact'
  BY <1>1 DEF AllocatorInv, AllocatorExact
<1>3. \A i \in Slots : HandleIn(i)' = HandleIn(i)
  BY <1>1 DEF HandleIn
<1> QED
  BY <1>1, <1>2, <1>3 DEF AllocatorInv

\* A move to the archetype of another key leaves one row for each entity
\* (World::move_entity_to_archetype).
LEMMA MoveIInv ==
  ASSUME IInv, NEW e \in order, NEW key,
         key # arch[loc[e.index].arch].key,
         NEW transition, Leads(transition, arch, key),
         MoveEntity(e, transition), UNCHANGED <<allocVars, slotTags, order>>
  PROVE  IInv'
<1>1. AllocatorInv /\ StorageInv /\ SlotInv
  BY DEF IInv
<1>2. order' = order /\ slotTags' = slotTags /\ alive' = alive
  BY DEF allocVars
<1>3. AllocatorInv'
  BY <1>1, <1>2, AllocatorKept
<1>4. StorageInv' /\ \A i \in Slots : (loc'[i].arch = 0 <=> loc[i].arch = 0)
  BY <1>1, <1>2, MoveStores
<1>5. SlotInv'
  BY <1>1, <1>2, <1>4 DEF SlotInv
<1> QED
  BY <1>3, <1>4, <1>5 DEF IInv

\* Adding a component the entity lacks is a move along an add transition
\* (World::add_component_default).
LEMMA AddComponentIInv ==
  ASSUME IInv, NEW e \in order, NEW c \in Components, AddComponent(e, c)
  PROVE  IInv'
<1> DEFINE source == loc[e.index].arch
           key == arch[source].key \union {c}
<1>1. source \in 1 .. Len(arch) /\ Indexed(arch)
  BY RowOfEntity DEF IInv, StorageInv
<1>2. /\ c \notin arch[source].key
      /\ MoveEntity(e, AddTransition(source, c))
      /\ UNCHANGED <<allocVars, slotTags, order>>
  BY DEF AddComponent
<1>3. Leads(AddTransition(source, c), arch, key)
  BY <1>1, <1>2, AddTransitionLeads
<1>4. key # arch[source].key
  BY <1>2
<1> QED
  BY <1>2, <1>3, <1>4, MoveIInv

\* Removing a component is a move along a remove transition
\* (World::remove_component).
LEMMA RemoveComponentIInv ==
  ASSUME IInv, NEW e \in order, NEW c \in Components, RemoveComponent(e, c)
  PROVE  IInv'
<1> DEFINE source == loc[e.index].arch
           key == arch[source].key \ {c}
<1>1. source \in 1 .. Len(arch) /\ Indexed(arch)
  BY RowOfEntity DEF IInv, StorageInv
<1>2. /\ c \in arch[source].key
      /\ MoveEntity(e, RemoveTransition(source, c))
      /\ UNCHANGED <<allocVars, slotTags, order>>
  BY DEF RemoveComponent
<1>3. Leads(RemoveTransition(source, c), arch, key)
  BY <1>1, <1>2, RemoveTransitionLeads
<1>4. key # arch[source].key
  BY <1>2
<1> QED
  BY <1>2, <1>3, <1>4, MoveIInv

\* A field write changes one entry of one column and no row (World::set_field).
LEMMA SetFieldIInv ==
  ASSUME IInv, NEW e \in order, NEW c \in Components, NEW v \in Values,
         SetField(e, c, v)
  PROVE  IInv'
<1>1. AllocatorInv /\ StorageInv /\ SlotInv
  BY DEF IInv
<1>2. /\ order' = order /\ slotTags' = slotTags /\ loc' = loc
      /\ alive' = alive /\ UNCHANGED allocVars
  BY DEF SetField, allocVars
<1>3. AllocatorInv'
  BY <1>1, <1>2, AllocatorKept
<1>4. StorageInv'
  BY <1>1, SetFieldStores
<1>5. SlotInv'
  BY <1>1, <1>2 DEF SlotInv
<1> QED
  BY <1>3, <1>4, <1>5 DEF IInv

\* Tags of a live entity change no storage (World::add_tag, remove_tag).
LEMMA TagsIInv ==
  ASSUME IInv, NEW e \in order, NEW t \in Tags, AddTag(e, t) \/ RemoveTag(e, t)
  PROVE  IInv'
<1>1. AllocatorInv /\ StorageInv /\ SlotInv
  BY DEF IInv
<1>2. /\ order' = order /\ arch' = arch /\ loc' = loc
      /\ alive' = alive /\ UNCHANGED allocVars
  BY DEF AddTag, RemoveTag, allocVars
<1>3. AllocatorInv'
  BY <1>1, <1>2, AllocatorKept
<1>4. StorageInv'
  BY <1>1, <1>2 DEF StorageInv
<1>5. /\ slotTags' \in [Slots -> SUBSET Tags]
      /\ \A i \in Slots : i # e.index => slotTags'[i] = slotTags[i]
  <2>1. CASE AddTag(e, t)
    BY <1>1, <2>1 DEF AddTag, SlotInv
  <2>2. CASE RemoveTag(e, t)
    BY <1>1, <2>2 DEF RemoveTag, SlotInv
  <2> QED
    BY <2>1, <2>2
<1>6. alive[e.index]
  BY <1>1, LiveHandles
<1>7. SlotInv'
  BY <1>1, <1>2, <1>5, <1>6 DEF SlotInv
<1> QED
  BY <1>3, <1>4, <1>7 DEF IInv

\* Every step of World keeps the invariant.
LEMMA NextIInv == IInv /\ [WorldNext]_worldVars => IInv'
<1> SUFFICES ASSUME IInv, [WorldNext]_worldVars
             PROVE  IInv'
  OBVIOUS
<1>1. ASSUME NEW K \in SUBSET Components, NEW tags \in SUBSET Tags,
             NEW comps \in Component(K), Spawn(comps, tags)
      PROVE  IInv'
  BY <1>1, SpawnIInv
<1>2. ASSUME NEW e \in order, Despawn(e)
      PROVE  IInv'
  BY <1>2, DespawnIInv
<1>3. ASSUME NEW e \in order, NEW c \in Components, AddComponent(e, c)
      PROVE  IInv'
  BY <1>3, AddComponentIInv
<1>4. ASSUME NEW e \in order, NEW c \in Components, RemoveComponent(e, c)
      PROVE  IInv'
  BY <1>4, RemoveComponentIInv
<1>5. ASSUME NEW e \in order, NEW c \in Components, NEW v \in Values,
             SetField(e, c, v)
      PROVE  IInv'
  BY <1>5, SetFieldIInv
<1>6. ASSUME NEW e \in order, NEW t \in Tags, AddTag(e, t) \/ RemoveTag(e, t)
      PROVE  IInv'
  BY <1>6, TagsIInv
<1>7. CASE UNCHANGED worldVars
  <2>1. /\ UNCHANGED allocVars /\ order' = order /\ arch' = arch
        /\ loc' = loc /\ slotTags' = slotTags /\ alive' = alive
    BY <1>7 DEF worldVars, allocVars
  <2>2. AllocatorInv'
    BY <2>1, AllocatorKept DEF IInv
  <2>3. StorageInv' /\ SlotInv'
    BY <2>1 DEF IInv, StorageInv, SlotInv
  <2> QED
    BY <2>2, <2>3 DEF IInv
<1> QED
  BY <1>1, <1>2, <1>3, <1>4, <1>5, <1>6, <1>7 DEF WorldNext

-----------------------------------------------------------------------------
(* The theorems.                                                           *)

\* The allocator, the storage and the indexes by slot stay in step with each
\* other in every reachable state of World: IInv is an invariant.
THEOREM WorldInvariant == WorldSpec => []IInv
<1> QED
  BY InitIInv, NextIInv, PTL DEF WorldSpec

\* Every vector of the storage core keeps entries of its own kind.
THEOREM TypeCorrect == WorldSpec => []TypeOK
<1>1. IInv => TypeOK
  BY IInvGives
<1> QED
  BY <1>1, WorldInvariant, PTL

\* The free stack is exactly the dead slots (EntityAllocator).
THEOREM AllocatorCorrect == WorldSpec => []AllocatorExact
<1>1. IInv => AllocatorExact
  BY IInvGives
<1> QED
  BY <1>1, WorldInvariant, PTL

\* The location index and the rows of the archetypes agree, whatever rows are
\* swap-removed and moved (World::despawn, move_entity_to_archetype).
THEOREM LocationsCorrect == WorldSpec => []LocationsExact
<1>1. IInv => LocationsExact
  BY IInvGives
<1> QED
  BY <1>1, WorldInvariant, PTL

\* The columns of an archetype have one entry per row (Archetype).
THEOREM ColumnsCorrect == WorldSpec => []ColumnsAligned
<1>1. IInv => ColumnsAligned
  BY IInvGives
<1> QED
  BY <1>1, WorldInvariant, PTL

\* Cached transitions lead where their component says (World::add_transition,
\* World::remove_transition).
THEOREM TransitionsCorrect == WorldSpec => []TransitionsExact
<1>1. IInv => TransitionsExact
  BY IInvGives
<1> QED
  BY <1>1, WorldInvariant, PTL

\* entity_order is exactly the live entities and dead slots carry no tags.
THEOREM SlotIndexesCorrect == WorldSpec => []SlotIndexesExact
<1>1. IInv => SlotIndexesExact
  BY IInvGives
<1> QED
  BY <1>1, WorldInvariant, PTL

\* The generation of a slot the allocator has created never decreases.
LEMMA GenerationsGrow ==
  ASSUME IInv, [WorldNext]_worldVars, NEW i \in Slots, i < slotCount
  PROVE  generations'[i] >= generations[i]
<1>1. /\ generations \in [Slots -> Nat] /\ slotCount \in 0 .. MaxSlots
      /\ AllocatorInv
  BY DEF IInv, AllocatorInv
<1>2. CASE generations' = generations
  BY <1>1, <1>2
<1>3. CASE AllocatorSpawn
  <2>1. CASE free # <<>>
    BY <1>2, <1>3, <2>1 DEF AllocatorSpawn
  <2>2. CASE free = <<>>
    <3>1. generations' = [generations EXCEPT ![slotCount] = 0]
      BY <1>3, <2>2 DEF AllocatorSpawn, NextHandle
    <3>2. i # slotCount
      BY <1>1 DEF Slots
    <3>3. generations'[i] = generations[i]
      BY <1>1, <3>1, <3>2
    <3> QED
      BY <1>1, <3>3
  <2> QED
    BY <2>1, <2>2
<1>4. ASSUME NEW e \in order, AllocatorDespawn(e)
      PROVE  generations'[i] >= generations[i]
  BY <1>1, <1>4 DEF AllocatorDespawn
<1>5. [WorldNext]_worldVars =>
        \/ generations' = generations
        \/ AllocatorSpawn
        \/ \E e \in order : AllocatorDespawn(e)
  BY DEF WorldNext, worldVars, allocVars, Spawn, Despawn, AddComponent,
         RemoveComponent, SetField, AddTag, RemoveTag
<1> QED
  BY <1>2, <1>3, <1>4, <1>5

\* A handle of an earlier generation of its slot.
Retired(e) == e.index < slotCount /\ e.generation < generations[e.index]

\* A retired handle does not pass EntityAllocator::validate.
LEMMA RetiredIsInvalid ==
  ASSUME IInv, NEW e \in [index : Slots, generation : 0 .. MaxGeneration],
         Retired(e)
  PROVE  ~ValidHandle(e)
<1>1. generations[e.index] \in Nat /\ e.generation \in Nat
  BY WorldAssumption DEF IInv, AllocatorInv
<1>2. e.generation # generations[e.index]
  BY <1>1 DEF Retired
<1> QED
  BY <1>2 DEF ValidHandle

\* A valid handle is retired when it stops being valid, and stays retired.
LEMMA HandleStep ==
  ASSUME IInv, IInv', [WorldNext]_worldVars,
         NEW e \in [index : Slots, generation : 0 .. MaxGeneration]
  PROVE  /\ Retired(e) => Retired(e)'
         /\ ValidHandle(e) => ValidHandle(e)' \/ Retired(e)'
<1> DEFINE i == e.index
<1>1. /\ i \in Slots /\ e.generation \in Nat
      /\ generations \in [Slots -> Nat] /\ generations' \in [Slots -> Nat]
      /\ slotCount \in Nat /\ slotCount' \in Nat /\ i \in Nat
      /\ alive \in [Slots -> BOOLEAN]
  BY WorldAssumption DEF IInv, AllocatorInv, Slots
<1>2. slotCount' >= slotCount
  <2>1. \/ slotCount' = slotCount
        \/ slotCount' = slotCount + 1
    BY DEF WorldNext, worldVars, allocVars, Spawn, Despawn, AddComponent,
           RemoveComponent, SetField, AddTag, RemoveTag, AllocatorSpawn,
           AllocatorDespawn
  <2> QED
    BY <1>1, <2>1
<1>3. Retired(e) => Retired(e)'
  <2> SUFFICES ASSUME Retired(e)
               PROVE  Retired(e)'
    OBVIOUS
  <2>1. i < slotCount /\ e.generation < generations[i]
    BY DEF Retired
  <2>2. generations'[i] >= generations[i]
    BY <1>1, <2>1, GenerationsGrow
  <2>3. generations[i] \in Nat /\ generations'[i] \in Nat
    BY <1>1
  <2>4. i < slotCount' /\ e.generation < generations'[i]
    BY <1>1, <1>2, <2>1, <2>2, <2>3
  <2> QED
    BY <2>4 DEF Retired
<1>4. ValidHandle(e) => ValidHandle(e)' \/ Retired(e)'
  <2> SUFFICES ASSUME ValidHandle(e)
               PROVE  ValidHandle(e)' \/ Retired(e)'
    OBVIOUS
  <2>1. i < slotCount /\ alive[i] /\ generations[i] = e.generation
    BY DEF ValidHandle
  <2>2. i < slotCount'
    BY <1>1, <1>2, <2>1
  <2>3. generations'[i] >= e.generation
    BY <1>1, <2>1, GenerationsGrow
  <2>4. CASE generations'[i] # e.generation
    <3>1. generations'[i] \in Nat
      BY <1>1
    <3>2. e.generation < generations'[i]
      BY <1>1, <2>3, <2>4, <3>1
    <3> QED
      BY <2>2, <3>2 DEF Retired
  <2>5. CASE generations'[i] = e.generation
    <3>1. ASSUME NEW d \in order, AllocatorDespawn(d)
          PROVE  d.index # i
      <4>1. d.index = i => generations'[i] = generations[i] + 1
        BY <1>1, <3>1 DEF AllocatorDespawn
      <4>2. generations[i] \in Nat
        BY <1>1
      <4> QED
        BY <2>1, <2>5, <4>1, <4>2
    <3>2. alive'[i]
      <4>1. CASE AllocatorSpawn
        <5>1. alive' = [alive EXCEPT ![NextHandle.index] = TRUE]
          BY <4>1 DEF AllocatorSpawn
        <5> QED
          BY <1>1, <2>1, <5>1
      <4>2. ASSUME NEW d \in order, AllocatorDespawn(d)
            PROVE  alive'[i]
        <5>1. alive' = [alive EXCEPT ![d.index] = FALSE]
          BY <4>2 DEF AllocatorDespawn
        <5> QED
          BY <1>1, <2>1, <3>1, <4>2, <5>1
      <4>3. CASE alive' = alive
        BY <2>1, <4>3
      <4>4. \/ alive' = alive
            \/ AllocatorSpawn
            \/ \E d \in order : AllocatorDespawn(d)
        BY DEF WorldNext, worldVars, allocVars, Spawn, Despawn, AddComponent,
               RemoveComponent, SetField, AddTag, RemoveTag
      <4> QED
        BY <4>1, <4>2, <4>3, <4>4
    <3> QED
      BY <2>2, <2>5, <3>2 DEF ValidHandle
  <2> QED
    BY <2>4, <2>5
<1> QED
  BY <1>3, <1>4

\* A stale handle is never revived by the reuse of its slot
\* (EntityAllocator::despawn moves the slot to a new generation).
THEOREM StaleHandlesStayStale == WorldSpec => StaleStaysStale
<1> SUFFICES ASSUME NEW e \in [index : Slots, generation : 0 .. MaxGeneration]
             PROVE  WorldSpec =>
                      [](ValidHandle(e) =>
                           [](~ValidHandle(e) => []~ValidHandle(e)))
  BY DEF StaleStaysStale
<1>1. IInv /\ Retired(e) => ~ValidHandle(e)
  BY RetiredIsInvalid
<1>2. IInv /\ IInv' /\ [WorldNext]_worldVars =>
        /\ Retired(e) => Retired(e)'
        /\ ValidHandle(e) => ValidHandle(e)' \/ Retired(e)'
  BY HandleStep
<1> QED
  BY <1>1, <1>2, WorldInvariant, PTL DEF WorldSpec

-----------------------------------------------------------------------------
(* What the methods of World do to the store.                              *)

\* What StoreOf shows of an entity.
LEMMA StoreOfIs ==
  ASSUME NEW e
  PROVE  /\ StoreOf(e) = [comps |-> Cells(arch, loc, e), tags |-> slotTags[e.index]]
         /\ DOMAIN StoreOf(e).comps = arch[loc[e.index].arch].key
  BY DEF StoreOf, Cells

\* A step that carries the rows of an entity over and leaves its tags is not
\* seen by it.
LEMMA OthersKeep ==
  ASSUME IInv, IInv', NEW e, Carries(arch', arch, e),
         NEW d \in order \cap order', d # e,
         slotTags'[d.index] = slotTags[d.index]
  PROVE  StoreOf(d)' = StoreOf(d)
<1>1. RowsExact(arch, loc, order) /\ RowsExact(arch', loc', order')
  BY DEF IInv, StorageInv
<1>2. Cells(arch', loc', d) = Cells(arch, loc, d)
  BY <1>1, CellsCarried
<1> QED
  BY <1>2 DEF StoreOf, Cells

\* World::spawn gives a new entity the values and tags asked for and touches no
\* other.
LEMMA SpawnEffect ==
  ASSUME IInv, IInv', NEW K \in SUBSET Components, NEW comps \in Component(K),
         NEW tags \in SUBSET Tags, Spawn(comps, tags), NEW e, e = NextHandle
  PROVE  /\ e \notin order /\ order' = order \union {e}
         /\ StoreOf(e)' = [comps |-> comps, tags |-> tags]
         /\ \A d \in order : StoreOf(d)' = StoreOf(d)
<1>1. PICK archs : archs = EnsureArchetype(arch, K)
  OBVIOUS
<1>2. PICK a : a = ArchetypeOf(archs, K)
  OBVIOUS
<1>3. PICK n : n = Len(archs[a].entities)
  OBVIOUS
<1>4. DOMAIN comps = K /\ comps = [c \in K |-> comps[c]]
  BY DEF Component
<1>5. /\ arch' = [archs EXCEPT ![a] = PushRow(archs[a], e, comps)]
      /\ loc' = Place(loc, e, a, n + 1)
      /\ order' = order \union {e}
      /\ slotTags' = [slotTags EXCEPT ![e.index] = tags]
      /\ AllocatorSpawn
  BY <1>1, <1>2, <1>3, <1>4 DEF Spawn
<1>6. AllocatorInv /\ StorageInv /\ SlotInv
  BY DEF IInv
<1>7. /\ e \in Entity /\ e.index \in Slots
      /\ \A d \in order : d.index # e.index
  BY <1>5, <1>6, NextHandleIsFresh
<1>8. /\ Indexed(archs) /\ Extends(archs, arch)
      /\ a \in 1 .. Len(archs) /\ archs[a].key = K
  BY <1>1, <1>2, <1>6, EnsureArchetypeIs DEF StorageInv
<1>9. PushesRow(arch', archs, a, n, e, comps)
  BY <1>3, <1>5, <1>7, <1>8 DEF PushesRow
<1>10. /\ Carries(arch', archs, e)
       /\ \A c \in K : arch'[a].columns[c][n + 1] = comps[c]
  BY <1>8, <1>9, PushCarries
<1>11. Carries(arch', arch, e)
  <2>1. Len(arch) \in Nat /\ Len(archs) \in Nat
    BY <1>6, <1>8, LenProperties DEF StorageInv, Indexed, Archetypes
  <2>2. Carries(archs, arch, e)
    BY <1>8, <2>1, ExtendsCarries
  <2> QED
    BY <1>10, <2>2, CarriesTwice
<1>12. ASSUME NEW d \in order
       PROVE  StoreOf(d)' = StoreOf(d)
  <2>1. d.index \in Slots /\ d.index # e.index
    BY <1>6, <1>7, LiveHandles
  <2>2. slotTags'[d.index] = slotTags[d.index]
    BY <1>5, <1>6, <2>1 DEF SlotInv
  <2> QED
    BY <1>5, <1>7, <1>11, <2>1, <2>2, OthersKeep
<1>13. StoreOf(e)' = [comps |-> comps, tags |-> tags]
  <2>1. loc'[e.index].arch = a /\ loc'[e.index].row = n + 1
    BY <1>5, <1>6, <1>7 DEF Place, StorageInv
  <2>2. arch'[a].key = K
    BY <1>8, <1>9, PushRowVector
  <2>3. slotTags'[e.index] = tags
    BY <1>5, <1>6, <1>7 DEF SlotInv
  <2>4. [c \in K |-> arch'[a].columns[c][n + 1]] = comps
    BY <1>4, <1>10
  <2>5. StoreOf(e)' = [comps |-> [c \in arch'[loc'[e.index].arch].key |->
                          arch'[loc'[e.index].arch].columns[c][loc'[e.index].row]],
                       tags |-> slotTags'[e.index]]
    BY DEF StoreOf
  <2> QED
    BY <2>1, <2>2, <2>3, <2>4, <2>5
<1> QED
  BY <1>5, <1>7, <1>12, <1>13

\* World::despawn takes one entity away and touches no other.
LEMMA DespawnEffect ==
  ASSUME IInv, IInv', NEW e \in order, Despawn(e)
  PROVE  /\ order' = order \ {e}
         /\ \A d \in order' : StoreOf(d)' = StoreOf(d)
<1>1. PICK a : a = loc[e.index].arch
  OBVIOUS
<1>2. PICK row : row = loc[e.index].row
  OBVIOUS
<1>3. PICK n : n = Len(arch[a].entities)
  OBVIOUS
<1>4. /\ arch' = [arch EXCEPT ![a] = RemoveRow(arch[a], row)]
      /\ order' = order \ {e}
      /\ slotTags' = [slotTags EXCEPT ![e.index] = {}]
  BY <1>1, <1>2 DEF Despawn
<1>5. AllocatorInv /\ StorageInv /\ SlotInv
  BY DEF IInv
<1>6. RemovesRow(arch', arch, a, n, row)
  BY <1>1, <1>2, <1>3, <1>4, <1>5, RowOfEntity DEF RemovesRow, StorageInv
<1>7. Carries(arch', arch, e)
  BY <1>6, RemoveCarries
<1>8. ASSUME NEW d \in order'
      PROVE  StoreOf(d)' = StoreOf(d)
  <2>1. d \in order /\ d # e
    BY <1>4
  <2>2. d.index # e.index
    BY <1>5, <2>1, LiveHandles DEF OnePerSlot
  <2>3. slotTags'[d.index] = slotTags[d.index]
    BY <1>4, <1>5, <2>1, <2>2, LiveHandles DEF SlotInv
  <2> QED
    BY <1>7, <2>1, <2>3, OthersKeep
<1> QED
  BY <1>4, <1>8

\* A move to another archetype keeps the values of the components both have,
\* gives the new ones their default, and touches no other entity
\* (World::move_entity_to_archetype, Archetype::move_row_to).
LEMMA MoveEffect ==
  ASSUME IInv, IInv', NEW e \in order, NEW key,
         key # arch[loc[e.index].arch].key,
         NEW transition, Leads(transition, arch, key),
         MoveEntity(e, transition), UNCHANGED <<allocVars, slotTags, order>>
  PROVE  /\ \A d \in order : d # e => StoreOf(d)' = StoreOf(d)
         /\ StoreOf(e)' =
              [comps |-> [c \in key |-> IF c \in DOMAIN StoreOf(e).comps
                                          THEN StoreOf(e).comps[c] ELSE Default],
               tags |-> slotTags[e.index]]
<1>1. PICK archs : archs = transition.archetypes
  OBVIOUS
<1>2. PICK target : target = transition.target
  OBVIOUS
<1>3. PICK source : source = loc[e.index].arch
  OBVIOUS
<1>4. PICK row : row = loc[e.index].row
  OBVIOUS
<1>5. PICK bs : bs = [archs EXCEPT ![source] = RemoveRow(archs[source], row)]
  OBVIOUS
<1>6. PICK middle :
        middle = RepairSwapped(archs[source].entities, source, row, loc)
  OBVIOUS
<1>7. PICK comps : comps = MovedComponents(archs, source, row, target)
  OBVIOUS
<1>8. PICK n : n = Len(archs[target].entities)
  OBVIOUS
<1>9. PICK m : m = Len(archs[source].entities)
  OBVIOUS
<1>10. /\ arch' = [bs EXCEPT ![target] = PushRow(bs[target], e, comps)]
       /\ loc' = Place(middle, e, target, n + 1)
  BY <1>1, <1>2, <1>3, <1>4, <1>5, <1>6, <1>7, <1>8 DEF MoveEntity, MoveRow
<1>11. AllocatorInv /\ StorageInv /\ SlotInv
  BY DEF IInv
<1>12. /\ Indexed(archs) /\ Extends(archs, arch)
       /\ target \in 1 .. Len(archs) /\ archs[target].key = key
  BY <1>1, <1>2 DEF Leads
<1>13. /\ source \in 1 .. Len(arch) /\ row \in 1 .. Len(arch[source].entities)
       /\ arch[source] \in ArchetypeType
  BY <1>3, <1>4, <1>11, RowOfEntity
<1>14. /\ source \in 1 .. Len(archs) /\ row \in 1 .. m
       /\ archs[source].key = arch[source].key
       /\ archs[source].columns = arch[source].columns
       /\ Len(arch) \in Nat /\ Len(archs) \in Nat
  <2>1. Len(arch) \in Nat /\ Len(archs) \in Nat
    BY <1>11, <1>12, LenProperties DEF StorageInv, Indexed, Archetypes
  <2> QED
    BY <1>9, <1>12, <1>13, <2>1 DEF Extends
<1>15. source # target
  BY <1>3, <1>12, <1>14
<1>16. RemovesRow(bs, archs, source, m, row)
  BY <1>5, <1>9, <1>12, <1>14 DEF RemovesRow
<1>17. /\ Indexed(bs) /\ Len(bs) = Len(archs)
       /\ \A i \in 1 .. Len(archs) : i # source => bs[i] = archs[i]
  BY <1>16, RemoveRowVector
<1>18. bs[target] = archs[target] /\ target \in 1 .. Len(bs)
  BY <1>12, <1>15, <1>17
<1>19. comps \in Component(key)
  <2>1. GoodArchetype(archs[source]) /\ GoodArchetype(archs[target])
    BY <1>12, <1>14 DEF GoodArchetype, Indexed, Archetypes
  <2> QED
    BY <1>7, <1>9, <1>12, <1>14, <2>1, MovedTyped
<1>20. e \in Entity /\ e.index \in Slots /\ OnePerSlot(order)
  BY <1>11, LiveHandles
<1>21. PushesRow(arch', bs, target, n, e, comps)
  BY <1>8, <1>10, <1>12, <1>17, <1>18, <1>19, <1>20 DEF PushesRow
<1>22. /\ Carries(arch', bs, e)
       /\ \A c \in key : arch'[target].columns[c][n + 1] = comps[c]
  BY <1>12, <1>18, <1>21, PushCarries
<1>23. Carries(arch', arch, e)
  <2>1. Carries(archs, arch, e)
    BY <1>12, <1>14, ExtendsCarries
  <2>2. Carries(bs, archs, e)
    BY <1>16, RemoveCarries
  <2>3. Carries(bs, arch, e)
    BY <2>1, <2>2, CarriesTwice
  <2> QED
    BY <1>22, <2>3, CarriesTwice
<1>24. ASSUME NEW d \in order, d # e
       PROVE  StoreOf(d)' = StoreOf(d)
  <2>1. slotTags'[d.index] = slotTags[d.index] /\ order' = order
    OBVIOUS
  <2> QED
    BY <1>23, <1>24, <2>1, OthersKeep
<1>25. StoreOf(e)' =
         [comps |-> [c \in key |-> IF c \in DOMAIN StoreOf(e).comps
                                     THEN StoreOf(e).comps[c] ELSE Default],
          tags |-> slotTags[e.index]]
  <2>1. middle \in [Slots -> Location]
    <3>1. RowsExact(archs, loc, order)
      BY <1>11, <1>12, <1>14, ExtendsRows DEF StorageInv
    <3>2. RowRemoved(bs, middle, archs, loc, order, e, source, row, loc)
      <4>1. order \in SUBSET Entity /\ loc \in [Slots -> Location]
        BY <1>11, LiveHandles DEF StorageInv
      <4> QED
        BY <1>3, <1>4, <1>5, <1>6, <1>12, <1>20, <3>1, <4>1 DEF RowRemoved
    <3> QED
      BY <3>2, RemoveRowRows DEF RowGone
  <2>2. loc'[e.index].arch = target /\ loc'[e.index].row = n + 1
    BY <1>10, <1>20, <2>1 DEF Place
  <2>3. arch'[target].key = key
    BY <1>12, <1>18, <1>21, PushRowVector
  <2>4. slotTags'[e.index] = slotTags[e.index]
    OBVIOUS
  <2>5. /\ DOMAIN StoreOf(e).comps = arch[source].key
        /\ \A c \in arch[source].key :
             StoreOf(e).comps[c] = arch[source].columns[c][row]
    BY <1>3, <1>4 DEF StoreOf
  <2>6. \A c \in key : comps[c] = IF c \in DOMAIN StoreOf(e).comps
                                    THEN StoreOf(e).comps[c] ELSE Default
    BY <1>7, <1>12, <1>14, <2>5 DEF MovedComponents
  <2>7. StoreOf(e)' = [comps |-> [c \in arch'[loc'[e.index].arch].key |->
                          arch'[loc'[e.index].arch].columns[c][loc'[e.index].row]],
                       tags |-> slotTags'[e.index]]
    BY DEF StoreOf
  <2>8. StoreOf(e)' = [comps |-> [c \in key |-> arch'[target].columns[c][n + 1]],
                       tags |-> slotTags[e.index]]
    BY <2>2, <2>3, <2>4, <2>7
  <2>9. [c \in key |-> arch'[target].columns[c][n + 1]]
          = [c \in key |-> IF c \in DOMAIN StoreOf(e).comps
                             THEN StoreOf(e).comps[c] ELSE Default]
    BY <1>22, <2>6
  <2> QED
    BY <2>8, <2>9
<1> QED
  BY <1>24, <1>25

\* World::set_field changes one value of one entity.
LEMMA SetFieldEffect ==
  ASSUME IInv, IInv', NEW e \in order, NEW c \in Components, NEW v \in Values,
         SetField(e, c, v)
  PROVE  /\ \A d \in order : d # e => StoreOf(d)' = StoreOf(d)
         /\ c \in DOMAIN StoreOf(e).comps
         /\ StoreOf(e)' =
              [comps |-> [k \in DOMAIN StoreOf(e).comps |->
                            IF k = c THEN v ELSE StoreOf(e).comps[k]],
               tags |-> slotTags[e.index]]
<1>1. PICK a : a = loc[e.index].arch
  OBVIOUS
<1>2. PICK row : row = loc[e.index].row
  OBVIOUS
<1>3. /\ arch' = [arch EXCEPT ![a] = WriteCell(arch[a], c, row, v)]
      /\ c \in arch[a].key
      /\ loc' = loc /\ order' = order /\ slotTags' = slotTags
  BY <1>1, <1>2 DEF SetField
<1>4. StorageInv
  BY DEF IInv
<1>5. /\ a \in 1 .. Len(arch) /\ row \in 1 .. Len(arch[a].entities)
      /\ Aligned(arch[a]) /\ arch \in Seq(ArchetypeType)
      /\ arch[a].entities[row] = e
  BY <1>1, <1>2, <1>4, RowOfEntity
     DEF StorageInv, Indexed, Archetypes, RowsExact
<1>6. /\ Carries(arch', arch, e)
      /\ arch'[a].key = arch[a].key
      /\ \A k \in arch[a].key :
           arch'[a].columns[k][row] = IF k = c THEN v ELSE arch[a].columns[k][row]
  <2>1. WritesCell(arch', arch, a, c, row, v, e)
    BY <1>3, <1>5 DEF WritesCell
  <2> QED
    BY <2>1, WriteCarries
<1>7. ASSUME NEW d \in order, d # e
      PROVE  StoreOf(d)' = StoreOf(d)
  BY <1>3, <1>6, <1>7, OthersKeep
<1>8. /\ DOMAIN StoreOf(e).comps = arch[a].key
      /\ \A k \in arch[a].key : StoreOf(e).comps[k] = arch[a].columns[k][row]
  BY <1>1, <1>2 DEF StoreOf
<1>9. StoreOf(e)' = [comps |-> [k \in arch'[a].key |-> arch'[a].columns[k][row]],
                     tags |-> slotTags[e.index]]
  BY <1>1, <1>2, <1>3 DEF StoreOf
<1>10. [k \in arch'[a].key |-> arch'[a].columns[k][row]]
         = [k \in DOMAIN StoreOf(e).comps |->
              IF k = c THEN v ELSE StoreOf(e).comps[k]]
  BY <1>6, <1>8
<1> QED
  BY <1>3, <1>7, <1>8, <1>9, <1>10
\* World::add_tag and World::remove_tag change the tags of one entity.
LEMMA TagsEffect ==
  ASSUME IInv, NEW e \in order, NEW t \in Tags, AddTag(e, t) \/ RemoveTag(e, t)
  PROVE  /\ \A d \in order : d # e => StoreOf(d)' = StoreOf(d)
         /\ \E ts \in SUBSET Tags :
              StoreOf(e)' = [comps |-> StoreOf(e).comps, tags |-> ts]
<1>1. AllocatorInv /\ SlotInv
  BY DEF IInv
<1>2. arch' = arch /\ loc' = loc
  BY DEF AddTag, RemoveTag
<1>3. /\ slotTags'[e.index] \in SUBSET Tags
      /\ \A i \in Slots : i # e.index => slotTags'[i] = slotTags[i]
  <2>1. e.index \in Slots
    BY <1>1, LiveHandles
  <2> QED
    BY <1>1, <2>1 DEF AddTag, RemoveTag, SlotInv
<1>4. ASSUME NEW d \in order, d # e
      PROVE  StoreOf(d)' = StoreOf(d)
  <2>1. d.index \in Slots /\ d.index # e.index
    BY <1>1, <1>4, LiveHandles DEF OnePerSlot
  <2> QED
    BY <1>2, <1>3, <2>1 DEF StoreOf
<1>5. StoreOf(e)' = [comps |-> StoreOf(e).comps, tags |-> slotTags'[e.index]]
  BY <1>2 DEF StoreOf
<1> QED
  BY <1>3, <1>4, <1>5

\* World::add_component_default attaches the default value to one entity.
LEMMA AddEffect ==
  ASSUME IInv, IInv', NEW e \in order, NEW c \in Components, AddComponent(e, c)
  PROVE  /\ c \notin DOMAIN StoreOf(e).comps
         /\ \A d \in order : d # e => StoreOf(d)' = StoreOf(d)
         /\ StoreOf(e)' =
              [comps |-> [k \in DOMAIN StoreOf(e).comps \union {c} |->
                            IF k \in DOMAIN StoreOf(e).comps
                              THEN StoreOf(e).comps[k] ELSE Default],
               tags |-> slotTags[e.index]]
<1>1. PICK source : source = loc[e.index].arch
  OBVIOUS
<1>2. source \in 1 .. Len(arch) /\ Indexed(arch)
  BY <1>1, RowOfEntity DEF IInv, StorageInv
<1>3. DOMAIN StoreOf(e).comps = arch[source].key
  BY <1>1 DEF StoreOf
<1>4. /\ c \notin arch[source].key
      /\ MoveEntity(e, AddTransition(source, c))
      /\ UNCHANGED <<allocVars, slotTags, order>>
  BY <1>1 DEF AddComponent
<1>5. PICK key : key = arch[source].key \union {c}
  OBVIOUS
<1>6. Leads(AddTransition(source, c), arch, key)
  BY <1>2, <1>4, <1>5, AddTransitionLeads
<1>7. key # arch[loc[e.index].arch].key
  BY <1>1, <1>4, <1>5
<1>8. /\ \A d \in order : d # e => StoreOf(d)' = StoreOf(d)
      /\ StoreOf(e)' =
           [comps |-> [k \in key |-> IF k \in DOMAIN StoreOf(e).comps
                                       THEN StoreOf(e).comps[k] ELSE Default],
            tags |-> slotTags[e.index]]
  BY <1>4, <1>6, <1>7, MoveEffect
<1> QED
  BY <1>3, <1>4, <1>5, <1>8

\* World::remove_component takes one component of one entity away.
LEMMA RemoveEffect ==
  ASSUME IInv, IInv', NEW e \in order, NEW c \in Components, RemoveComponent(e, c)
  PROVE  /\ c \in DOMAIN StoreOf(e).comps
         /\ \A d \in order : d # e => StoreOf(d)' = StoreOf(d)
         /\ StoreOf(e)' =
              [comps |-> [k \in DOMAIN StoreOf(e).comps \ {c} |->
                            StoreOf(e).comps[k]],
               tags |-> slotTags[e.index]]
<1>1. PICK source : source = loc[e.index].arch
  OBVIOUS
<1>2. source \in 1 .. Len(arch) /\ Indexed(arch)
  BY <1>1, RowOfEntity DEF IInv, StorageInv
<1>3. DOMAIN StoreOf(e).comps = arch[source].key
  BY <1>1 DEF StoreOf
<1>4. /\ c \in arch[source].key
      /\ MoveEntity(e, RemoveTransition(source, c))
      /\ UNCHANGED <<allocVars, slotTags, order>>
  BY <1>1 DEF RemoveComponent
<1>5. PICK key : key = arch[source].key \ {c}
  OBVIOUS
<1>6. Leads(RemoveTransition(source, c), arch, key)
  BY <1>2, <1>4, <1>5, RemoveTransitionLeads
<1>7. key # arch[loc[e.index].arch].key
  BY <1>1, <1>4, <1>5
<1>8. /\ \A d \in order : d # e => StoreOf(d)' = StoreOf(d)
      /\ StoreOf(e)' =
           [comps |-> [k \in key |-> IF k \in DOMAIN StoreOf(e).comps
                                       THEN StoreOf(e).comps[k] ELSE Default],
            tags |-> slotTags[e.index]]
  BY <1>4, <1>6, <1>7, MoveEffect
<1>9. [k \in key |-> IF k \in DOMAIN StoreOf(e).comps
                       THEN StoreOf(e).comps[k] ELSE Default]
        = [k \in DOMAIN StoreOf(e).comps \ {c} |-> StoreOf(e).comps[k]]
  BY <1>3, <1>5
<1> QED
  BY <1>3, <1>4, <1>8, <1>9

-----------------------------------------------------------------------------
(* The handles issued.                                                     *)

\* No slot is reused past the bound.
GenerationBound == \A i \in Slots : generations[i] <= MaxGeneration

\* A spawn issues one handle, and not one issued before
\* (EntityAllocator::spawn).
LEMMA SpawnIssues ==
  ASSUME AllocatorInv, AllocatorInv', GenerationBound, AllocatorSpawn,
         NEW e, e = NextHandle
  PROVE  /\ e \in [index : Slots, generation : 0 .. MaxGeneration] \ Issued
         /\ Issued' = Issued \union {e}
<1>1. /\ e \in Entity /\ e.index \in Slots /\ ~alive[e.index]
      /\ MaxGeneration \in Nat
  BY NextHandleIsFresh, WorldAssumption
<1>2. /\ \A i \in Slots : alive'[i] <=> alive[i] \/ i = e.index
      /\ generations \in [Slots -> Nat]
      /\ generations' \in [Slots -> Nat]
      /\ slotCount \in Nat /\ Slots \subseteq Nat
  BY <1>1 DEF AllocatorInv, AllocatorSpawn, Slots
<1>3. /\ e \notin Issued /\ e.generation <= MaxGeneration
      /\ generations'[e.index] = e.generation
      /\ \A i \in Slots : i # e.index => generations'[i] = generations[i]
      /\ e.index < slotCount'
      /\ \A i \in Slots : i # e.index => (i < slotCount' <=> i < slotCount)
      /\ e.index < slotCount => generations[e.index] = e.generation
      /\ ~(e.index < slotCount) => e.generation = 0
  <2>1. CASE free # <<>>
    <3>1. slotCount' = slotCount /\ generations' = generations
      BY <2>1 DEF AllocatorSpawn
    <3>2. e.index = free[Len(free)] /\ e.generation = generations[e.index]
      BY <2>1 DEF NextHandle
    <3>3. e.index < slotCount
      <4>1. Len(free) \in 1 .. Len(free)
        BY <2>1 DEF AllocatorInv
      <4> QED
        BY <3>2, <4>1 DEF AllocatorInv, AllocatorExact
    <3>4. e \notin Issued
      BY <1>1, <1>2, <3>2 DEF Issued
    <3>5. e.generation <= MaxGeneration
      BY <1>1, <3>2 DEF GenerationBound
    <3> QED
      BY <3>1, <3>2, <3>3, <3>4, <3>5
  <2>2. CASE free = <<>>
    <3>1. e.index = slotCount /\ e.generation = 0
      BY <2>2 DEF NextHandle
    <3>2. /\ slotCount' = slotCount + 1
          /\ generations' = [generations EXCEPT ![e.index] = 0]
      BY <2>2 DEF AllocatorSpawn
    <3>3. e \notin Issued
      BY <1>2, <3>1 DEF Issued
    <3> QED
      BY <1>1, <1>2, <3>1, <3>2, <3>3
  <2> QED
    BY <2>1, <2>2
<1>4. e \in [index : Slots, generation : 0 .. MaxGeneration]
  BY <1>1, <1>3 DEF Entity
<1>5. ASSUME NEW d \in [index : Slots, generation : 0 .. MaxGeneration]
      PROVE  d \in Issued' <=> d \in Issued \/ d = e
  <2>1. CASE d.index # e.index
    BY <1>2, <1>3, <2>1 DEF Issued
  <2>2. CASE d.index = e.index
    <3>1. /\ d \in Issued' <=> d.generation <= e.generation
          /\ d.generation \in Nat /\ e.generation \in Nat
      <4>1. d.generation \in Nat /\ e.generation \in Nat
        BY <1>1 DEF Entity
      <4>2. /\ d.index < slotCount' /\ generations'[d.index] = e.generation
            /\ alive'[d.index]
        BY <1>1, <1>2, <1>3, <2>2
      <4>3. d \in Issued' <=> d.generation < e.generation \/ d.generation = e.generation
        BY <4>2 DEF Issued
      <4> QED
        BY <4>1, <4>3
    <3>2. d \in Issued <=> d.generation < e.generation
      <4>1. CASE e.index < slotCount
        BY <1>1, <1>2, <1>3, <2>2, <4>1 DEF Issued
      <4>2. CASE ~(e.index < slotCount)
        BY <1>1, <1>2, <1>3, <2>2, <3>1, <4>2 DEF Issued
      <4> QED
        BY <4>1, <4>2
    <3>3. d = e <=> d.generation = e.generation
      BY <1>1, <2>2 DEF Entity
    <3> QED
      BY <3>1, <3>2, <3>3
  <2> QED
    BY <2>1, <2>2
<1>6. Issued' \subseteq [index : Slots, generation : 0 .. MaxGeneration]
      /\ Issued \subseteq [index : Slots, generation : 0 .. MaxGeneration]
  BY DEF Issued
<1> QED
  BY <1>3, <1>4, <1>5, <1>6

\* A despawn issues no handle and takes none back (EntityAllocator::despawn).
LEMMA DespawnIssues ==
  ASSUME AllocatorInv, GenerationBound, NEW e \in order, AllocatorDespawn(e)
  PROVE  Issued' = Issued
<1>1. /\ e.index \in Slots /\ alive[e.index] /\ e.index < slotCount
      /\ MaxGeneration \in Nat
      /\ generations \in [Slots -> Nat] /\ alive \in [Slots -> BOOLEAN]
  BY LiveHandles, WorldAssumption DEF AllocatorInv
<1>2. /\ slotCount' = slotCount
      /\ generations'[e.index] = generations[e.index] + 1
      /\ ~alive'[e.index]
      /\ \A i \in Slots : i # e.index => /\ generations'[i] = generations[i]
                                         /\ alive'[i] = alive[i]
  BY <1>1 DEF AllocatorDespawn
<1>3. ASSUME NEW d \in [index : Slots, generation : 0 .. MaxGeneration]
      PROVE  d \in Issued' <=> d \in Issued
  <2>1. CASE d.index # e.index
    BY <1>2, <2>1 DEF Issued
  <2>2. CASE d.index = e.index
    <3>1. generations[e.index] \in Nat /\ d.generation \in Nat
      BY <1>1
    <3>2. d \in Issued' <=> d.generation < generations[e.index] + 1
      BY <1>1, <1>2, <2>2 DEF Issued
    <3>3. d \in Issued <=> d.generation <= generations[e.index]
      BY <1>1, <2>2, <3>1 DEF Issued
    <3> QED
      BY <3>1, <3>2, <3>3
  <2> QED
    BY <2>1, <2>2
<1> QED
  BY <1>3 DEF Issued

-----------------------------------------------------------------------------
(* Every step of World is a step of the abstract store.                    *)

\* A step that gives one entity its row and keeps every other row is a Put.
LEMMA PutsRow ==
  ASSUME NEW e, NEW row, order' = order \union {e}, StoreOf(e)' = row,
         \A d \in order : d # e => StoreOf(d)' = StoreOf(d)
  PROVE  Store!Put(e, row)
<1>1. \A d \in order' : StoreOf(d)' = IF d = e THEN row
                                      ELSE [x \in order |-> StoreOf(x)][d]
  OBVIOUS
<1>2. [x \in order |-> StoreOf(x)]'
        = [d \in order \union {e} |-> IF d = e THEN row
                                      ELSE [x \in order |-> StoreOf(x)][d]]
  BY <1>1
<1> QED
  BY <1>2 DEF Store!Put, Store!Live

\* The entities of the abstract store are the live handles.
LEMMA LiveIsOrder ==
  /\ Store!Live = order
  /\ \A e \in order : [x \in order |-> StoreOf(x)][e] = StoreOf(e)
  BY DEF Store!Live

\* An entity in entity_order has an issued handle.
LEMMA LiveIsIssued ==
  ASSUME AllocatorInv, GenerationBound, NEW e \in order
  PROVE  e \in [index : Slots, generation : 0 .. MaxGeneration] /\ e \in Issued
<1>1. /\ e \in Entity /\ e.index \in Slots /\ alive[e.index]
      /\ e.index < slotCount /\ e.generation = generations[e.index]
  BY LiveHandles
<1>2. e.generation \in 0 .. MaxGeneration
  BY <1>1, WorldAssumption DEF GenerationBound, Entity
<1>3. e \in [index : Slots, generation : 0 .. MaxGeneration]
  BY <1>1, <1>2 DEF Entity
<1> QED
  BY <1>1, <1>3 DEF Issued

\* The steps that leave the allocator alone issue no handle.
LEMMA KeepsIssued ==
  ASSUME UNCHANGED allocVars
  PROVE  Issued' = Issued
  BY DEF allocVars, Issued

\* World::spawn creates an entity under a handle never issued before.
LEMMA SpawnImplements ==
  ASSUME IInv, IInv', GenerationBound, NEW K \in SUBSET Components,
         NEW tags \in SUBSET Tags, NEW comps \in Component(K), Spawn(comps, tags)
  PROVE  Store!StoreNext
<1>1. PICK e : e = NextHandle
  OBVIOUS
<1>2. PICK row : row = [comps |-> comps, tags |-> tags]
  OBVIOUS
<1>3. AllocatorSpawn /\ AllocatorInv /\ AllocatorInv'
  BY DEF Spawn, IInv
<1>4. /\ e \in [index : Slots, generation : 0 .. MaxGeneration] \ Issued
      /\ Issued' = Issued \union {e}
  BY <1>1, <1>3, SpawnIssues
<1>5. /\ e \notin order /\ order' = order \union {e}
      /\ StoreOf(e)' = row
      /\ \A d \in order : StoreOf(d)' = StoreOf(d)
  BY <1>1, <1>2, SpawnEffect
<1>6. Store!Put(e, row)
  BY <1>5, PutsRow
<1>7. row \in Store!Row
  BY <1>2 DEF Store!Row, Component
<1>8. Store!Create(e, row)
  BY <1>4, <1>6 DEF Store!Create
<1> QED
  BY <1>4, <1>7, <1>8 DEF Store!StoreNext

\* World::despawn destroys an entity and issues no handle.
LEMMA DespawnImplements ==
  ASSUME IInv, IInv', GenerationBound, NEW e \in order, Despawn(e)
  PROVE  Store!StoreNext
<1>1. AllocatorDespawn(e) /\ AllocatorInv
  BY DEF Despawn, IInv
<1>2. Issued' = Issued
  BY <1>1, DespawnIssues
<1>3. /\ order' = order \ {e}
      /\ \A d \in order' : StoreOf(d)' = StoreOf(d)
  BY DespawnEffect
<1>4. [x \in order |-> StoreOf(x)]'
        = [d \in order \ {e} |-> [x \in order |-> StoreOf(x)][d]]
  BY <1>3
<1>5. Store!Destroy(e)
  BY <1>2, <1>4 DEF Store!Destroy, Store!Live
<1>6. e \in [index : Slots, generation : 0 .. MaxGeneration]
  BY <1>1, LiveIsIssued
<1> QED
  BY <1>5, <1>6 DEF Store!StoreNext

\* World::add_component_default attaches a default.
LEMMA AddImplements ==
  ASSUME IInv, IInv', GenerationBound, NEW e \in order, NEW c \in Components,
         AddComponent(e, c)
  PROVE  Store!StoreNext
<1>1. PICK old : old = StoreOf(e)
  OBVIOUS
<1>2. PICK row : row = [old EXCEPT
               !.comps = [k \in DOMAIN @ \union {c} |->
                            IF k = c THEN Default ELSE @[k]]]
  OBVIOUS
<1>3. /\ c \notin DOMAIN old.comps
      /\ \A d \in order : d # e => StoreOf(d)' = StoreOf(d)
      /\ StoreOf(e)' =
           [comps |-> [k \in DOMAIN old.comps \union {c} |->
                         IF k \in DOMAIN old.comps THEN old.comps[k] ELSE Default],
            tags |-> slotTags[e.index]]
  BY <1>1, AddEffect
<1>4. old = [comps |-> old.comps, tags |-> slotTags[e.index]]
  BY <1>1 DEF StoreOf
<1>5. StoreOf(e)' = row
  <2>1. row = [comps |-> [k \in DOMAIN old.comps \union {c} |->
                            IF k = c THEN Default ELSE old.comps[k]],
               tags |-> slotTags[e.index]]
    BY <1>2, <1>4
  <2>2. [k \in DOMAIN old.comps \union {c} |->
           IF k = c THEN Default ELSE old.comps[k]]
          = [k \in DOMAIN old.comps \union {c} |->
               IF k \in DOMAIN old.comps THEN old.comps[k] ELSE Default]
    BY <1>3
  <2> QED
    BY <1>3, <2>1, <2>2
<1>6. UNCHANGED allocVars /\ order' = order \union {e}
  BY DEF AddComponent
<1>7. Store!Put(e, row) /\ Issued' = Issued
  BY <1>3, <1>5, <1>6, PutsRow, KeepsIssued
<1>8. Store!AttachDefault(e, c)
  BY <1>1, <1>2, <1>3, <1>7, LiveIsOrder DEF Store!AttachDefault
<1>9. e \in [index : Slots, generation : 0 .. MaxGeneration]
  BY LiveIsIssued DEF IInv
<1> QED
  BY <1>8, <1>9 DEF Store!StoreNext

\* World::remove_component detaches a component.
LEMMA RemoveImplements ==
  ASSUME IInv, IInv', GenerationBound, NEW e \in order, NEW c \in Components,
         RemoveComponent(e, c)
  PROVE  Store!StoreNext
<1>1. PICK old : old = StoreOf(e)
  OBVIOUS
<1>2. PICK row : row = [old EXCEPT !.comps = [k \in DOMAIN @ \ {c} |-> @[k]]]
  OBVIOUS
<1>3. /\ c \in DOMAIN old.comps
      /\ \A d \in order : d # e => StoreOf(d)' = StoreOf(d)
      /\ StoreOf(e)' = [comps |-> [k \in DOMAIN old.comps \ {c} |-> old.comps[k]],
                        tags |-> slotTags[e.index]]
  BY <1>1, RemoveEffect
<1>4. old = [comps |-> old.comps, tags |-> slotTags[e.index]]
  BY <1>1 DEF StoreOf
<1>5. StoreOf(e)' = row
  BY <1>2, <1>3, <1>4
<1>6. UNCHANGED allocVars /\ order' = order \union {e}
  BY DEF RemoveComponent
<1>7. Store!Put(e, row) /\ Issued' = Issued
  BY <1>3, <1>5, <1>6, PutsRow, KeepsIssued
<1>8. Store!Detach(e, c)
  BY <1>1, <1>2, <1>3, <1>7, LiveIsOrder DEF Store!Detach
<1>9. e \in [index : Slots, generation : 0 .. MaxGeneration]
  BY LiveIsIssued DEF IInv
<1> QED
  BY <1>8, <1>9 DEF Store!StoreNext

\* World::set_field writes a value.
LEMMA SetFieldImplements ==
  ASSUME IInv, IInv', GenerationBound, NEW e \in order, NEW c \in Components,
         NEW v \in Values, SetField(e, c, v)
  PROVE  Store!StoreNext
<1>1. PICK old : old = StoreOf(e)
  OBVIOUS
<1>2. PICK row : row = [old EXCEPT !.comps[c] = v]
  OBVIOUS
<1>3. /\ c \in DOMAIN old.comps
      /\ \A d \in order : d # e => StoreOf(d)' = StoreOf(d)
      /\ StoreOf(e)' = [comps |-> [k \in DOMAIN old.comps |->
                                     IF k = c THEN v ELSE old.comps[k]],
                        tags |-> slotTags[e.index]]
  BY <1>1, SetFieldEffect
<1>4. /\ old = [comps |-> old.comps, tags |-> slotTags[e.index]]
      /\ old.comps = [k \in DOMAIN old.comps |-> old.comps[k]]
  BY <1>1 DEF StoreOf
<1>5. StoreOf(e)' = row
  <2>1. [old.comps EXCEPT ![c] = v]
          = [k \in DOMAIN old.comps |-> IF k = c THEN v ELSE old.comps[k]]
    BY <1>4
  <2>2. row = [comps |-> [old.comps EXCEPT ![c] = v], tags |-> slotTags[e.index]]
    BY <1>2, <1>4
  <2> QED
    BY <1>3, <2>1, <2>2
<1>6. UNCHANGED allocVars /\ order' = order \union {e}
  BY DEF SetField
<1>7. Store!Put(e, row) /\ Issued' = Issued
  BY <1>3, <1>5, <1>6, PutsRow, KeepsIssued
<1>8. Store!Write(e, c, v)
  BY <1>1, <1>2, <1>3, <1>7, LiveIsOrder DEF Store!Write
<1>9. e \in [index : Slots, generation : 0 .. MaxGeneration]
  BY LiveIsIssued DEF IInv
<1> QED
  BY <1>8, <1>9 DEF Store!StoreNext

\* World::add_tag and World::remove_tag retag.
LEMMA TagsImplement ==
  ASSUME IInv, GenerationBound, NEW e \in order, NEW t \in Tags,
         AddTag(e, t) \/ RemoveTag(e, t)
  PROVE  Store!StoreNext
<1>1. PICK old : old = StoreOf(e)
  OBVIOUS
<1>2. PICK ts \in SUBSET Tags :
        StoreOf(e)' = [comps |-> old.comps, tags |-> ts]
  BY <1>1, TagsEffect
<1>3. PICK row : row = [old EXCEPT !.tags = ts]
  OBVIOUS
<1>4. old = [comps |-> old.comps, tags |-> slotTags[e.index]]
  BY <1>1 DEF StoreOf
<1>5. StoreOf(e)' = row
  BY <1>2, <1>3, <1>4
<1>6. UNCHANGED allocVars /\ order' = order \union {e}
  BY DEF AddTag, RemoveTag
<1>7. \A d \in order : d # e => StoreOf(d)' = StoreOf(d)
  BY TagsEffect
<1>8. Store!Put(e, row) /\ Issued' = Issued
  BY <1>5, <1>6, <1>7, PutsRow, KeepsIssued
<1>9. Store!Retag(e, ts)
  BY <1>1, <1>3, <1>8, LiveIsOrder DEF Store!Retag
<1>10. e \in [index : Slots, generation : 0 .. MaxGeneration]
  BY LiveIsIssued DEF IInv
<1> QED
  BY <1>2, <1>9, <1>10 DEF Store!StoreNext

\* A step of World maps to a step of the store, or to a stutter.
LEMMA NextImplements ==
  ASSUME IInv, IInv', GenerationBound, [WorldNext]_worldVars
  PROVE  [Store!StoreNext]_(Store!storeVars)
<1>1. ASSUME NEW K \in SUBSET Components, NEW tags \in SUBSET Tags,
             NEW comps \in Component(K), Spawn(comps, tags)
      PROVE  Store!StoreNext
  BY <1>1, SpawnImplements
<1>2. ASSUME NEW e \in order, Despawn(e)
      PROVE  Store!StoreNext
  BY <1>2, DespawnImplements
<1>3. ASSUME NEW e \in order, NEW c \in Components, AddComponent(e, c)
      PROVE  Store!StoreNext
  BY <1>3, AddImplements
<1>4. ASSUME NEW e \in order, NEW c \in Components, RemoveComponent(e, c)
      PROVE  Store!StoreNext
  BY <1>4, RemoveImplements
<1>5. ASSUME NEW e \in order, NEW c \in Components, NEW v \in Values,
             SetField(e, c, v)
      PROVE  Store!StoreNext
  BY <1>5, SetFieldImplements
<1>6. ASSUME NEW e \in order, NEW t \in Tags, AddTag(e, t) \/ RemoveTag(e, t)
      PROVE  Store!StoreNext
  BY <1>6, TagsImplement
<1>7. CASE UNCHANGED worldVars
  <2>1. \A e : StoreOf(e)' = StoreOf(e)
    BY <1>7 DEF worldVars, StoreOf
  <2>2. order' = order /\ Issued' = Issued
    BY <1>7 DEF worldVars, Issued
  <2> QED
    BY <2>1, <2>2 DEF Store!storeVars
<1> QED
  BY <1>1, <1>2, <1>3, <1>4, <1>5, <1>6, <1>7 DEF WorldNext

\* The empty world is the empty store.
LEMMA InitImplements == WorldInit => GenerationBound /\ Store!StoreInit
<1> SUFFICES ASSUME WorldInit
             PROVE  GenerationBound /\ Store!StoreInit
  OBVIOUS
<1>1. order = {} /\ slotCount = 0 /\ generations = [i \in Slots |-> 0]
  BY DEF WorldInit
<1>2. GenerationBound
  BY <1>1, WorldAssumption DEF GenerationBound
<1>3. Issued = {}
  BY <1>1 DEF Issued, Slots
<1>4. [e \in order |-> StoreOf(e)] = [h \in {} |-> {}]
  BY <1>1
<1> QED
  BY <1>2, <1>3, <1>4 DEF Store!StoreInit

\* No step of World takes a generation past the bound.
LEMMA BoundKept ==
  ASSUME IInv, GenerationBound, [WorldNext]_worldVars
  PROVE  GenerationBound'
<1>1. generations \in [Slots -> Nat] /\ MaxGeneration \in Nat
  BY WorldAssumption DEF IInv, AllocatorInv
<1>2. CASE generations' = generations
  BY <1>2 DEF GenerationBound
<1>3. CASE AllocatorSpawn
  <2>1. \/ generations' = generations
        \/ generations' = [generations EXCEPT ![NextHandle.index] = 0]
    BY <1>3 DEF AllocatorSpawn
  <2> QED
    BY <1>1, <2>1 DEF GenerationBound
<1>4. ASSUME NEW e \in order, AllocatorDespawn(e)
      PROVE  GenerationBound'
  BY <1>1, <1>4 DEF AllocatorDespawn, GenerationBound
<1>5. [WorldNext]_worldVars =>
        \/ generations' = generations
        \/ AllocatorSpawn
        \/ \E e \in order : AllocatorDespawn(e)
  BY DEF WorldNext, worldVars, allocVars, Spawn, Despawn, AddComponent,
         RemoveComponent, SetField, AddTag, RemoveTag
<1> QED
  BY <1>2, <1>3, <1>4, <1>5

\* The storage core of gummy_ecs, its allocator, archetypes and location index,
\* implements the abstract store: every step of World is one operation on one
\* entity, and a handle is issued once.
THEOREM StoreImplemented == WorldSpec => ImplementsStore
<1>1. WorldSpec => []GenerationBound
  <2>1. WorldInit => GenerationBound
    BY InitImplements
  <2>2. IInv /\ GenerationBound /\ [WorldNext]_worldVars => GenerationBound'
    BY BoundKept
  <2> QED
    BY <2>1, <2>2, WorldInvariant, PTL DEF WorldSpec
<1>2. WorldInit => Store!StoreInit
  BY InitImplements
<1>3. IInv /\ IInv' /\ GenerationBound /\ [WorldNext]_worldVars
        => [Store!StoreNext]_(Store!storeVars)
  BY NextImplements
<1> QED
  BY <1>1, <1>2, <1>3, WorldInvariant, PTL
     DEF WorldSpec, ImplementsStore, Store!StoreSpec
=============================================================================
