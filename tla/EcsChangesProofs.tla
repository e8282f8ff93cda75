-------------------------- MODULE EcsChangesProofs --------------------------
(***************************************************************************)
(* The change journal of gummy_ecs fits the store, whatever was added,     *)
(* removed, written and despawned in whatever order.  The invariant needs, *)
(* besides the properties themselves, that no revision in the journal is   *)
(* ahead of the counter (so that the latest transition wins) and that a    *)
(* handle not yet issued is in neither the journal nor the snapshot of the *)
(* epoch (so that a new entity starts with no history).                    *)
(***************************************************************************)
EXTENDS EcsChanges, EcsWorldProofs, FiniteSetTheorems

-----------------------------------------------------------------------------
(* The journal's entries.                                                  *)

Kinds == {"added", "removed", "changed"}

\* An entry no later than revision n; the revisions of its transitions differ.
ChangeOK(change, n) ==
  /\ change \in [added : 0 .. n, removed : 0 .. n, changed : 0 .. n]
  /\ change.added # 0 => change.added # change.removed
  /\ change.changed # 0 => change.changed \notin {change.added, change.removed}

\* new is old with one of its revisions moved to at.
Marked(new, old, kind, at) ==
  /\ new.added = IF kind = "added" THEN at ELSE old.added
  /\ new.removed = IF kind = "removed" THEN at ELSE old.removed
  /\ new.changed = IF kind = "changed" THEN at ELSE old.changed

\* A record a method makes: which revision it sets, and to one not used before.
EntryOK(entry, n, m) ==
  /\ entry.kind \in Kinds
  /\ entry.at \in (n + 1) .. m

\* new is old with one of its revisions moved past n.
Marks(new, old, kind, n) ==
  /\ n \in Nat
  /\ ChangeOK(old, n)
  /\ kind \in Kinds
  /\ \E at \in Nat : at > n /\ Marked(new, old, kind, at)

\* update_change_summary moves one of the three revisions.
LEMMA MarkedIs ==
  ASSUME NEW n \in Nat, NEW m \in Nat, n <= m,
         NEW old, ChangeOK(old, n), NEW kind \in Kinds, NEW at \in (n + 1) .. m,
         NEW new, new = [old EXCEPT ![kind] = at]
  PROVE  ChangeOK(new, m) /\ Marked(new, old, kind, at)
<1>1. /\ old \in [added : 0 .. n, removed : 0 .. n, changed : 0 .. n]
      /\ at # 0 /\ at \in 0 .. m /\ at \notin 0 .. n
      /\ \A k \in 0 .. n : k \in 0 .. m
  BY DEF ChangeOK
<1>2. CASE kind = "added"
  <2>1. new = [old EXCEPT !.added = at]
    BY <1>2
  <2> QED
    BY <1>1, <1>2, <2>1 DEF ChangeOK, Marked
<1>3. CASE kind = "removed"
  <2>1. new = [old EXCEPT !.removed = at]
    BY <1>3
  <2> QED
    BY <1>1, <1>3, <2>1 DEF ChangeOK, Marked
<1>4. CASE kind = "changed"
  <2>1. new = [old EXCEPT !.changed = at]
    BY <1>4
  <2> QED
    BY <1>1, <1>4, <2>1 DEF ChangeOK, Marked
<1> QED
  BY <1>2, <1>3, <1>4 DEF Kinds

\* What the journal says of a component of an entity is an entry.
LEMMA ChangeOfOK ==
  ASSUME revision \in Nat, \A k \in DOMAIN changes : ChangeOK(changes[k], revision),
         NEW e, NEW c
  PROVE  ChangeOK(ChangeOf(e, c), revision)
<1>1. ChangeOK(NoChange, revision)
  BY DEF ChangeOK, NoChange
<1> QED
  BY <1>1 DEF ChangeOf

\* A record of each component of K for entity e moves its entry and no other.
LEMMA SummariseIs ==
  ASSUME revision \in Nat, revision' \in Nat, revision <= revision',
         \A k \in DOMAIN changes : ChangeOK(changes[k], revision),
         NEW entries, Summarise(entries),
         \A k \in DOMAIN entries : EntryOK(entries[k], revision, revision')
  PROVE  /\ DOMAIN changes' = DOMAIN changes \union DOMAIN entries
         /\ \A k \in DOMAIN changes' : ChangeOK(changes'[k], revision')
         /\ \A e, c : IF <<e, c>> \in DOMAIN entries
              THEN Marks(ChangeOf(e, c)', ChangeOf(e, c), entries[<<e, c>>].kind, revision)
              ELSE ChangeOf(e, c)' = ChangeOf(e, c)
<1> DEFINE Old(k) == IF k \in DOMAIN changes THEN changes[k] ELSE NoChange
<1>1. changes' = [k \in DOMAIN changes \union DOMAIN entries |->
                    IF k \in DOMAIN entries
                      THEN [Old(k) EXCEPT ![entries[k].kind] = entries[k].at]
                      ELSE Old(k)]
  BY DEF Summarise
<1>2. ASSUME NEW k PROVE ChangeOK(Old(k), revision)
  <2>1. ChangeOK(NoChange, revision)
    BY DEF ChangeOK, NoChange
  <2> QED
    BY <2>1
<1>3. \A e, c : /\ ChangeOf(e, c) = Old(<<e, c>>)
                /\ ChangeOf(e, c)' = IF <<e, c>> \in DOMAIN changes'
                                       THEN changes'[<<e, c>>] ELSE NoChange
  BY DEF ChangeOf
<1> HIDE DEF Old
<1>4. /\ DOMAIN changes' = DOMAIN changes \union DOMAIN entries
      /\ \A k \in DOMAIN changes' :
           changes'[k] = IF k \in DOMAIN entries
                           THEN [Old(k) EXCEPT ![entries[k].kind] = entries[k].at]
                           ELSE Old(k)
  BY <1>1
<1>5. ASSUME NEW k \in DOMAIN entries
      PROVE  /\ ChangeOK(changes'[k], revision')
             /\ Marks(changes'[k], Old(k), entries[k].kind, revision)
  <2>1. /\ entries[k].kind \in Kinds
        /\ entries[k].at \in (revision + 1) .. revision'
    BY DEF EntryOK
  <2>2. changes'[k] = [Old(k) EXCEPT ![entries[k].kind] = entries[k].at]
    BY <1>4
  <2>3. /\ ChangeOK(changes'[k], revision')
        /\ Marked(changes'[k], Old(k), entries[k].kind, entries[k].at)
    BY <1>2, <2>1, <2>2, MarkedIs
  <2>4. entries[k].at \in Nat /\ entries[k].at > revision
    BY <2>1
  <2> QED
    BY <1>2, <2>1, <2>3, <2>4 DEF Marks
<1>6. ASSUME NEW k \in DOMAIN changes', k \notin DOMAIN entries
      PROVE  ChangeOK(changes'[k], revision') /\ changes'[k] = Old(k)
  <2>1. changes'[k] = Old(k) /\ ChangeOK(Old(k), revision)
    BY <1>2, <1>4, <1>6
  <2>2. \A n \in 0 .. revision : n \in 0 .. revision'
    OBVIOUS
  <2> QED
    BY <2>1, <2>2 DEF ChangeOK
<1>7. ASSUME NEW k, k \notin DOMAIN changes'
      PROVE  Old(k) = NoChange
  BY <1>4, <1>7 DEF Old
<1> QED
  BY <1>3, <1>4, <1>5, <1>6, <1>7

-----------------------------------------------------------------------------
(* What the entry of a component of an entity has to say.                  *)

Gained(change) == change.added > change.removed

Lost(change) == change.removed > change.added

Moved(change) == Gained(change) \/ change.changed > change.removed

\* The entry of component c fits its entity's components, and tells them from
\* those it had when the epoch began.
Fits(change, now, before, c) ==
  /\ Gained(change) => c \in DOMAIN now
  /\ Lost(change) => c \notin DOMAIN now
  /\ Moved(change) => c \in DOMAIN now
  /\ c \in DOMAIN now \ DOMAIN before => Gained(change)
  /\ c \in DOMAIN before \ DOMAIN now => Lost(change)
  /\ c \in DOMAIN before \cap DOMAIN now => (now[c] # before[c] => Moved(change))

\* A match of the entry ends only by the opposite transition.
Succeeds(old, new) ==
  /\ Gained(old) => Gained(new) \/ Lost(new)
  /\ Lost(old) => Lost(new) \/ Gained(new)
  /\ Moved(old) => Moved(new) \/ Lost(new)

\* The numbers of an entry.
LEMMA MarkNumbers ==
  ASSUME NEW new, NEW old, NEW kind, NEW n, Marks(new, old, kind, n)
  PROVE  /\ n \in Nat
         /\ old.added \in 0 .. n /\ old.removed \in 0 .. n /\ old.changed \in 0 .. n
         /\ kind = "added" =>
              new.added > n /\ new.removed = old.removed /\ new.changed = old.changed
         /\ kind = "removed" =>
              new.removed > n /\ new.added = old.added /\ new.changed = old.changed
         /\ kind = "changed" =>
              new.changed > n /\ new.added = old.added /\ new.removed = old.removed
         /\ new.added \in Nat /\ new.removed \in Nat /\ new.changed \in Nat
<1>1. PICK at \in Nat : at > n /\ Marked(new, old, kind, at)
  BY DEF Marks
<1> QED
  BY <1>1 DEF Marks, ChangeOK, Marked, Kinds

\* Any record succeeds the entry it moves.
LEMMA MarkSucceeds ==
  ASSUME NEW new, NEW old, NEW kind, NEW n, Marks(new, old, kind, n)
  PROVE  Succeeds(old, new)
<1>1. /\ n \in Nat
      /\ old.added \in 0 .. n /\ old.removed \in 0 .. n /\ old.changed \in 0 .. n
      /\ kind = "added" =>
           new.added > n /\ new.removed = old.removed /\ new.changed = old.changed
      /\ kind = "removed" =>
           new.removed > n /\ new.added = old.added /\ new.changed = old.changed
      /\ kind = "changed" =>
           new.changed > n /\ new.added = old.added /\ new.removed = old.removed
      /\ new.added \in Nat /\ new.removed \in Nat /\ new.changed \in Nat
      /\ kind \in Kinds
  BY MarkNumbers DEF Marks
<1>2. CASE kind = "added"
  <2>1. Gained(new) /\ Moved(new)
    BY <1>1, <1>2 DEF Gained, Moved
  <2> QED
    BY <2>1 DEF Succeeds
<1>3. CASE kind = "removed"
  <2>1. Lost(new)
    BY <1>1, <1>3 DEF Lost
  <2> QED
    BY <2>1 DEF Succeeds
<1>4. CASE kind = "changed"
  <2>1. Moved(new)
    BY <1>1, <1>4 DEF Moved
  <2> QED
    BY <1>1, <1>4, <2>1 DEF Succeeds, Gained, Lost
<1> QED
  BY <1>1, <1>2, <1>3, <1>4 DEF Kinds

\* A component just added, removed or written has an entry that fits.
LEMMA MarkFits ==
  ASSUME NEW new, NEW old, NEW kind, NEW n, Marks(new, old, kind, n),
         NEW now, NEW end, NEW before, NEW c, Fits(old, now, before, c),
         kind = "added" => c \in DOMAIN end,
         kind = "removed" => c \notin DOMAIN end,
         kind = "changed" => c \in DOMAIN now \cap DOMAIN end
  PROVE  Fits(new, end, before, c)
<1>1. /\ n \in Nat
      /\ old.added \in 0 .. n /\ old.removed \in 0 .. n /\ old.changed \in 0 .. n
      /\ kind = "added" =>
           new.added > n /\ new.removed = old.removed /\ new.changed = old.changed
      /\ kind = "removed" =>
           new.removed > n /\ new.added = old.added /\ new.changed = old.changed
      /\ kind = "changed" =>
           new.changed > n /\ new.added = old.added /\ new.removed = old.removed
      /\ new.added \in Nat /\ new.removed \in Nat /\ new.changed \in Nat
      /\ kind \in Kinds
  BY MarkNumbers DEF Marks
<1>2. CASE kind = "added"
  <2>1. Gained(new) /\ Moved(new) /\ ~Lost(new)
    BY <1>1, <1>2 DEF Gained, Moved, Lost
  <2> QED
    BY <1>2, <2>1 DEF Fits
<1>3. CASE kind = "removed"
  <2>1. Lost(new) /\ ~Gained(new) /\ ~Moved(new)
    BY <1>1, <1>3 DEF Lost, Gained, Moved
  <2> QED
    BY <1>3, <2>1 DEF Fits
<1>4. CASE kind = "changed"
  <2>1. Moved(new) /\ (Gained(new) <=> Gained(old)) /\ (Lost(new) <=> Lost(old))
    BY <1>1, <1>4 DEF Moved, Gained, Lost
  <2> QED
    BY <1>4, <2>1 DEF Fits
<1> QED
  BY <1>1, <1>2, <1>3, <1>4 DEF Kinds

-----------------------------------------------------------------------------
(* The writes of a row-local plan.                                         *)

\* b is archetype a with the rows of column c that writes names overwritten.
ColumnWritten(b, a, c, W, writes) ==
  /\ GoodArchetype(a)
  /\ c \in a.key
  /\ writes \in [W -> Values]
  /\ b = [a EXCEPT !.columns[c] =
            [row \in 1 .. Len(@) |->
               LET e == a.entities[row] IN
               IF e \in DOMAIN writes THEN writes[e] ELSE @[row]]]

\* One column of an archetype is rewritten in place.
LEMMA WriteColumn ==
  ASSUME NEW b, NEW a, NEW c, NEW W, NEW writes, ColumnWritten(b, a, c, W, writes)
  PROVE  /\ GoodArchetype(b)
         /\ b.key = a.key /\ b.entities = a.entities
         /\ b.add = a.add /\ b.remove = a.remove
         /\ \A k \in a.key : \A row \in 1 .. Len(a.entities) :
              b.columns[k][row] = IF k = c /\ a.entities[row] \in W
                                    THEN writes[a.entities[row]]
                                    ELSE a.columns[k][row]
<1>1. /\ a.key \in SUBSET Components /\ a.entities \in Seq(Entity)
      /\ a.columns \in [Components -> Seq(Values)]
      /\ a.add \in [Components -> Nat] /\ a.remove \in [Components -> Nat]
      /\ a = [key |-> a.key, entities |-> a.entities, columns |-> a.columns,
              add |-> a.add, remove |-> a.remove]
      /\ c \in Components /\ c \in a.key /\ Aligned(a)
      /\ writes \in [W -> Values]
  BY DEF ColumnWritten, GoodArchetype, ArchetypeType
<1>2. PICK col : col = a.columns[c]
  OBVIOUS
<1>3. col \in Seq(Values) /\ Len(col) = Len(a.entities)
  BY <1>1, <1>2 DEF Aligned
<1>4. PICK new : new = [row \in 1 .. Len(col) |->
                          IF a.entities[row] \in W THEN writes[a.entities[row]]
                                                   ELSE col[row]]
  OBVIOUS
<1>5. new \in Seq(Values) /\ Len(new) = Len(col)
  <2>1. Len(col) \in Nat
    BY <1>3
  <2>2. \A row \in 1 .. Len(col) : col[row] \in Values
    BY <1>3
  <2>3. new \in [1 .. Len(col) -> Values]
    BY <1>1, <1>4, <2>2
  <2> QED
    BY <2>1, <2>3
<1>6. PICK cols : cols = [a.columns EXCEPT ![c] = new]
  OBVIOUS
<1>7. /\ cols \in [Components -> Seq(Values)]
      /\ cols[c] = new
      /\ \A d \in Components : d # c => cols[d] = a.columns[d]
  BY <1>1, <1>5, <1>6
<1>8. b = [key |-> a.key, entities |-> a.entities, columns |-> cols,
           add |-> a.add, remove |-> a.remove]
  <2>1. DOMAIN writes = W
    BY <1>1
  <2>2. b = [a EXCEPT !.columns = [a.columns EXCEPT ![c] =
                [row \in 1 .. Len(a.columns[c]) |->
                   IF a.entities[row] \in W THEN writes[a.entities[row]]
                                            ELSE a.columns[c][row]]]]
    BY <2>1 DEF ColumnWritten
  <2>3. b = [a EXCEPT !.columns = cols]
    BY <1>2, <1>4, <1>6, <2>2
  <2> QED
    BY <1>1, <2>3
<1>9. b \in ArchetypeType
  BY <1>1, <1>7, <1>8 DEF ArchetypeType
<1>10. Aligned(b)
  <2>1. \A d \in Components : Len(cols[d]) = Len(a.columns[d])
    BY <1>2, <1>5, <1>7
  <2> QED
    BY <1>1, <1>8, <2>1 DEF Aligned
<1>11. ASSUME NEW k \in a.key, NEW row \in 1 .. Len(a.entities)
       PROVE  cols[k][row] = IF k = c /\ a.entities[row] \in W
                               THEN writes[a.entities[row]] ELSE a.columns[k][row]
  <2>1. CASE k = c
    BY <1>2, <1>3, <1>4, <1>7, <2>1
  <2>2. CASE k # c
    BY <1>1, <1>7, <2>2
  <2> QED
    BY <2>1, <2>2
<1> QED
  BY <1>8, <1>9, <1>10, <1>11 DEF GoodArchetype

\* Rows stay where they are; the cells of the written component change
\* (set_field_f64_many, set_fields_f64_resolved_interleaved).
LEMMA WriteRowsIs ==
  ASSUME NEW archs, Indexed(archs), NEW c \in Components,
         NEW W, NEW writes \in [W -> Values], NEW bs, bs = WriteRows(archs, c, writes)
  PROVE  /\ Indexed(bs)
         /\ Len(archs) \in Nat /\ Len(bs) = Len(archs)
         /\ \A i \in 1 .. Len(archs) :
              /\ bs[i].key = archs[i].key
              /\ bs[i].entities = archs[i].entities
              /\ \A k \in archs[i].key : \A row \in 1 .. Len(archs[i].entities) :
                   bs[i].columns[k][row] =
                     IF k = c /\ archs[i].entities[row] \in W
                       THEN writes[archs[i].entities[row]]
                       ELSE archs[i].columns[k][row]
<1>1. /\ Len(archs) \in Nat
      /\ \A i \in 1 .. Len(archs) : GoodArchetype(archs[i])
  BY LenProperties DEF Indexed, Archetypes, GoodArchetype
<1>2. ASSUME NEW i \in 1 .. Len(archs)
      PROVE  /\ GoodArchetype(bs[i])
             /\ bs[i].key = archs[i].key /\ bs[i].entities = archs[i].entities
             /\ bs[i].add = archs[i].add /\ bs[i].remove = archs[i].remove
             /\ \A k \in archs[i].key : \A row \in 1 .. Len(archs[i].entities) :
                  bs[i].columns[k][row] =
                    IF k = c /\ archs[i].entities[row] \in W
                      THEN writes[archs[i].entities[row]]
                      ELSE archs[i].columns[k][row]
  <2>1. PICK a : a = archs[i]
    OBVIOUS
  <2>2. GoodArchetype(a)
    BY <1>1, <2>1
  <2>3. CASE c \notin a.key
    <3>1. bs[i] = a
      BY <1>1, <2>1, <2>3 DEF WriteRows
    <3> QED
      BY <2>1, <2>2, <2>3, <3>1
  <2>4. CASE c \in a.key
    <3>1. PICK b : b = bs[i]
      OBVIOUS
    <3>2. ColumnWritten(b, a, c, W, writes)
      BY <1>1, <2>1, <2>2, <2>4, <3>1 DEF WriteRows, ColumnWritten
    <3>3. /\ GoodArchetype(b)
          /\ b.key = a.key /\ b.entities = a.entities
          /\ b.add = a.add /\ b.remove = a.remove
          /\ \A k \in a.key : \A row \in 1 .. Len(a.entities) :
               b.columns[k][row] = IF k = c /\ a.entities[row] \in W
                                     THEN writes[a.entities[row]]
                                     ELSE a.columns[k][row]
      BY <3>2, WriteColumn
    <3> QED
      BY <2>1, <3>1, <3>3
  <2> QED
    BY <2>3, <2>4
<1>3. Len(bs) = Len(archs) /\ bs \in Seq(ArchetypeType)
  <2>1. DOMAIN bs = 1 .. Len(archs) /\ bs = [i \in 1 .. Len(archs) |-> bs[i]]
    BY DEF WriteRows
  <2>2. \A i \in 1 .. Len(archs) : bs[i] \in ArchetypeType
    BY <1>2 DEF GoodArchetype
  <2>3. bs \in [1 .. Len(archs) -> ArchetypeType]
    BY <2>1, <2>2
  <2> QED
    BY <1>1, <2>3
<1>4. KeysUnique(bs) /\ EdgesExact(bs)
  BY <1>1, <1>2, <1>3, SameKeysAndEdges DEF Indexed
<1>5. Indexed(bs)
  BY <1>2, <1>3, <1>4 DEF Indexed, Archetypes, GoodArchetype
<1> QED
  BY <1>1, <1>2, <1>3, <1>5

\* A row-local plan writes component c of the entities of W.
RowsWritten(c, W, writes) ==
  /\ c \in Components
  /\ W \in SUBSET Having(c)
  /\ writes \in [W -> Values]
  /\ RecordRows(c, writes)

\* What a row-local plan does to the storage and to each entity.
LEMMA RowsEffect ==
  ASSUME IInv, NEW c, NEW W, NEW writes, RowsWritten(c, W, writes)
  PROVE  /\ IInv'
         /\ \A d \in order :
              /\ DOMAIN StoreOf(d)'.comps = DOMAIN StoreOf(d).comps
              /\ \A k \in DOMAIN StoreOf(d).comps :
                   StoreOf(d)'.comps[k] = IF k = c /\ d \in W THEN writes[d]
                                          ELSE StoreOf(d).comps[k]
<1>1. AllocatorInv /\ StorageInv /\ SlotInv
  BY DEF IInv
<1>2. /\ arch' = WriteRows(arch, c, writes)
      /\ UNCHANGED allocVars
      /\ loc' = loc /\ order' = order /\ slotTags' = slotTags /\ alive' = alive
  BY DEF RowsWritten, RecordRows, allocVars
<1>3. PICK bs : bs = arch'
  OBVIOUS
<1>4. /\ Indexed(bs)
      /\ Len(arch) \in Nat /\ Len(bs) = Len(arch)
      /\ \A i \in 1 .. Len(arch) :
           /\ bs[i].key = arch[i].key
           /\ bs[i].entities = arch[i].entities
           /\ \A k \in arch[i].key : \A row \in 1 .. Len(arch[i].entities) :
                bs[i].columns[k][row] =
                  IF k = c /\ arch[i].entities[row] \in W
                    THEN writes[arch[i].entities[row]]
                    ELSE arch[i].columns[k][row]
  <2>1. bs = WriteRows(arch, c, writes) /\ Indexed(arch)
    BY <1>1, <1>2, <1>3 DEF StorageInv
  <2>2. c \in Components /\ writes \in [W -> Values]
    BY DEF RowsWritten
  <2> QED
    BY <2>1, <2>2, WriteRowsIs
<1>5. RowsExact(bs, loc, order)
  <2>1. RowsOf(bs) = RowsOf(arch)
    BY <1>4 DEF RowsOf
  <2>2. Placed(Len(arch), RowsOf(arch), loc, order)
    BY <1>1, RowsExactIsPlaced DEF StorageInv
  <2>3. Placed(Len(bs), RowsOf(bs), loc, order)
    BY <1>4, <2>1, <2>2
  <2> QED
    BY <2>3, RowsExactIsPlaced
<1>6. IInv'
  <2>1. AllocatorInv'
    BY <1>1, <1>2, AllocatorKept
  <2>2. StorageInv'
    BY <1>1, <1>2, <1>3, <1>4, <1>5 DEF StorageInv
  <2>3. SlotInv'
    BY <1>1, <1>2 DEF SlotInv
  <2> QED
    BY <2>1, <2>2, <2>3 DEF IInv
<1>7. ASSUME NEW d \in order
      PROVE  /\ DOMAIN StoreOf(d)'.comps = DOMAIN StoreOf(d).comps
             /\ \A k \in DOMAIN StoreOf(d).comps :
                  StoreOf(d)'.comps[k] = IF k = c /\ d \in W THEN writes[d]
                                         ELSE StoreOf(d).comps[k]
  <2>1. PICK i : i = loc[d.index].arch
    OBVIOUS
  <2>2. PICK row : row = loc[d.index].row
    OBVIOUS
  <2>3. /\ i \in 1 .. Len(arch) /\ row \in 1 .. Len(arch[i].entities)
        /\ arch[i].entities[row] = d
    BY <1>1, <2>1, <2>2 DEF StorageInv, RowsExact
  <2>4. /\ DOMAIN StoreOf(d).comps = arch[i].key
        /\ \A k \in arch[i].key : StoreOf(d).comps[k] = arch[i].columns[k][row]
    BY <2>1, <2>2 DEF StoreOf
  <2>5. StoreOf(d)' = [comps |-> [k \in bs[i].key |-> bs[i].columns[k][row]],
                       tags |-> slotTags[d.index]]
    BY <1>2, <1>3, <2>1, <2>2 DEF StoreOf
  <2>6. /\ DOMAIN StoreOf(d)'.comps = bs[i].key
        /\ \A k \in bs[i].key : StoreOf(d)'.comps[k] = bs[i].columns[k][row]
    BY <2>5
  <2>7. bs[i].key = arch[i].key
    BY <1>4, <2>3
  <2>8. \A k \in arch[i].key :
          bs[i].columns[k][row] = IF k = c /\ d \in W THEN writes[d]
                                  ELSE arch[i].columns[k][row]
    BY <1>4, <2>3
  <2> QED
    BY <2>4, <2>6, <2>7, <2>8
<1> QED
  BY <1>6, <1>7

-----------------------------------------------------------------------------
(* The invariant.                                                          *)

\* What the components of an entity were when the epoch began.
Before(e) ==
  IF e \in DOMAIN atStart THEN atStart[e].comps ELSE [k \in {} |-> Default]

\* The journal is typed and knows only handles that have been issued.
JournalInv ==
  /\ epoch \in 0 .. MaxEpoch
  /\ revision \in 0 .. MaxRevision
  /\ \A k \in DOMAIN changes : ChangeOK(changes[k], revision)
  /\ DOMAIN changes \subseteq Issued \X Components
  /\ DOMAIN atStart \subseteq Issued

\* Every entry fits the store.
FitInv ==
  \A e \in order, c \in Components :
    Fits(ChangeOf(e, c), StoreOf(e).comps, Before(e), c)

ChangeInv == IInv /\ GenerationBound /\ JournalInv /\ FitInv

\* The invariant gives the checked ones.
LEMMA ChangeInvGives ==
  ASSUME ChangeInv
  PROVE  JournalTypeOK /\ FiltersFitStore /\ NoChangeMissed
<1>1. JournalTypeOK
  <2>1. TypeOK
    BY IInvGives DEF ChangeInv
  <2> QED
    BY <2>1 DEF ChangeInv, JournalInv, JournalTypeOK, ChangeOK
<1>2. FiltersFitStore
  BY DEF ChangeInv, FitInv, Fits, FiltersFitStore, IsAdded, IsRemoved, IsChanged,
         Gained, Lost, Moved
<1>3. NoChangeMissed
  BY DEF ChangeInv, FitInv, Fits, NoChangeMissed, Before, IsAdded, IsRemoved, IsChanged,
         Gained, Lost, Moved
<1> QED
  BY <1>1, <1>2, <1>3

\* The entries a step records, under revisions it draws, for issued handles.
Recorded(entries) ==
  /\ Summarise(entries)
  /\ revision' \in revision .. MaxRevision
  /\ UNCHANGED <<epoch, atStart>>
  /\ Issued \subseteq Issued'
  /\ DOMAIN entries \subseteq Issued' \X Components
  /\ \A k \in DOMAIN entries : EntryOK(entries[k], revision, revision')

\* The journal stays typed when entries are recorded, and each entry succeeds
\* the one it moves.
LEMMA RecordedKept ==
  ASSUME JournalInv, NEW entries, Recorded(entries)
  PROVE  /\ JournalInv'
         /\ \A d, c : IF <<d, c>> \in DOMAIN entries
              THEN Marks(ChangeOf(d, c)', ChangeOf(d, c), entries[<<d, c>>].kind, revision)
              ELSE ChangeOf(d, c)' = ChangeOf(d, c)
         /\ \A d, c : Succeeds(ChangeOf(d, c), ChangeOf(d, c)')
         /\ \A d : Before(d)' = Before(d)
<1>1. /\ revision \in Nat /\ revision' \in Nat /\ revision <= revision'
      /\ revision' \in 0 .. MaxRevision
      /\ \A k \in DOMAIN changes : ChangeOK(changes[k], revision)
      /\ Summarise(entries)
      /\ \A k \in DOMAIN entries : EntryOK(entries[k], revision, revision')
  BY ChangesAssumption DEF JournalInv, Recorded
<1>2. /\ DOMAIN changes' = DOMAIN changes \union DOMAIN entries
      /\ \A k \in DOMAIN changes' : ChangeOK(changes'[k], revision')
      /\ \A d, c : IF <<d, c>> \in DOMAIN entries
           THEN Marks(ChangeOf(d, c)', ChangeOf(d, c), entries[<<d, c>>].kind, revision)
           ELSE ChangeOf(d, c)' = ChangeOf(d, c)
  BY <1>1, SummariseIs
<1>3. JournalInv'
  <2>1. DOMAIN changes \subseteq Issued \X Components /\ DOMAIN atStart \subseteq Issued
    BY DEF JournalInv
  <2>2. epoch' \in 0 .. MaxEpoch
    BY DEF JournalInv, Recorded
  <2>3. /\ Issued \subseteq Issued' /\ DOMAIN entries \subseteq Issued' \X Components
        /\ atStart' = atStart
    BY DEF Recorded
  <2>4. DOMAIN changes' \subseteq Issued' \X Components
    BY <1>2, <2>1, <2>3
  <2> QED
    BY <1>1, <1>2, <2>1, <2>2, <2>3, <2>4 DEF JournalInv
<1>4. ASSUME NEW d, NEW c
      PROVE  Succeeds(ChangeOf(d, c), ChangeOf(d, c)')
  <2>1. CASE <<d, c>> \in DOMAIN entries
    <3>1. Marks(ChangeOf(d, c)', ChangeOf(d, c), entries[<<d, c>>].kind, revision)
      BY <1>2, <2>1
    <3> QED
      BY <3>1, MarkSucceeds
  <2>2. CASE <<d, c>> \notin DOMAIN entries
    <3>1. ChangeOf(d, c)' = ChangeOf(d, c)
      BY <1>2, <2>2
    <3> QED
      BY <3>1 DEF Succeeds
  <2> QED
    BY <2>1, <2>2
<1>5. \A d : Before(d)' = Before(d)
  BY DEF Before, Recorded
<1> QED
  BY <1>2, <1>3, <1>4, <1>5

\* A step draws revisions for records of one kind of the components K of e.
Draws(e, K, kind, first) ==
  /\ e \in Issued'
  /\ K \in SUBSET Components
  /\ kind \in Kinds
  /\ first \in Nat /\ revision \in Nat /\ first > revision
  /\ K # {} => first <= revision'
  /\ Summarise(Entries(e, K, kind, first))
  /\ revision' \in revision .. MaxRevision
  /\ UNCHANGED <<epoch, atStart>>
  /\ Issued \subseteq Issued'

\* The entries of one entity are Recorded when their revision is new.
LEMMA EntriesRecorded ==
  ASSUME NEW e, NEW K, NEW kind, NEW first, Draws(e, K, kind, first)
  PROVE  /\ Recorded(Entries(e, K, kind, first))
         /\ DOMAIN Entries(e, K, kind, first) = {e} \X K
         /\ \A k \in {e} \X K : Entries(e, K, kind, first)[k].kind = kind
<1>1. /\ DOMAIN Entries(e, K, kind, first) = {e} \X K
      /\ \A k \in {e} \X K : Entries(e, K, kind, first)[k] = [kind |-> kind, at |-> first]
  BY DEF Entries
<1>2. ASSUME NEW k \in {e} \X K
      PROVE  EntryOK(Entries(e, K, kind, first)[k], revision, revision')
  <2>1. first \in (revision + 1) .. revision'
    BY ChangesAssumption DEF Draws
  <2> QED
    BY <1>1, <2>1 DEF EntryOK, Draws
<1>3. {e} \X K \subseteq Issued' \X Components
  BY DEF Draws
<1> QED
  BY <1>1, <1>2, <1>3 DEF Recorded, Draws

\* An entry that was not moved still fits an entity that has not changed.
LEMMA FitsStill ==
  ASSUME NEW change, NEW now, NEW before, NEW c, Fits(change, now, before, c),
         NEW end, c \in DOMAIN end <=> c \in DOMAIN now,
         c \in DOMAIN now => end[c] = now[c]
  PROVE  Fits(change, end, before, c)
  BY DEF Fits

\* Every entry but those of one entity fits after a step on that entity.
LEMMA OthersFit ==
  ASSUME JournalInv, FitInv, NEW entries, Recorded(entries),
         NEW d \in order, NEW c \in Components,
         <<d, c>> \notin DOMAIN entries, StoreOf(d)' = StoreOf(d)
  PROVE  Fits(ChangeOf(d, c)', StoreOf(d)'.comps, Before(d)', c)
<1>1. ChangeOf(d, c)' = ChangeOf(d, c) /\ Before(d)' = Before(d)
  BY RecordedKept
<1>2. Fits(ChangeOf(d, c), StoreOf(d).comps, Before(d), c)
  BY DEF FitInv
<1> QED
  BY <1>1, <1>2

\* The components of an archetype are finitely many.
LEMMA FiniteKeys ==
  ASSUME NEW K \in SUBSET Components
  PROVE  Cardinality(K) \in Nat /\ (K # {} => Cardinality(K) >= 1)
<1>1. IsFiniteSet(K)
  BY ChangesAssumption, FS_Subset
<1>2. Cardinality(K) \in Nat
  BY <1>1, FS_CardinalityType
<1>3. Cardinality(K) = 0 <=> K = {}
  BY <1>1, FS_EmptySet
<1> QED
  BY <1>2, <1>3

-----------------------------------------------------------------------------
(* The actions.  Each keeps the journal and the fit of every entry, and no *)
(* entry loses its match but to the opposite transition.                   *)

\* What is to be shown of a step of the journal.
GoodStep ==
  /\ JournalInv'
  /\ FitInv'
  /\ epoch' = epoch => \A d, c : Succeeds(ChangeOf(d, c), ChangeOf(d, c)')

\* A spawned entity has no history, and its components are all gained.
LEMMA SpawnRecorded ==
  ASSUME ChangeInv, IInv', NEW K \in SUBSET Components,
         RecordSpawn([c \in K |-> Default])
  PROVE  GoodStep
<1>1. PICK comps : comps = [c \in K |-> Default]
  OBVIOUS
<1>2. PICK e : e = NextHandle
  OBVIOUS
<1>3. comps \in Component(K) /\ DOMAIN comps = K
  BY <1>1, WorldAssumption DEF Component
<1>4. /\ Spawn(comps, {})
      /\ Advance(1 + Cardinality(K))
      /\ Summarise(Entries(e, K, "added", revision + 2))
  BY <1>1, <1>2, <1>3 DEF RecordSpawn
<1>5. /\ AllocatorInv /\ AllocatorInv' /\ IInv /\ GenerationBound /\ AllocatorSpawn
      /\ JournalInv /\ FitInv
  BY <1>4 DEF ChangeInv, IInv, Spawn
<1>6. e \notin Issued /\ Issued' = Issued \union {e}
  BY <1>2, <1>5, SpawnIssues
<1>7. /\ e \notin order /\ order' = order \union {e}
      /\ StoreOf(e)' = [comps |-> comps, tags |-> {}]
      /\ \A d \in order : StoreOf(d)' = StoreOf(d)
  BY <1>2, <1>3, <1>4, <1>5, SpawnEffect
<1>8. /\ revision \in Nat /\ revision' = revision + (1 + Cardinality(K))
      /\ revision' <= MaxRevision /\ UNCHANGED <<epoch, atStart>>
      /\ Cardinality(K) \in Nat /\ (K # {} => Cardinality(K) >= 1)
  BY <1>4, <1>5, FiniteKeys DEF Advance, JournalInv
<1>9. PICK entries : entries = Entries(e, K, "added", revision + 2)
  OBVIOUS
<1>10. /\ Recorded(entries)
       /\ DOMAIN entries = {e} \X K
       /\ \A k \in {e} \X K : entries[k].kind = "added"
  <2>1. /\ revision' \in revision .. MaxRevision
        /\ revision + 2 \in Nat /\ revision + 2 > revision
        /\ K # {} => revision + 2 <= revision'
    BY <1>8, ChangesAssumption
  <2>2. e \in Issued' /\ Issued \subseteq Issued' /\ "added" \in Kinds
    BY <1>6 DEF Kinds
  <2>3. PICK first : first = revision + 2
    OBVIOUS
  <2>4. Draws(e, K, "added", first) /\ entries = Entries(e, K, "added", first)
    BY <1>4, <1>8, <1>9, <2>1, <2>2, <2>3 DEF Draws
  <2>5. Recorded(entries) /\ DOMAIN entries = {e} \X K
    BY <2>4, EntriesRecorded
  <2>6. \A k \in {e} \X K : entries[k].kind = "added"
    BY <2>4 DEF Entries
  <2> QED
    BY <2>5, <2>6
<1>11. /\ JournalInv'
       /\ \A d, c : IF <<d, c>> \in DOMAIN entries
            THEN Marks(ChangeOf(d, c)', ChangeOf(d, c), entries[<<d, c>>].kind, revision)
            ELSE ChangeOf(d, c)' = ChangeOf(d, c)
       /\ \A d, c : Succeeds(ChangeOf(d, c), ChangeOf(d, c)')
       /\ \A d : Before(d)' = Before(d)
  BY <1>5, <1>10, RecordedKept
<1>12. ASSUME NEW d \in order, NEW c \in Components
       PROVE  Fits(ChangeOf(d, c)', StoreOf(d)'.comps, Before(d)', c)
  <2>1. <<d, c>> \notin DOMAIN entries
    BY <1>7, <1>10
  <2> QED
    BY <1>5, <1>7, <1>10, <2>1, OthersFit
<1>13. ASSUME NEW c \in Components
       PROVE  Fits(ChangeOf(e, c)', StoreOf(e)'.comps, Before(e)', c)
  <2>1. ChangeOf(e, c) = NoChange /\ Before(e) = [k \in {} |-> Default]
    BY <1>5, <1>6 DEF JournalInv, ChangeOf, Before
  <2>2. Fits(NoChange, Before(e), Before(e), c)
    BY <2>1 DEF Fits, NoChange, Gained, Lost, Moved
  <2>3. StoreOf(e)'.comps = comps /\ Before(e)' = Before(e)
    BY <1>7, <1>11
  <2>4. CASE c \in K
    <3>1. <<e, c>> \in DOMAIN entries /\ entries[<<e, c>>].kind = "added"
      BY <1>10, <2>4
    <3>2. Marks(ChangeOf(e, c)', NoChange, "added", revision)
      BY <1>11, <2>1, <3>1
    <3>3. Fits(ChangeOf(e, c)', comps, Before(e), c)
      BY <1>3, <2>2, <2>4, <3>2, MarkFits
    <3> QED
      BY <2>3, <3>3
  <2>5. CASE c \notin K
    <3>1. ChangeOf(e, c)' = NoChange
      BY <1>10, <1>11, <2>1, <2>5
    <3>2. Fits(NoChange, comps, Before(e), c)
      BY <1>3, <2>1, <2>2, <2>5, FitsStill
    <3> QED
      BY <2>3, <3>1, <3>2
  <2> QED
    BY <2>4, <2>5
<1>14. FitInv'
  BY <1>7, <1>12, <1>13 DEF FitInv
<1> QED
  BY <1>11, <1>14 DEF GoodStep

\* A despawn marks the entity's components lost and touches no other entry.
LEMMA DespawnRecorded ==
  ASSUME ChangeInv, IInv', NEW e \in order, RecordDespawn(e)
  PROVE  GoodStep
<1>1. PICK K : K = arch[loc[e.index].arch].key
  OBVIOUS
<1>2. /\ Despawn(e)
      /\ Advance(1 + Cardinality(K))
      /\ Summarise(Entries(e, K, "removed", revision + 1))
  BY <1>1 DEF RecordDespawn
<1>3. /\ AllocatorInv /\ IInv /\ GenerationBound /\ AllocatorDespawn(e)
      /\ JournalInv /\ FitInv /\ StorageInv
  BY <1>2 DEF ChangeInv, IInv, Despawn
<1>4. K \in SUBSET Components
  BY <1>1, <1>3, RowOfEntity DEF ArchetypeType
<1>5. Issued' = Issued /\ e \in Issued
  BY <1>3, DespawnIssues, LiveIsIssued
<1>6. /\ order' = order \ {e}
      /\ \A d \in order' : StoreOf(d)' = StoreOf(d)
  BY <1>2, <1>3, DespawnEffect
<1>7. /\ revision \in Nat /\ revision' = revision + (1 + Cardinality(K))
      /\ revision' <= MaxRevision /\ UNCHANGED <<epoch, atStart>>
      /\ Cardinality(K) \in Nat
  BY <1>2, <1>3, <1>4, FiniteKeys DEF Advance, JournalInv
<1>8. PICK entries : entries = Entries(e, K, "removed", revision + 1)
  OBVIOUS
<1>9. /\ Recorded(entries)
      /\ DOMAIN entries = {e} \X K
  <2>1. /\ revision' \in revision .. MaxRevision
        /\ revision + 1 \in Nat /\ revision + 1 > revision
        /\ revision + 1 <= revision'
    BY <1>7, ChangesAssumption
  <2>2. e \in Issued' /\ Issued \subseteq Issued' /\ "removed" \in Kinds
    BY <1>5 DEF Kinds
  <2>3. PICK first : first = revision + 1
    OBVIOUS
  <2>4. Draws(e, K, "removed", first) /\ entries = Entries(e, K, "removed", first)
    BY <1>2, <1>4, <1>7, <1>8, <2>1, <2>2, <2>3 DEF Draws
  <2> QED
    BY <2>4, EntriesRecorded
<1>10. JournalInv' /\ \A d, c : Succeeds(ChangeOf(d, c), ChangeOf(d, c)')
  BY <1>3, <1>9, RecordedKept
<1>11. ASSUME NEW d \in order', NEW c \in Components
       PROVE  Fits(ChangeOf(d, c)', StoreOf(d)'.comps, Before(d)', c)
  <2>1. d \in order /\ <<d, c>> \notin DOMAIN entries
    BY <1>6, <1>9
  <2> QED
    BY <1>3, <1>6, <1>9, <2>1, OthersFit
<1> QED
  BY <1>10, <1>11 DEF GoodStep, FitInv

\* A record of one component of a live entity.
RecordedOne(e, c, kind) ==
  /\ Advance(1)
  /\ Summarise(Entries(e, {c}, kind, revision + 1))
  /\ UNCHANGED allocVars
  /\ order' = order
  /\ \A d \in order : d # e => StoreOf(d)' = StoreOf(d)
  /\ \A k \in Components : k # c =>
       /\ k \in DOMAIN StoreOf(e)'.comps <=> k \in DOMAIN StoreOf(e).comps
       /\ k \in DOMAIN StoreOf(e).comps =>
            StoreOf(e)'.comps[k] = StoreOf(e).comps[k]
  /\ kind = "added" => c \in DOMAIN StoreOf(e)'.comps
  /\ kind = "removed" => c \notin DOMAIN StoreOf(e)'.comps
  /\ kind = "changed" =>
       c \in DOMAIN StoreOf(e).comps \cap DOMAIN StoreOf(e)'.comps

\* Adding, removing or writing one component keeps every entry fit.
LEMMA OneRecorded ==
  ASSUME ChangeInv, NEW e \in order, NEW c \in Components, NEW kind \in Kinds,
         RecordedOne(e, c, kind)
  PROVE  GoodStep
<1>1. /\ AllocatorInv /\ IInv /\ GenerationBound /\ JournalInv /\ FitInv
  BY DEF ChangeInv, IInv
<1>2. Issued' = Issued /\ e \in Issued /\ order' = order
  BY <1>1, KeepsIssued, LiveIsIssued DEF RecordedOne
<1>3. /\ revision \in Nat /\ revision' = revision + 1
      /\ revision' <= MaxRevision /\ UNCHANGED <<epoch, atStart>>
  BY <1>1 DEF RecordedOne, Advance, JournalInv
<1>4. PICK entries : entries = Entries(e, {c}, kind, revision + 1)
  OBVIOUS
<1>5. /\ Recorded(entries)
      /\ DOMAIN entries = {e} \X {c}
      /\ \A k \in {e} \X {c} : entries[k].kind = kind
  <2>1. /\ revision' \in revision .. MaxRevision
        /\ revision + 1 \in Nat /\ revision + 1 > revision
        /\ revision + 1 <= revision'
    BY <1>3, ChangesAssumption
  <2>2. e \in Issued' /\ Issued \subseteq Issued' /\ {c} \in SUBSET Components
    BY <1>2
  <2>3. Summarise(Entries(e, {c}, kind, revision + 1))
    BY DEF RecordedOne
  <2>4. PICK first : first = revision + 1
    OBVIOUS
  <2>5. Draws(e, {c}, kind, first) /\ entries = Entries(e, {c}, kind, first)
    BY <1>3, <1>4, <2>1, <2>2, <2>3, <2>4 DEF Draws
  <2> QED
    BY <2>5, EntriesRecorded
<1>6. /\ JournalInv'
      /\ \A d, k : IF <<d, k>> \in DOMAIN entries
           THEN Marks(ChangeOf(d, k)', ChangeOf(d, k), entries[<<d, k>>].kind, revision)
           ELSE ChangeOf(d, k)' = ChangeOf(d, k)
      /\ \A d, k : Succeeds(ChangeOf(d, k), ChangeOf(d, k)')
      /\ \A d : Before(d)' = Before(d)
  BY <1>1, <1>5, RecordedKept
<1>7. ASSUME NEW d \in order, d # e, NEW k \in Components
      PROVE  Fits(ChangeOf(d, k)', StoreOf(d)'.comps, Before(d)', k)
  <2>1. <<d, k>> \notin DOMAIN entries /\ StoreOf(d)' = StoreOf(d)
    BY <1>5, <1>7 DEF RecordedOne
  <2> QED
    BY <1>1, <1>5, <2>1, OthersFit
<1>8. ASSUME NEW k \in Components
      PROVE  Fits(ChangeOf(e, k)', StoreOf(e)'.comps, Before(e)', k)
  <2>1. Fits(ChangeOf(e, k), StoreOf(e).comps, Before(e), k) /\ Before(e)' = Before(e)
    BY <1>1, <1>6 DEF FitInv
  <2>2. PICK end : end = StoreOf(e)'.comps
    OBVIOUS
  <2>3. CASE k = c
    <3>1. Marks(ChangeOf(e, k)', ChangeOf(e, k), kind, revision)
      BY <1>5, <1>6, <2>3
    <3>2. /\ kind = "added" => k \in DOMAIN end
          /\ kind = "removed" => k \notin DOMAIN end
          /\ kind = "changed" => k \in DOMAIN StoreOf(e).comps \cap DOMAIN end
      BY <2>2, <2>3 DEF RecordedOne
    <3>3. Fits(ChangeOf(e, k)', end, Before(e), k)
      BY <2>1, <3>1, <3>2, MarkFits
    <3> QED
      BY <2>1, <2>2, <3>3
  <2>4. CASE k # c
    <3>1. ChangeOf(e, k)' = ChangeOf(e, k)
      BY <1>5, <1>6, <2>4
    <3>2. /\ k \in DOMAIN end <=> k \in DOMAIN StoreOf(e).comps
          /\ k \in DOMAIN StoreOf(e).comps => end[k] = StoreOf(e).comps[k]
      BY <2>2, <2>4 DEF RecordedOne
    <3>3. Fits(ChangeOf(e, k), end, Before(e), k)
      BY <2>1, <3>2, FitsStill
    <3> QED
      BY <2>1, <2>2, <3>1, <3>3
  <2> QED
    BY <2>3, <2>4
<1>9. FitInv'
  BY <1>2, <1>7, <1>8 DEF FitInv
<1> QED
  BY <1>6, <1>9 DEF GoodStep

\* World::add_component_default.
LEMMA AddRecorded ==
  ASSUME ChangeInv, IInv', NEW e \in order, NEW c \in Components, RecordAdd(e, c)
  PROVE  GoodStep
<1>1. IInv /\ AddComponent(e, c)
  BY DEF ChangeInv, RecordAdd
<1>2. /\ \A d \in order : d # e => StoreOf(d)' = StoreOf(d)
      /\ StoreOf(e)' =
           [comps |-> [k \in DOMAIN StoreOf(e).comps \union {c} |->
                         IF k \in DOMAIN StoreOf(e).comps
                           THEN StoreOf(e).comps[k] ELSE Default],
            tags |-> slotTags[e.index]]
  BY <1>1, AddEffect
<1>3. StoreOf(e)'.comps = [k \in DOMAIN StoreOf(e).comps \union {c} |->
                             IF k \in DOMAIN StoreOf(e).comps
                               THEN StoreOf(e).comps[k] ELSE Default]
  BY <1>2
<1>4. RecordedOne(e, c, "added")
  BY <1>1, <1>2, <1>3 DEF RecordedOne, RecordAdd, AddComponent
<1> QED
  BY <1>4, OneRecorded DEF Kinds

\* World::remove_component.
LEMMA RemoveRecorded ==
  ASSUME ChangeInv, IInv', NEW e \in order, NEW c \in Components, RecordRemove(e, c)
  PROVE  GoodStep
<1>1. IInv /\ RemoveComponent(e, c)
  BY DEF ChangeInv, RecordRemove
<1>2. /\ \A d \in order : d # e => StoreOf(d)' = StoreOf(d)
      /\ StoreOf(e)' =
           [comps |-> [k \in DOMAIN StoreOf(e).comps \ {c} |-> StoreOf(e).comps[k]],
            tags |-> slotTags[e.index]]
  BY <1>1, RemoveEffect
<1>3. StoreOf(e)'.comps = [k \in DOMAIN StoreOf(e).comps \ {c} |-> StoreOf(e).comps[k]]
  BY <1>2
<1>4. RecordedOne(e, c, "removed")
  BY <1>1, <1>2, <1>3 DEF RecordedOne, RecordRemove, RemoveComponent
<1> QED
  BY <1>4, OneRecorded DEF Kinds

\* World::set_field.
LEMMA WriteRecorded ==
  ASSUME ChangeInv, IInv', NEW e \in order, NEW c \in Components, NEW v \in Values,
         RecordWrite(e, c, v)
  PROVE  GoodStep
<1>1. IInv /\ SetField(e, c, v)
  BY DEF ChangeInv, RecordWrite
<1>2. /\ \A d \in order : d # e => StoreOf(d)' = StoreOf(d)
      /\ c \in DOMAIN StoreOf(e).comps
      /\ StoreOf(e)' =
           [comps |-> [k \in DOMAIN StoreOf(e).comps |->
                         IF k = c THEN v ELSE StoreOf(e).comps[k]],
            tags |-> slotTags[e.index]]
  BY <1>1, SetFieldEffect
<1>3. StoreOf(e)'.comps = [k \in DOMAIN StoreOf(e).comps |->
                             IF k = c THEN v ELSE StoreOf(e).comps[k]]
  BY <1>2
<1>4. RecordedOne(e, c, "changed")
  BY <1>1, <1>2, <1>3 DEF RecordedOne, RecordWrite, SetField
<1> QED
  BY <1>4, OneRecorded DEF Kinds

\* The rows of a plan are summarised under the revision reached at its end.
LEMMA RowsRecorded ==
  ASSUME ChangeInv, NEW c, NEW W, NEW writes, RowsWritten(c, W, writes)
  PROVE  GoodStep
<1>1. PICK changed : changed = {e \in W : StoreOf(e).comps[c] # writes[e]}
  OBVIOUS
<1>2. PICK entries : entries = [k \in changed \X {c} |->
                                  [kind |-> "changed", at |-> revision']]
  OBVIOUS
<1>3. /\ Advance(Cardinality(changed))
      /\ Summarise(entries)
      /\ UNCHANGED allocVars /\ order' = order
  BY <1>1, <1>2 DEF RowsWritten, RecordRows
<1>4. AllocatorInv /\ IInv /\ GenerationBound /\ JournalInv /\ FitInv
  BY DEF ChangeInv, IInv
<1>5. W \subseteq order /\ changed \subseteq order /\ Issued' = Issued
      /\ \A e \in W : c \in DOMAIN StoreOf(e).comps
  BY <1>1, <1>3, KeepsIssued DEF RowsWritten, Having, StoreOf
<1>6. /\ revision \in Nat /\ revision' = revision + Cardinality(changed)
      /\ revision' <= MaxRevision /\ UNCHANGED <<epoch, atStart>>
      /\ Cardinality(changed) \in Nat
      /\ changed # {} => Cardinality(changed) >= 1
  <2>1. IsFiniteSet(changed)
    BY <1>4, <1>5, FiniteOrder, FS_Subset
  <2>2. Cardinality(changed) \in Nat /\ (Cardinality(changed) = 0 <=> changed = {})
    BY <2>1, FS_CardinalityType, FS_EmptySet
  <2> QED
    BY <1>3, <1>4, <2>2 DEF Advance, JournalInv
<1>7. Recorded(entries)
  <2>1. /\ DOMAIN entries = changed \X {c}
        /\ \A k \in changed \X {c} : entries[k] = [kind |-> "changed", at |-> revision']
    BY <1>2
  <2>2. ASSUME NEW k \in changed \X {c}
        PROVE  EntryOK(entries[k], revision, revision')
    <3>1. changed # {}
      OBVIOUS
    <3>2. revision' \in (revision + 1) .. revision'
      BY <1>6, <3>1
    <3> QED
      BY <2>1, <3>2 DEF EntryOK, Kinds
  <2>3. changed \subseteq Issued
    BY <1>4, <1>5, LiveIsIssued
  <2>4. revision' \in revision .. MaxRevision
    BY <1>6, ChangesAssumption
  <2> QED
    BY <1>3, <1>5, <1>6, <2>1, <2>2, <2>3, <2>4 DEF Recorded, RowsWritten
<1>8. /\ JournalInv'
      /\ \A d, k : IF <<d, k>> \in DOMAIN entries
           THEN Marks(ChangeOf(d, k)', ChangeOf(d, k), entries[<<d, k>>].kind, revision)
           ELSE ChangeOf(d, k)' = ChangeOf(d, k)
      /\ \A d, k : Succeeds(ChangeOf(d, k), ChangeOf(d, k)')
      /\ \A d : Before(d)' = Before(d)
  BY <1>4, <1>7, RecordedKept
<1>9. \A d \in order :
        /\ DOMAIN StoreOf(d)'.comps = DOMAIN StoreOf(d).comps
        /\ \A k \in DOMAIN StoreOf(d).comps :
             StoreOf(d)'.comps[k] = IF k = c /\ d \in W THEN writes[d]
                                    ELSE StoreOf(d).comps[k]
  BY <1>4, RowsEffect
<1>10. ASSUME NEW d \in order, NEW k \in Components
       PROVE  Fits(ChangeOf(d, k)', StoreOf(d)'.comps, Before(d)', k)
  <2>1. Fits(ChangeOf(d, k), StoreOf(d).comps, Before(d), k) /\ Before(d)' = Before(d)
    BY <1>4, <1>8 DEF FitInv
  <2>2. PICK end : end = StoreOf(d)'.comps
    OBVIOUS
  <2>3. /\ DOMAIN end = DOMAIN StoreOf(d).comps
        /\ k \in DOMAIN StoreOf(d).comps =>
             end[k] = IF k = c /\ d \in W THEN writes[d] ELSE StoreOf(d).comps[k]
    BY <1>9, <2>2
  <2>4. CASE d \in changed /\ k = c
    <3>1. <<d, k>> \in DOMAIN entries /\ entries[<<d, k>>].kind = "changed"
      BY <1>2, <2>4
    <3>2. Marks(ChangeOf(d, k)', ChangeOf(d, k), "changed", revision)
      BY <1>8, <3>1
    <3>3. k \in DOMAIN StoreOf(d).comps \cap DOMAIN end
      BY <1>1, <1>5, <2>3, <2>4
    <3>4. Fits(ChangeOf(d, k)', end, Before(d), k)
      BY <2>1, <3>2, <3>3, MarkFits
    <3> QED
      BY <2>1, <2>2, <3>4
  <2>5. CASE ~(d \in changed /\ k = c)
    <3>1. ChangeOf(d, k)' = ChangeOf(d, k)
      BY <1>2, <1>8, <2>5
    <3>2. k \in DOMAIN StoreOf(d).comps => end[k] = StoreOf(d).comps[k]
      BY <1>1, <2>3, <2>5
    <3>3. Fits(ChangeOf(d, k), end, Before(d), k)
      BY <2>1, <2>3, <3>2, FitsStill
    <3> QED
      BY <2>1, <2>2, <3>1, <3>3
  <2> QED
    BY <2>4, <2>5
<1>11. FitInv'
  BY <1>3, <1>10 DEF FitInv
<1> QED
  BY <1>8, <1>11 DEF GoodStep

\* A new epoch starts with an empty journal and the store as it is.
LEMMA FrameRecorded ==
  ASSUME ChangeInv, NEW n \in 0 .. MaxEpoch, SetFrame(n)
  PROVE  GoodStep /\ IInv' /\ GenerationBound'
<1>1. /\ epoch' = n /\ n # epoch /\ changes' = [k \in {} |-> NoChange]
      /\ atStart' = StoreNow /\ revision' = revision
      /\ worldVars' = worldVars
  BY DEF SetFrame
<1>2. /\ slotCount' = slotCount /\ generations' = generations /\ alive' = alive
      /\ free' = free /\ arch' = arch /\ loc' = loc /\ slotTags' = slotTags
      /\ order' = order
  BY <1>1 DEF worldVars
<1>3. IInv /\ AllocatorInv /\ GenerationBound /\ JournalInv
  BY DEF ChangeInv, IInv
<1>4. IInv'
  BY <1>1, <1>3, NextIInv
<1>5. GenerationBound' /\ Issued' = Issued
  BY <1>2, <1>3 DEF GenerationBound, Issued
<1>6. JournalInv'
  <2>1. DOMAIN changes' = {}
    BY <1>1
  <2>2. DOMAIN atStart' = order
    BY <1>1 DEF StoreNow
  <2>3. order \subseteq Issued
    BY <1>3, LiveIsIssued
  <2> QED
    BY <1>1, <1>3, <1>5, <2>1, <2>2, <2>3 DEF JournalInv
<1>7. ASSUME NEW e \in order, NEW c \in Components
      PROVE  Fits(ChangeOf(e, c)', StoreOf(e)'.comps, Before(e)', c)
  <2>1. ChangeOf(e, c)' = NoChange
    BY <1>1 DEF ChangeOf
  <2>2. StoreOf(e)' = StoreOf(e)
    BY <1>2 DEF StoreOf
  <2>3. Before(e)' = StoreOf(e).comps
    BY <1>1 DEF Before, StoreNow
  <2> QED
    BY <2>1, <2>2, <2>3 DEF Fits, NoChange, Gained, Lost, Moved
<1>8. FitInv'
  BY <1>2, <1>7 DEF FitInv
<1> QED
  BY <1>1, <1>4, <1>5, <1>6, <1>8 DEF GoodStep

\* The empty world has an empty journal.
LEMMA InitChanges == ChangeInit => ChangeInv
<1> SUFFICES ASSUME ChangeInit PROVE ChangeInv
  OBVIOUS
<1>1. WorldInit /\ order = {}
  BY DEF ChangeInit, WorldInit
<1>2. IInv /\ GenerationBound
  BY <1>1, InitIInv, InitImplements
<1>3. DOMAIN changes = {} /\ DOMAIN atStart = {}
  BY DEF ChangeInit
<1>4. JournalInv
  BY <1>3, ChangesAssumption DEF ChangeInit, JournalInv
<1> QED
  BY <1>1, <1>2, <1>4 DEF ChangeInv, FitInv

\* A method of World keeps the invariant of the storage core.
LEMMA WorldStep ==
  ASSUME ChangeInv, WorldNext
  PROVE  IInv' /\ GenerationBound'
<1>1. IInv /\ GenerationBound
  BY DEF ChangeInv
<1> QED
  BY <1>1, NextIInv, BoundKept

\* The spawn of the journal is one of World.
LEMMA SpawnIsWorlds ==
  ASSUME NEW K \in SUBSET Components, RecordSpawn([c \in K |-> Default])
  PROVE  WorldNext
<1>1. PICK comps : comps = [c \in K |-> Default]
  OBVIOUS
<1>2. comps \in Component(K)
  BY <1>1, WorldAssumption DEF Component
<1>3. Spawn(comps, {})
  BY <1>1 DEF RecordSpawn
<1>4. {} \in SUBSET Tags
  OBVIOUS
<1> QED
  BY <1>2, <1>3, <1>4 DEF WorldNext

\* Every step of the journal's world keeps the invariant, and within an epoch
\* each entry succeeds the one before it.
LEMMA NextChanges ==
  ASSUME ChangeInv, [ChangeNext]_changeVars
  PROVE  IInv' /\ GenerationBound' /\ GoodStep
<1>1. ASSUME NEW K \in SUBSET Components, RecordSpawn([c \in K |-> Default])
      PROVE  IInv' /\ GenerationBound' /\ GoodStep
  <2>1. IInv' /\ GenerationBound'
    BY <1>1, SpawnIsWorlds, WorldStep
  <2> QED
    BY <1>1, <2>1, SpawnRecorded
<1>2. ASSUME NEW e \in order, RecordDespawn(e)
      PROVE  IInv' /\ GenerationBound' /\ GoodStep
  <2>1. WorldNext
    BY <1>2 DEF RecordDespawn, WorldNext
  <2> QED
    BY <1>2, <2>1, WorldStep, DespawnRecorded
<1>3. ASSUME NEW e \in order, NEW c \in Components, RecordAdd(e, c)
      PROVE  IInv' /\ GenerationBound' /\ GoodStep
  <2>1. WorldNext
    BY <1>3 DEF RecordAdd, WorldNext
  <2> QED
    BY <1>3, <2>1, WorldStep, AddRecorded
<1>4. ASSUME NEW e \in order, NEW c \in Components, RecordRemove(e, c)
      PROVE  IInv' /\ GenerationBound' /\ GoodStep
  <2>1. WorldNext
    BY <1>4 DEF RecordRemove, WorldNext
  <2> QED
    BY <1>4, <2>1, WorldStep, RemoveRecorded
<1>5. ASSUME NEW e \in order, NEW c \in Components, NEW v \in Values, RecordWrite(e, c, v)
      PROVE  IInv' /\ GenerationBound' /\ GoodStep
  <2>1. WorldNext
    BY <1>5 DEF RecordWrite, WorldNext
  <2> QED
    BY <1>5, <2>1, WorldStep, WriteRecorded
<1>6. ASSUME NEW c \in Components, NEW W \in SUBSET Having(c) \ {{}},
             NEW writes \in [W -> Values], RecordRows(c, writes)
      PROVE  IInv' /\ GenerationBound' /\ GoodStep
  <2>1. RowsWritten(c, W, writes)
    BY <1>6 DEF RowsWritten
  <2>2. IInv'
    BY <2>1, RowsEffect DEF ChangeInv
  <2>3. GenerationBound'
    BY <1>6 DEF ChangeInv, RecordRows, allocVars, GenerationBound
  <2> QED
    BY <2>1, <2>2, <2>3, RowsRecorded
<1>7. ASSUME NEW n \in 0 .. MaxEpoch, SetFrame(n)
      PROVE  IInv' /\ GenerationBound' /\ GoodStep
  BY <1>7, FrameRecorded
<1>8. CASE UNCHANGED changeVars
  <2>1. /\ UNCHANGED worldVars /\ UNCHANGED journalVars
    BY <1>8 DEF changeVars
  <2>2. /\ slotCount' = slotCount /\ generations' = generations /\ alive' = alive
        /\ arch' = arch /\ loc' = loc /\ slotTags' = slotTags /\ order' = order
    BY <2>1 DEF worldVars
  <2>3. epoch' = epoch /\ revision' = revision /\ changes' = changes /\ atStart' = atStart
    BY <2>1 DEF journalVars
  <2>4. IInv' /\ GenerationBound'
    BY <2>1, NextIInv, BoundKept DEF ChangeInv
  <2>5. Issued' = Issued
    BY <2>2 DEF Issued
  <2>6. JournalInv'
    BY <2>3, <2>5 DEF ChangeInv, JournalInv
  <2>7. /\ \A e : StoreOf(e)' = StoreOf(e) /\ Before(e)' = Before(e)
        /\ \A e, c : ChangeOf(e, c)' = ChangeOf(e, c)
    BY <2>2, <2>3 DEF StoreOf, Before, ChangeOf
  <2>8. FitInv'
    BY <2>2, <2>7 DEF ChangeInv, FitInv
  <2>9. \A e, c : Succeeds(ChangeOf(e, c), ChangeOf(e, c)')
    BY <2>7 DEF Succeeds
  <2> QED
    BY <2>4, <2>6, <2>8, <2>9 DEF GoodStep
<1> QED
  BY <1>1, <1>2, <1>3, <1>4, <1>5, <1>6, <1>7, <1>8 DEF ChangeNext

-----------------------------------------------------------------------------
(* The theorems.                                                           *)

\* The journal and the store stay in step, whatever World records.
THEOREM ChangeInvariant == ChangeSpec => []ChangeInv
<1>1. ChangeInit => ChangeInv
  BY InitChanges
<1>2. ChangeInv /\ [ChangeNext]_changeVars => ChangeInv'
  BY NextChanges DEF GoodStep, ChangeInv
<1> QED
  BY <1>1, <1>2, PTL DEF ChangeSpec

\* The journal's revisions are ones it has drawn, and the transitions of a
\* component never share one (ChangeJournal::record).
THEOREM JournalTypesCorrect == ChangeSpec => []JournalTypeOK
<1>1. ChangeInv => JournalTypeOK
  BY ChangeInvGives
<1> QED
  BY <1>1, ChangeInvariant, PTL

\* Added, Removed and Changed never match a live entity whose components say
\* otherwise (ComponentChange::is_currently_added and its siblings).
THEOREM FiltersCorrect == ChangeSpec => []FiltersFitStore
<1>1. ChangeInv => FiltersFitStore
  BY ChangeInvGives
<1> QED
  BY <1>1, ChangeInvariant, PTL

\* A component gained, lost or written in this epoch is seen by its filter.
THEOREM ChangesCorrect == ChangeSpec => []NoChangeMissed
<1>1. ChangeInv => NoChangeMissed
  BY ChangeInvGives
<1> QED
  BY <1>1, ChangeInvariant, PTL

\* The filters are what an entry has to say.
LEMMA FiltersAre ==
  ASSUME NEW e, NEW c
  PROVE  /\ IsAdded(e, c) = Gained(ChangeOf(e, c))
         /\ IsRemoved(e, c) = Lost(ChangeOf(e, c))
         /\ IsChanged(e, c) = Moved(ChangeOf(e, c))
         /\ IsAdded(e, c)' = Gained(ChangeOf(e, c)')
         /\ IsRemoved(e, c)' = Lost(ChangeOf(e, c)')
         /\ IsChanged(e, c)' = Moved(ChangeOf(e, c)')
  BY DEF IsAdded, IsRemoved, IsChanged, Gained, Lost, Moved

\* Within an epoch a match ends only by the opposite transition of the same
\* component of the same entity (update_change_summary).
THEOREM MatchesCorrect == ChangeSpec => MatchesHold
<1> DEFINE Holds ==
      \A e \in order \cap order', c \in Components :
        epoch' = epoch =>
          /\ IsAdded(e, c) => IsAdded(e, c)' \/ IsRemoved(e, c)'
          /\ IsRemoved(e, c) => IsRemoved(e, c)' \/ IsAdded(e, c)'
          /\ IsChanged(e, c) => IsChanged(e, c)' \/ IsRemoved(e, c)'
<1>1. ASSUME ChangeInv, [ChangeNext]_changeVars
      PROVE  Holds
  <2>1. ASSUME NEW e, NEW c, epoch' = epoch
        PROVE  Succeeds(ChangeOf(e, c), ChangeOf(e, c)')
    BY <1>1, <2>1, NextChanges DEF GoodStep
  <2> QED
    BY <2>1, FiltersAre DEF Succeeds
<1>2. ChangeInv /\ [ChangeNext]_changeVars => [Holds]_changeVars
  BY <1>1
<1> QED
  BY <1>2, ChangeInvariant, PTL DEF ChangeSpec, MatchesHold
=============================================================================
