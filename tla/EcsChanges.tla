----------------------------- MODULE EcsChanges -----------------------------
(***************************************************************************)
(* The change journal of gummy_ecs on top of the storage core.  Every      *)
(* mutation of the world is recorded under a revision that only grows; per *)
(* entity and component the journal keeps the last revision it was added,  *)
(* removed and written at, for the current epoch (frame) only.  The query  *)
(* terms Added, Removed and Changed are answered from these three numbers. *)
(*                                                                         *)
(* Revision 0 stands for "never" (None); the first recorded one is 1.      *)
(***************************************************************************)
EXTENDS EcsWorld, FiniteSetsExt

CONSTANTS
  MaxRevision,  \* bound: mutations recorded in a behaviour
  MaxEpoch      \* bound: frames

ASSUME ChangesAssumption ==
  /\ MaxRevision \in Nat
  /\ MaxEpoch \in Nat
  /\ IsFiniteSet(Components)

VARIABLES
  epoch,       \* current_epoch, which World::set_frame moves
  revision,    \* latest_revision
  changes,     \* [<<entity, component>> -> last revisions], this epoch's only
  atStart      \* ghost: the store when the epoch began

journalVars == <<epoch, revision, changes, atStart>>
changeVars == <<worldVars, journalVars>>

-----------------------------------------------------------------------------
(* ChangeJournal                                                           *)

NoChange == [added |-> 0, removed |-> 0, changed |-> 0]

ChangeOf(e, c) ==
  IF <<e, c>> \in DOMAIN changes THEN changes[<<e, c>>] ELSE NoChange

\* Mutant: a write is summarised only where the component has no entry yet.
SummariseFirst(entries) ==
  changes' = [k \in DOMAIN changes \union DOMAIN entries |->
                IF k \in DOMAIN changes THEN changes[k]
                ELSE [NoChange EXCEPT ![entries[k].kind] = entries[k].at]]

\* Mutant: the summaries start again with every record.
SummariseAlone(entries) ==
  changes' = [k \in DOMAIN entries |->
                [NoChange EXCEPT ![entries[k].kind] = entries[k].at]]

\* update_change_summary for each of the records a method makes, given as
\* [<<entity, component>> -> which revision is set, and to what].
Summarise(entries) ==
  changes' = [k \in DOMAIN changes \union DOMAIN entries |->
                LET old == IF k \in DOMAIN changes THEN changes[k] ELSE NoChange
                IN IF k \in DOMAIN entries
                     THEN [old EXCEPT ![entries[k].kind] = entries[k].at]
                     ELSE old]

\* record, once per component of K, the first at revision first.
Entries(e, K, kind, first) ==
  [k \in {e} \X K |-> [kind |-> kind, at |-> first]]

\* ComponentChange::is_currently_added / _removed / _changed
IsAdded(e, c) == ChangeOf(e, c).added > ChangeOf(e, c).removed

IsRemoved(e, c) == ChangeOf(e, c).removed > ChangeOf(e, c).added

\* Mutant: a write counts whatever happened to the component after it.
IsWritten(e, c) == IsAdded(e, c) \/ ChangeOf(e, c).changed > 0

IsChanged(e, c) ==
  \/ IsAdded(e, c)
  \/ ChangeOf(e, c).changed > ChangeOf(e, c).removed

-----------------------------------------------------------------------------
(* The methods of World, with what they record.                            *)

StoreNow == [e \in order |-> StoreOf(e)]

ChangeInit ==
  /\ WorldInit
  /\ epoch = 0
  /\ revision = 0
  /\ changes = [k \in {} |-> NoChange]
  /\ atStart = [e \in {} |-> {}]

\* Mutant: a call is one record, however many components it touches.
AdvanceOnce(n) ==
  /\ revision + 1 <= MaxRevision
  /\ revision' = revision + 1
  /\ UNCHANGED <<epoch, atStart>>

\* n records are made by a step.
Advance(n) ==
  /\ revision + n <= MaxRevision
  /\ revision' = revision + n
  /\ UNCHANGED <<epoch, atStart>>

\* spawn_empty, spawn_batch, spawn_with_defaults: Spawned, then the components.
RecordSpawn(comps) ==
  /\ Spawn(comps, {})
  /\ Advance(1 + Cardinality(DOMAIN comps))
  /\ Summarise(Entries(NextHandle, DOMAIN comps, "added", revision + 2))

\* despawn: each component is removed, then the entity.
RecordDespawn(e) ==
  LET K == arch[loc[e.index].arch].key IN
  /\ Despawn(e)
  /\ Advance(1 + Cardinality(K))
  /\ Summarise(Entries(e, K, "removed", revision + 1))

RecordAdd(e, c) ==
  /\ AddComponent(e, c)
  /\ Advance(1)
  /\ Summarise(Entries(e, {c}, "added", revision + 1))

RecordRemove(e, c) ==
  /\ RemoveComponent(e, c)
  /\ Advance(1)
  /\ Summarise(Entries(e, {c}, "removed", revision + 1))

\* set_field records a write even of the value that was there.
RecordWrite(e, c, v) ==
  /\ SetField(e, c, v)
  /\ Advance(1)
  /\ Summarise(Entries(e, {c}, "changed", revision + 1))

\* set_field_f64_many and set_fields_f64_resolved_interleaved: the rows whose
\* value differs are written.
WriteRows(archs, c, writes) ==
  [a \in 1 .. Len(archs) |->
     IF c \notin archs[a].key THEN archs[a]
     ELSE [archs[a] EXCEPT !.columns[c] =
             [row \in 1 .. Len(@) |->
                LET e == archs[a].entities[row] IN
                IF e \in DOMAIN writes THEN writes[e] ELSE @[row]]]]

\* The row-local executor between begin_summary_batch and end_summary_batch:
\* rows are collected while they are written and summarised at the end, all
\* under the revision reached then.
RecordRows(c, writes) ==
  LET changed == {e \in DOMAIN writes : StoreOf(e).comps[c] # writes[e]} IN
  /\ arch' = WriteRows(arch, c, writes)
  /\ UNCHANGED <<allocVars, loc, slotTags, order>>
  /\ Advance(Cardinality(changed))
  /\ Summarise([k \in changed \X {c} |->
                  [kind |-> "changed", at |-> revision']])

\* World::set_frame with another frame number, which may be an earlier one:
\* the journal of the epoch that ends is dropped.
SetFrame(n) ==
  /\ n # epoch
  /\ epoch' = n
  /\ changes' = [k \in {} |-> NoChange]
  /\ atStart' = StoreNow
  /\ UNCHANGED <<worldVars, revision>>

Having(c) == {e \in order : c \in arch[loc[e.index].arch].key}

ChangeNext ==
  \/ \E K \in SUBSET Components : RecordSpawn([c \in K |-> Default])
  \/ \E e \in order : RecordDespawn(e)
  \/ \E e \in order, c \in Components :
       \/ RecordAdd(e, c)
       \/ RecordRemove(e, c)
       \/ \E v \in Values : RecordWrite(e, c, v)
  \/ \E c \in Components :
       \E W \in SUBSET Having(c) \ {{}} :
         \E writes \in [W -> Values] : RecordRows(c, writes)
  \/ \E n \in 0 .. MaxEpoch : SetFrame(n)

ChangeSpec == ChangeInit /\ [][ChangeNext]_changeVars

-----------------------------------------------------------------------------
(* Properties.                                                             *)

\* The journal speaks of this epoch's mutations only, under revisions it has
\* handed out, and no two transitions of a component share one.
JournalTypeOK ==
  /\ TypeOK
  /\ epoch \in 0 .. MaxEpoch
  /\ revision \in 0 .. MaxRevision
  /\ \A k \in DOMAIN changes :
       LET change == changes[k] IN
       /\ change \in [added : 0 .. revision, removed : 0 .. revision,
                      changed : 0 .. revision]
       /\ change.added # 0 => change.added # change.removed
       /\ change.changed # 0 => change.changed \notin {change.added, change.removed}

\* What the filters say of a live entity fits the components it has now:
\* Added and Changed only match a component that is there, Removed only one
\* that is not (docs/reference/ecs.md, Change filters).
FiltersFitStore ==
  \A e \in order, c \in Components :
    LET has == c \in DOMAIN StoreOf(e).comps IN
    /\ IsAdded(e, c) => has
    /\ IsRemoved(e, c) => ~has
    /\ IsChanged(e, c) => has

\* Whatever happened in between, a live entity that differs from what it was
\* when the epoch began is seen to differ: a component it has gained matches
\* Added, one it has lost Removed, one with another value Changed.
NoChangeMissed ==
  \A e \in order, c \in Components :
    LET now    == StoreOf(e).comps
        before == IF e \in DOMAIN atStart THEN atStart[e].comps
                                          ELSE [k \in {} |-> Default]
    IN /\ c \in DOMAIN now \ DOMAIN before => IsAdded(e, c) /\ IsChanged(e, c)
       /\ c \in DOMAIN before \ DOMAIN now => IsRemoved(e, c)
       /\ c \in DOMAIN before \cap DOMAIN now =>
            (now[c] # before[c] => IsChanged(e, c))

\* Within an epoch a match disappears only by the opposite transition of the
\* same component of the same entity: it is never lost to the mutations of
\* other entities, to writes, or to the rows a swap-remove displaces
\* (update_change_summary merges into the entry that is there).
MatchesHold ==
  [][\A e \in order \cap order', c \in Components :
       epoch' = epoch =>
         /\ IsAdded(e, c) => IsAdded(e, c)' \/ IsRemoved(e, c)'
         /\ IsRemoved(e, c) => IsRemoved(e, c)' \/ IsAdded(e, c)'
         /\ IsChanged(e, c) => IsChanged(e, c)' \/ IsRemoved(e, c)']_changeVars
=============================================================================
