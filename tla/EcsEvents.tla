----------------------------- MODULE EcsEvents ------------------------------
(***************************************************************************)
(* The typed events of gummy_ecs: one bounded ring of records per event    *)
(* type, a sequence number shared by all types, frame-based retention and  *)
(* cursors readers resume from.  Payloads are left out: a record is known  *)
(* by its sequence number.                                                 *)
(***************************************************************************)
EXTENDS Naturals, Sequences, FiniteSets, SequencesExt, Orders

CONSTANTS
  EventTypes,    \* event type names
  MaxEmits,      \* bound: records emitted in a behaviour
  MaxFrame,      \* bound: frames
  MaxCapacity,   \* bound: capacities a host asks for, 0 among them
  MaxRetention   \* bound: retentions a host asks for, 0 among them

ASSUME EventsAssumption ==
  /\ MaxEmits \in Nat
  /\ MaxFrame \in Nat
  /\ MaxCapacity \in Nat \ {0}
  /\ MaxRetention \in Nat \ {0}

VARIABLES
  currentFrame,   \* World.current_frame
  queues,         \* [types that have a ring -> its records, oldest first]
  nextSequence,   \* next_sequence
  retention,      \* retention_frames
  capacity,       \* queue_capacity
  counters,       \* dropped_records, event_records_pruned and _cleared
  cursor,         \* per type, the EventReaderCursor of one reader of it
  delivered,      \* ghost: what that reader was given, in order
  log,            \* ghost: every record of a type
  lost,           \* ghost: sequence numbers evicted by a full ring or cleared
  horizon         \* ghost: the highest min_frame begin_frame has applied

ringVars == <<queues, nextSequence, retention, capacity, counters>>
ghostVars == <<log, lost, horizon>>
readerVars == <<cursor, delivered>>
eventVars == <<currentFrame, ringVars, readerVars, ghostVars>>

Record == [frame : 0 .. MaxFrame, sequence : 0 .. MaxEmits]

Records(t) == IF t \in DOMAIN queues THEN queues[t] ELSE <<>>

Sequences(q) == {q[i].sequence : i \in DOMAIN q}

\* The places of all rings that hold a record.
RecordCount(qs) == Cardinality(UNION {{t} \X DOMAIN qs[t] : t \in DOMAIN qs})

EventsInit ==
  /\ currentFrame = 0
  /\ queues = [t \in {} |-> <<>>]
  /\ nextSequence = 0
  /\ retention = 1
  /\ capacity = MaxCapacity
  /\ counters = [dropped |-> 0, pruned |-> 0, cleared |-> 0]
  /\ cursor = [t \in EventTypes |-> 0]
  /\ delivered = [t \in EventTypes |-> <<>>]
  /\ log = [t \in EventTypes |-> <<>>]
  /\ lost = {}
  /\ horizon = 0

-----------------------------------------------------------------------------
(* Writers and the host's settings.                                        *)

AtLeastOne(n) == IF n = 0 THEN 1 ELSE n

\* The last n records of a ring.
Newest(q, n) == IF Len(q) <= n THEN q ELSE SubSeq(q, Len(q) - n + 1, Len(q))

\* Mutant: the record a full ring gives up is not counted.
EmitUncounted(t) ==
  LET r    == [frame |-> currentFrame, sequence |-> nextSequence]
      old  == Records(t)
      full == Len(old) = capacity
  IN /\ nextSequence < MaxEmits
     /\ nextSequence' = nextSequence + 1
     /\ queues' = [u \in DOMAIN queues \union {t} |->
                     IF u # t THEN queues[u]
                     ELSE Append(IF full THEN Tail(old) ELSE old, r)]
     /\ log' = [log EXCEPT ![t] = Append(@, r)]
     /\ lost' = lost \union (IF full THEN {Head(old).sequence} ELSE {})
     /\ UNCHANGED <<currentFrame, retention, capacity, counters, readerVars,
                    horizon>>

\* emit_event: the record gets the current frame and the next sequence number;
\* a ring that is full gives up its oldest record for it.
Emit(t) ==
  LET r    == [frame |-> currentFrame, sequence |-> nextSequence]
      old  == Records(t)
      full == Len(old) = capacity
  IN /\ nextSequence < MaxEmits
     /\ nextSequence' = nextSequence + 1
     /\ queues' = [u \in DOMAIN queues \union {t} |->
                     IF u # t THEN queues[u]
                     ELSE Append(IF full THEN Tail(old) ELSE old, r)]
     /\ counters' = [counters EXCEPT !.dropped = @ + (IF full THEN 1 ELSE 0)]
     /\ log' = [log EXCEPT ![t] = Append(@, r)]
     /\ lost' = lost \union (IF full THEN {Head(old).sequence} ELSE {})
     /\ UNCHANGED <<currentFrame, retention, capacity, readerVars, horizon>>

\* Mutant: the new capacity waits for the next record.
SetCapacityOnly(n) ==
  /\ capacity' = AtLeastOne(n)
  /\ UNCHANGED <<currentFrame, queues, nextSequence, retention, counters,
                 readerVars, ghostVars>>

\* set_queue_capacity: rings that are longer lose their oldest records now.
SetQueueCapacity(n) ==
  LET trimmed == [t \in DOMAIN queues |-> Newest(queues[t], AtLeastOne(n))] IN
  /\ capacity' = AtLeastOne(n)
  /\ queues' = trimmed
  /\ counters' =
       [counters EXCEPT !.dropped = @ + RecordCount(queues) - RecordCount(trimmed)]
  /\ lost' = lost \union UNION {Sequences(queues[t]) \ Sequences(trimmed[t]) :
                                  t \in DOMAIN queues}
  /\ UNCHANGED <<currentFrame, nextSequence, retention, readerVars, log, horizon>>

\* Mutant: the host's number is taken as it is.
SetRetentionAsGiven(n) ==
  /\ retention' = n
  /\ UNCHANGED <<currentFrame, queues, nextSequence, capacity, counters,
                 readerVars, ghostVars>>

\* set_retention_frames: nothing is pruned before the next frame.
SetRetentionFrames(n) ==
  /\ retention' = AtLeastOne(n)
  /\ UNCHANGED <<currentFrame, queues, nextSequence, capacity, counters,
                 readerVars, ghostVars>>

\* clear_events of some type, or of all: the rings go, their numbers do not
\* come back.
ClearEvents(types) ==
  LET gone == types \cap DOMAIN queues IN
  /\ queues' = [t \in DOMAIN queues \ gone |-> queues[t]]
  /\ counters' = [counters EXCEPT
                    !.cleared = @ + RecordCount([t \in gone |-> queues[t]])]
  /\ lost' = lost \union UNION {Sequences(queues[t]) : t \in gone}
  /\ UNCHANGED <<currentFrame, nextSequence, retention, capacity, readerVars,
                 log, horizon>>

-----------------------------------------------------------------------------
(* Frames.                                                                 *)

\* Mutant: the frame that has just become too old is kept once more.
UpTo(q, min) == Select(q, {i \in DOMAIN q : q[i].frame + 1 >= min})

\* Records are popped from the front while they are older than min.
Recent(q, min) ==
  LET old == {i \in DOMAIN q : \A j \in 1 .. i : q[j].frame < min}
  IN SubSeq(q, Cardinality(old) + 1, Len(q))

\* World::set_frame and EventStore::begin_frame; a ring with no record left is
\* removed.  The caller, begin_change_frame, only counts up.
SetFrame(n) ==
  LET min  == IF n > retention THEN n - retention ELSE 0
      kept == [t \in DOMAIN queues |-> Recent(queues[t], min)]
  IN /\ n > currentFrame
     /\ currentFrame' = n
     /\ queues' = [t \in {u \in DOMAIN queues : kept[u] # <<>>} |-> kept[t]]
     /\ counters' = [counters EXCEPT
                       !.pruned = @ + RecordCount(queues) - RecordCount(kept)]
     /\ horizon' = IF min > horizon THEN min ELSE horizon
     /\ UNCHANGED <<nextSequence, retention, capacity, readerVars, log, lost>>

-----------------------------------------------------------------------------
(* Readers.                                                                *)

\* The records from sequence number from on.
Since(q, from) == Select(q, {i \in DOMAIN q : q[i].sequence >= from})

\* Mutant: the cursor moves on by as many records as were read.
ReadSinceCounting(t) ==
  LET new == Since(Records(t), cursor[t]) IN
  /\ new # <<>>
  /\ cursor' = [cursor EXCEPT ![t] = @ + Len(new)]
  /\ delivered' = [delivered EXCEPT ![t] = @ \o new]
  /\ UNCHANGED <<currentFrame, ringVars, ghostVars>>

\* read_since: the records from the cursor on; a read that finds none leaves
\* the cursor.
ReadSince(t) ==
  LET new == Since(Records(t), cursor[t]) IN
  /\ new # <<>>
  /\ cursor' = [cursor EXCEPT ![t] = Last(new).sequence + 1]
  /\ delivered' = [delivered EXCEPT ![t] = @ \o new]
  /\ UNCHANGED <<currentFrame, ringVars, ghostVars>>

EventsNext ==
  \/ \E t \in EventTypes : Emit(t) \/ ReadSince(t) \/ ClearEvents({t})
  \/ ClearEvents(EventTypes)
  \/ \E n \in 0 .. MaxCapacity : SetQueueCapacity(n)
  \/ \E n \in 0 .. MaxRetention : SetRetentionFrames(n)
  \/ \E n \in 0 .. MaxFrame : SetFrame(n)

EventsSpec == EventsInit /\ [][EventsNext]_eventVars

-----------------------------------------------------------------------------
(* Properties.                                                             *)

\* No ring is longer than the capacity in force, whenever that was lowered,
\* and no empty ring is kept.
EventsTypeOK ==
  /\ currentFrame \in 0 .. MaxFrame
  /\ nextSequence \in 0 .. MaxEmits
  /\ retention \in Nat \ {0}
  /\ DOMAIN queues \subseteq EventTypes
  /\ \A t \in DOMAIN queues :
       queues[t] \in Seq(Record) /\ Len(queues[t]) \in 1 .. capacity
  /\ cursor \in [EventTypes -> 0 .. MaxEmits]

\* A ring holds, in order, exactly the records of its type that were neither
\* evicted nor cleared and are no older than the frames begin_frame has dropped,
\* and what is missing is older than all that is there: a reader that walks the
\* ring sees no gap (emit, set_queue_capacity, clear, begin_frame).
RingsExact ==
  \A t \in EventTypes :
    /\ Records(t) = Select(log[t], {i \in DOMAIN log[t] :
                                      /\ log[t][i].sequence \notin lost
                                      /\ log[t][i].frame >= horizon})
    /\ IsSuffix(Records(t), log[t])

\* The diagnostics account for every record: it is in a ring, or was dropped by
\* a full ring, pruned with its frame, or cleared.
CountersBalance ==
  nextSequence = RecordCount(queues)
                   + counters.dropped + counters.pruned + counters.cleared

\* A cursor gives its reader each record at most once and in order, and has
\* passed over no record that is still in the ring, although the numbers of one
\* type have gaps where other types used them (EventStore::read_since).
ReadersExactlyOnce ==
  \A t \in EventTypes :
    /\ \A i, j \in DOMAIN delivered[t] :
         i < j => delivered[t][i].sequence < delivered[t][j].sequence
    /\ \A i \in DOMAIN Records(t) :
         Records(t)[i].sequence < cursor[t]
           <=> \E k \in DOMAIN delivered[t] : delivered[t][k] = Records(t)[i]

\* What callbacks emit after one ECS pass is there for the next one: the step
\* to the next frame takes no record of the frame that ends
\* (docs/contribute/ecs_architecture.md, "retained long enough for the next ECS
\* phase"; the floor of 1 in set_retention_frames).
NextPassSees ==
  [][currentFrame' = currentFrame + 1 =>
       \A t \in EventTypes : \A i \in DOMAIN Records(t) :
         Records(t)[i].frame = currentFrame =>
           \E k \in DOMAIN Records(t)' : Records(t)'[k] = Records(t)[i]]_eventVars
=============================================================================
