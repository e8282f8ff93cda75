--------------------------- MODULE EcsEventsProofs ---------------------------
(***************************************************************************)
(* The event rings of gummy_ecs and the cursors that read them, for any    *)
(* event types, capacities and retentions.  Every way a ring shrinks (a    *)
(* full ring, a lower capacity, an old frame, a clear) takes records from  *)
(* its front, so a ring is always the end of the log of its type: that is  *)
(* the invariant, from which no gap and no second delivery follow.         *)
(***************************************************************************)
EXTENDS EcsEvents, OrderLemmas

-----------------------------------------------------------------------------
(* The invariant.                                                          *)

\* p is q without its first d elements.
IsTail(p, q, d) ==
  /\ Len(p) = Len(q) - d
  /\ \A i \in 1 .. Len(p) : p[i] = q[d + i]

\* Ring q is the end of log l: what is neither gone nor older than frame since.
RingOK(q, l, gone, since) ==
  /\ q \in Seq(Record)
  /\ l \in Seq(Record)
  /\ \E k \in 0 .. Len(l) :
       /\ IsTail(q, l, k)
       /\ \A i \in 1 .. Len(l) :
            i > k <=> l[i].sequence \notin gone /\ l[i].frame >= since

\* Records are logged in the order of their numbers and frames.
LogOrdered(l) ==
  \A i, j \in 1 .. Len(l) :
    i < j => l[i].sequence < l[j].sequence /\ l[i].frame <= l[j].frame

LogsInv ==
  /\ log \in [EventTypes -> Seq(Record)]
  /\ \A t \in EventTypes : LogOrdered(log[t])
  /\ \A t \in EventTypes : \A i \in 1 .. Len(log[t]) :
       log[t][i].sequence < nextSequence /\ log[t][i].frame <= currentFrame
  /\ \A t, u \in EventTypes : \A i \in 1 .. Len(log[t]), j \in 1 .. Len(log[u]) :
       log[t][i].sequence = log[u][j].sequence => t = u
  /\ lost \subseteq Nat
  /\ \A n \in lost : n < nextSequence
  /\ horizon \in Nat /\ horizon <= currentFrame

RingsInv == \A t \in EventTypes : RingOK(Records(t), log[t], lost, horizon)

QueuesInv ==
  /\ currentFrame \in 0 .. MaxFrame
  /\ nextSequence \in 0 .. MaxEmits
  /\ retention \in Nat \ {0}
  /\ capacity \in Nat \ {0}
  /\ IsFiniteSet(DOMAIN queues)
  /\ DOMAIN queues \subseteq EventTypes
  /\ \A t \in DOMAIN queues : Len(queues[t]) \in 1 .. capacity

\* What a reader was given, up to its cursor.
ReaderOK(d, q, c) ==
  /\ c \in Nat
  /\ d \in Seq(Record)
  /\ \A i \in 1 .. Len(d) : d[i].sequence < c
  /\ \A i, j \in 1 .. Len(d) : i < j => d[i].sequence < d[j].sequence
  /\ \A i \in 1 .. Len(q) :
       q[i].sequence < c <=> \E k \in 1 .. Len(d) : d[k] = q[i]

ReadersInv ==
  /\ cursor \in [EventTypes -> Nat]
  /\ delivered \in [EventTypes -> Seq(Record)]
  /\ \A t \in EventTypes : cursor[t] <= nextSequence
  /\ \A t \in EventTypes : ReaderOK(delivered[t], Records(t), cursor[t])

BalanceInv ==
  /\ counters \in [dropped : Int, pruned : Int, cleared : Int]
  /\ CountersBalance

EventsInv == LogsInv /\ RingsInv /\ QueuesInv /\ ReadersInv /\ BalanceInv

-----------------------------------------------------------------------------
(* Rings and logs as sequences.                                            *)

\* The end of a sequence.
LEMMA TailOf ==
  ASSUME NEW S, NEW q \in Seq(S), NEW d \in 0 .. Len(q)
  PROVE  /\ SubSeq(q, d + 1, Len(q)) \in Seq(S)
         /\ IsTail(SubSeq(q, d + 1, Len(q)), q, d)
<1>1. PICK n : n = Len(q)
  OBVIOUS
<1>2. n \in Nat /\ d \in 0 .. n
  BY <1>1
<1>3. PICK p : p = SubSeq(q, d + 1, n)
  OBVIOUS
<1>4. p \in Seq(S) /\ Len(p) = n - d /\ \A i \in 1 .. (n - d) : p[i] = q[d + i]
  <2>1. CASE d = n
    <3>1. p = <<>>
      BY <1>1, <1>2, <1>3, <2>1
    <3> QED
      BY <1>2, <2>1, <3>1
  <2>2. CASE d < n
    <3>1. d + 1 \in 1 .. n /\ n \in 1 .. n /\ d + 1 <= n
      BY <1>2, <2>2
    <3>2. /\ p \in Seq(S) /\ Len(p) = n - (d + 1) + 1
          /\ \A i \in 1 .. (n - (d + 1) + 1) : p[i] = q[(d + 1) + i - 1]
      BY <1>1, <1>3, <3>1, SubSeqProperties
    <3>3. n - (d + 1) + 1 = n - d
      BY <1>2
    <3>4. \A i \in 1 .. (n - d) : (d + 1) + i - 1 = d + i
      BY <1>2
    <3> QED
      BY <3>2, <3>3, <3>4
  <2> QED
    BY <1>2, <2>1, <2>2
<1> QED
  BY <1>1, <1>3, <1>4 DEF IsTail

\* A ring that loses what has gone, or is too old by now, from its front is
\* still the end of its log.
LEMMA RingShrinks ==
  ASSUME NEW q, NEW l, NEW gone, NEW since, RingOK(q, l, gone, since),
         NEW p, p \in Seq(Record), NEW d \in 0 .. Len(q), IsTail(p, q, d),
         NEW more, gone \subseteq more,
         NEW later, since \in Nat, later \in Nat, since <= later,
         \A i \in 1 .. Len(q) :
           i > d <=> q[i].sequence \notin more /\ q[i].frame >= later
  PROVE  RingOK(p, l, more, later)
<1>1. PICK k \in 0 .. Len(l) :
        /\ IsTail(q, l, k)
        /\ \A i \in 1 .. Len(l) :
             i > k <=> l[i].sequence \notin gone /\ l[i].frame >= since
  BY DEF RingOK
<1>2. PICK n : n = Len(l)
  OBVIOUS
<1>3. PICK m : m = Len(q)
  OBVIOUS
<1>4. /\ l \in Seq(Record) /\ n \in Nat /\ m \in Nat
      /\ m = n - k /\ k \in 0 .. n /\ d \in 0 .. m
      /\ \A i \in 1 .. m : q[i] = l[k + i]
  BY <1>1, <1>2, <1>3, LenProperties DEF RingOK, IsTail
<1>5. k + d \in 0 .. Len(l)
  BY <1>2, <1>4
<1>6. IsTail(p, l, k + d)
  <2>1. PICK r : r = Len(p)
    OBVIOUS
  <2>2. r = m - d /\ \A i \in 1 .. r : p[i] = q[d + i]
    BY <1>3, <2>1 DEF IsTail
  <2>3. r = n - (k + d)
    BY <1>4, <2>2
  <2>4. ASSUME NEW i \in 1 .. r
        PROVE  p[i] = l[(k + d) + i]
    <3>1. d + i \in 1 .. m /\ k + (d + i) = (k + d) + i
      BY <1>4, <2>2
    <3> QED
      BY <1>4, <2>2, <3>1
  <2> QED
    BY <1>2, <2>1, <2>3, <2>4 DEF IsTail
<1>7. ASSUME NEW i \in 1 .. n
      PROVE  i > k + d <=> l[i].sequence \notin more /\ l[i].frame >= later
  <2>1. l[i].frame \in Int
    <3>1. l[i] \in Record
      BY <1>2, <1>4
    <3> QED
      BY <3>1, EventsAssumption DEF Record
  <2>2. CASE i <= k
    <3>1. ~(l[i].sequence \notin gone /\ l[i].frame >= since)
      BY <1>1, <1>2, <1>4, <2>2
    <3>2. l[i].frame >= later => l[i].frame >= since
      BY <2>1
    <3>3. ~(i > k + d)
      BY <1>4, <2>2
    <3> QED
      BY <3>1, <3>2, <3>3
  <2>3. CASE i > k
    <3>1. PICK j : j = i - k
      OBVIOUS
    <3>2. j \in 1 .. m /\ k + j = i /\ (i > k + d <=> j > d)
      BY <1>4, <2>3, <3>1
    <3>3. q[j] = l[i]
      BY <1>4, <3>2
    <3> QED
      BY <1>3, <3>2, <3>3
  <2> QED
    BY <1>4, <2>2, <2>3
<1> QED
  BY <1>2, <1>4, <1>5, <1>6, <1>7 DEF RingOK

\* A ring is ordered as its log.
LEMMA RingOrdered ==
  ASSUME NEW q, NEW l, NEW gone, NEW since, RingOK(q, l, gone, since), LogOrdered(l)
  PROVE  /\ LogOrdered(q)
         /\ \A i \in 1 .. Len(q) :
              /\ q[i] \in Record
              /\ \E j \in 1 .. Len(l) : l[j] = q[i]
              /\ q[i].sequence \notin gone /\ q[i].frame >= since
<1>1. PICK k \in 0 .. Len(l) :
        /\ IsTail(q, l, k)
        /\ \A i \in 1 .. Len(l) :
             i > k <=> l[i].sequence \notin gone /\ l[i].frame >= since
  BY DEF RingOK
<1>2. PICK n : n = Len(l)
  OBVIOUS
<1>3. PICK m : m = Len(q)
  OBVIOUS
<1>4. /\ n \in Nat /\ m = n - k /\ k \in 0 .. n
      /\ \A i \in 1 .. m : q[i] = l[k + i]
  BY <1>1, <1>2, <1>3, LenProperties DEF RingOK, IsTail
<1>5. \A i \in 1 .. m : k + i \in 1 .. n /\ k + i > k
  BY <1>4
<1>6. \A i, j \in 1 .. m : i < j => k + i < k + j
  BY <1>4
<1>7. LogOrdered(q)
  BY <1>2, <1>3, <1>4, <1>5, <1>6 DEF LogOrdered
<1>8. \A i \in 1 .. Len(q) : q[i] \in Record
  BY DEF RingOK
<1> QED
  BY <1>1, <1>2, <1>3, <1>4, <1>5, <1>7, <1>8

\* What Select takes from a sequence.
LEMMA SelectIs ==
  ASSUME NEW S, NEW q \in Seq(S), NEW I \in SUBSET (1 .. Len(q)),
         NEW p, p = Select(q, I)
  PROVE  /\ p \in Seq(S)
         /\ \E places :
              /\ Increasing(places, I)
              /\ Len(places) = Len(p)
              /\ \A k \in 1 .. Len(p) : places[k] \in I /\ p[k] = q[places[k]]
<1>1. PICK places : places = InOrder(I, <)
  OBVIOUS
<1>2. I \in SUBSET Nat /\ IsFiniteSet(I)
  <2>1. PICK m : m = Len(q)
    OBVIOUS
  <2>2. m \in Nat /\ I \in SUBSET (1 .. m)
    BY <2>1, LenProperties
  <2>3. IsFiniteSet(1 .. m)
    BY <2>2, FS_Interval
  <2>4. IsFiniteSet(I)
    BY <2>2, <2>3, FS_Subset
  <2>5. \A i \in 1 .. m : i \in Nat
    BY <2>2
  <2> QED
    BY <2>2, <2>4, <2>5
<1>3. Increasing(places, I) /\ Len(places) = Cardinality(I)
  BY <1>1, <1>2, InOrderIncreases
<1>4. PICK n : n = Cardinality(I)
  OBVIOUS
<1>5. n \in Nat /\ places \in [1 .. n -> I]
  BY <1>3, <1>4, LenProperties DEF Increasing
<1>6. p = [k \in 1 .. n |-> q[places[k]]]
  BY <1>1, <1>4 DEF Select
<1>7. p \in [1 .. n -> S]
  <2>1. \A i \in 1 .. Len(q) : q[i] \in S
    OBVIOUS
  <2>2. \A k \in 1 .. n : q[places[k]] \in S
    BY <1>5, <2>1
  <2> QED
    BY <1>6, <2>2
<1>8. p \in Seq(S) /\ Len(p) = n
  BY <1>5, <1>7
<1> QED
  BY <1>3, <1>4, <1>5, <1>6, <1>8

\* Numbers without a gap are in order.
LEMMA IntervalInOrder ==
  ASSUME NEW k \in Nat, NEW n \in Nat, k <= n
  PROVE  /\ InOrder((k + 1) .. n, <) = [i \in 1 .. (n - k) |-> k + i]
         /\ Cardinality((k + 1) .. n) = n - k
<1>1. PICK s : s = [i \in 1 .. (n - k) |-> k + i]
  OBVIOUS
<1>2. PICK I : I = (k + 1) .. n
  OBVIOUS
<1>3. s \in Seq(I) /\ Len(s) = n - k
  <2>1. n - k \in Nat /\ \A i \in 1 .. (n - k) : k + i \in I
    BY <1>2
  <2>2. s \in [1 .. (n - k) -> I]
    BY <1>1, <2>1
  <2> QED
    BY <2>1, <2>2
<1>4. \A j \in I : \E i \in 1 .. (n - k) : s[i] = j
  <2> SUFFICES ASSUME NEW j \in I PROVE \E i \in 1 .. (n - k) : s[i] = j
    OBVIOUS
  <2>1. j - k \in 1 .. (n - k) /\ k + (j - k) = j
    BY <1>2
  <2> QED
    BY <1>1, <2>1
<1>5. \A i, j \in 1 .. (n - k) : i < j => s[i] < s[j]
  BY <1>1
<1>6. Increasing(s, I) /\ I \in SUBSET Nat
  BY <1>2, <1>3, <1>4, <1>5 DEF Increasing
<1> QED
  BY <1>1, <1>2, <1>3, <1>6, IncreasingIsInOrder

\* The end of a log is what Select takes from it.
LEMMA RingIsSelected ==
  ASSUME NEW q, NEW l, NEW gone, NEW since, RingOK(q, l, gone, since)
  PROVE  q = Select(l, {i \in DOMAIN l : /\ l[i].sequence \notin gone
                                         /\ l[i].frame >= since})
<1>1. PICK k \in 0 .. Len(l) :
        /\ IsTail(q, l, k)
        /\ \A i \in 1 .. Len(l) :
             i > k <=> l[i].sequence \notin gone /\ l[i].frame >= since
  BY DEF RingOK
<1>2. PICK n : n = Len(l)
  OBVIOUS
<1>3. n \in Nat /\ k \in 0 .. n /\ DOMAIN l = 1 .. n /\ q \in Seq(Record)
  BY <1>2, LenProperties DEF RingOK
<1>4. PICK I : I = {i \in DOMAIN l : /\ l[i].sequence \notin gone
                                     /\ l[i].frame >= since}
  OBVIOUS
<1>5. I = (k + 1) .. n
  BY <1>1, <1>2, <1>3, <1>4
<1>6. InOrder(I, <) = [i \in 1 .. (n - k) |-> k + i] /\ Cardinality(I) = n - k
  <2>1. k \in Nat /\ n \in Nat /\ k <= n
    BY <1>3
  <2>2. /\ InOrder((k + 1) .. n, <) = [i \in 1 .. (n - k) |-> k + i]
        /\ Cardinality((k + 1) .. n) = n - k
    BY <2>1, IntervalInOrder
  <2> QED
    BY <1>5, <2>2
<1>7. PICK places : places = InOrder(I, <)
  OBVIOUS
<1>8. Select(l, I) = [i \in 1 .. (n - k) |-> l[places[i]]]
  BY <1>6, <1>7 DEF Select
<1>9. /\ Len(q) = n - k /\ q = [i \in 1 .. (n - k) |-> q[i]]
      /\ \A i \in 1 .. (n - k) : q[i] = l[k + i]
  <2>1. Len(q) = n - k /\ \A i \in 1 .. Len(q) : q[i] = l[k + i]
    BY <1>1, <1>2 DEF IsTail
  <2>2. q \in [1 .. Len(q) -> Record]
    BY <1>3
  <2> QED
    BY <2>1, <2>2
<1>10. \A i \in 1 .. (n - k) : l[places[i]] = q[i]
  BY <1>6, <1>7, <1>9
<1>11. Select(l, I) = [i \in 1 .. (n - k) |-> q[i]]
  BY <1>8, <1>10
<1> QED
  BY <1>4, <1>9, <1>11

\* ... and a suffix of it.
LEMMA RingIsSuffix ==
  ASSUME NEW q, NEW l, NEW gone, NEW since, RingOK(q, l, gone, since)
  PROVE  IsSuffix(q, l)
<1>1. PICK k \in 0 .. Len(l) : IsTail(q, l, k)
  BY DEF RingOK
<1>2. PICK n : n = Len(l)
  OBVIOUS
<1>3. PICK m : m = Len(q)
  OBVIOUS
<1>4. /\ n \in Nat /\ m \in Nat /\ m = n - k /\ k \in 0 .. n
      /\ \A i \in 1 .. m : q[i] = l[k + i]
  BY <1>1, <1>2, <1>3, LenProperties DEF RingOK, IsTail
<1>5. PICK a : a = Reverse(q)
  OBVIOUS
<1>6. PICK b : b = Reverse(l)
  OBVIOUS
<1>7. /\ a = [i \in 1 .. m |-> q[(m - i) + 1]]
      /\ b = [i \in 1 .. n |-> l[(n - i) + 1]]
  BY <1>2, <1>3, <1>5, <1>6 DEF Reverse
<1>8. a \in Seq(Record) /\ Len(a) = m
  <2>1. \A i \in 1 .. m : q[(m - i) + 1] \in Record
    <3>1. \A i \in 1 .. m : (m - i) + 1 \in 1 .. m
      BY <1>4
    <3> QED
      BY <1>3, <3>1 DEF RingOK
  <2>2. a \in [1 .. m -> Record]
    BY <1>7, <2>1
  <2> QED
    BY <1>4, <2>2
<1>9. b \in Seq(Record) /\ Len(b) = n
  <2>1. \A i \in 1 .. n : l[(n - i) + 1] \in Record
    <3>1. \A i \in 1 .. n : (n - i) + 1 \in 1 .. n
      BY <1>4
    <3> QED
      BY <1>2, <3>1 DEF RingOK
  <2>2. b \in [1 .. n -> Record]
    BY <1>7, <2>1
  <2> QED
    BY <1>4, <2>2
<1>10. \A i \in 1 .. m : a[i] = b[i]
  <2> SUFFICES ASSUME NEW i \in 1 .. m PROVE a[i] = b[i]
    OBVIOUS
  <2>1. /\ (m - i) + 1 \in 1 .. m /\ i \in 1 .. n
        /\ k + ((m - i) + 1) = (n - i) + 1
    BY <1>4
  <2> QED
    BY <1>4, <1>7, <2>1
<1>11. SubSeq(a, 1, m) = SubSeq(b, 1, m)
  <2>1. CASE m = 0
    BY <1>8, <1>9, <2>1
  <2>2. CASE m > 0
    <3>1. 1 \in 1 .. m /\ m \in 1 .. m /\ 1 \in 1 .. n /\ m \in 1 .. n
      BY <1>4, <2>2
    <3>2. /\ SubSeq(a, 1, m) = [i \in 1 .. m |-> a[i]]
          /\ SubSeq(b, 1, m) = [i \in 1 .. m |-> b[i]]
      BY <1>4, <1>8, <1>9, <3>1
    <3> QED
      BY <1>10, <3>2
  <2> QED
    BY <1>4, <2>1, <2>2
<1>12. m <= n
  BY <1>4
<1> QED
  BY <1>5, <1>6, <1>8, <1>9, <1>11, <1>12 DEF IsSuffix, IsPrefix

\* The invariant gives the checked ones.
LEMMA EventsInvGives ==
  ASSUME EventsInv
  PROVE  EventsTypeOK /\ RingsExact /\ CountersBalance /\ ReadersExactlyOnce
<1>1. LogsInv /\ RingsInv /\ QueuesInv /\ ReadersInv /\ BalanceInv
  BY DEF EventsInv
<1>2. EventsTypeOK
  <2>1. \A t \in DOMAIN queues : queues[t] \in Seq(Record)
    BY <1>1 DEF QueuesInv, RingsInv, RingOK, Records
  <2>2. cursor \in [EventTypes -> 0 .. MaxEmits]
    <3>1. \A t \in EventTypes : cursor[t] \in Nat /\ cursor[t] <= nextSequence
      BY <1>1 DEF ReadersInv, ReaderOK
    <3>2. nextSequence \in Nat /\ nextSequence <= MaxEmits
      BY <1>1, EventsAssumption DEF QueuesInv
    <3>3. \A t \in EventTypes : cursor[t] \in 0 .. MaxEmits
      BY <3>1, <3>2, EventsAssumption
    <3> QED
      BY <1>1, <3>3 DEF ReadersInv
  <2> QED
    BY <1>1, <2>1, <2>2 DEF EventsTypeOK, QueuesInv
<1>3. RingsExact
  BY <1>1, RingIsSelected, RingIsSuffix DEF RingsExact, RingsInv
<1>4. ASSUME NEW t \in EventTypes
      PROVE  /\ \A i, j \in DOMAIN delivered[t] :
                  i < j => delivered[t][i].sequence < delivered[t][j].sequence
             /\ \A i \in DOMAIN Records(t) :
                  Records(t)[i].sequence < cursor[t]
                    <=> \E k \in DOMAIN delivered[t] : delivered[t][k] = Records(t)[i]
  <2>1. ReaderOK(delivered[t], Records(t), cursor[t]) /\ Records(t) \in Seq(Record)
    BY <1>1 DEF ReadersInv, RingsInv, RingOK
  <2>2. /\ DOMAIN delivered[t] = 1 .. Len(delivered[t])
        /\ DOMAIN Records(t) = 1 .. Len(Records(t))
    BY <2>1 DEF ReaderOK
  <2> QED
    BY <2>1, <2>2 DEF ReaderOK
<1> QED
  BY <1>1, <1>2, <1>3, <1>4 DEF ReadersExactlyOnce, BalanceInv

-----------------------------------------------------------------------------
(* The ways a ring shrinks and grows.                                      *)

\* A ring and its log grow by the same record.
LEMMA RingGrows ==
  ASSUME NEW q, NEW l, NEW gone, NEW since, RingOK(q, l, gone, since),
         NEW r \in Record, r.sequence \notin gone, r.frame >= since
  PROVE  RingOK(Append(q, r), Append(l, r), gone, since)
<1>1. PICK k \in 0 .. Len(l) :
        /\ IsTail(q, l, k)
        /\ \A i \in 1 .. Len(l) :
             i > k <=> l[i].sequence \notin gone /\ l[i].frame >= since
  BY DEF RingOK
<1>2. PICK n : n = Len(l)
  OBVIOUS
<1>3. PICK m : m = Len(q)
  OBVIOUS
<1>4. /\ n \in Nat /\ m \in Nat /\ m = n - k /\ k \in 0 .. n
      /\ \A i \in 1 .. m : q[i] = l[k + i]
  BY <1>1, <1>2, <1>3, LenProperties DEF RingOK, IsTail
<1>5. PICK p : p = Append(q, r)
  OBVIOUS
<1>6. PICK b : b = Append(l, r)
  OBVIOUS
<1>7. /\ p \in Seq(Record) /\ Len(p) = m + 1 /\ p[m + 1] = r
      /\ \A i \in 1 .. m : p[i] = q[i]
  BY <1>3, <1>5, AppendProperties DEF RingOK
<1>8. /\ b \in Seq(Record) /\ Len(b) = n + 1 /\ b[n + 1] = r
      /\ \A i \in 1 .. n : b[i] = l[i]
  BY <1>2, <1>6, AppendProperties DEF RingOK
<1>9. IsTail(p, b, k)
  <2>1. m + 1 = (n + 1) - k
    BY <1>4
  <2>2. ASSUME NEW i \in 1 .. (m + 1) PROVE p[i] = b[k + i]
    <3>1. CASE i = m + 1
      <4>1. k + i = n + 1
        BY <1>4, <3>1
      <4> QED
        BY <1>7, <1>8, <3>1, <4>1
    <3>2. CASE i \in 1 .. m
      <4>1. k + i \in 1 .. n
        BY <1>4, <3>2
      <4> QED
        BY <1>4, <1>7, <1>8, <3>2, <4>1
    <3> QED
      BY <1>4, <3>1, <3>2
  <2> QED
    BY <1>7, <1>8, <2>1, <2>2 DEF IsTail
<1>10. ASSUME NEW i \in 1 .. (n + 1)
       PROVE  i > k <=> b[i].sequence \notin gone /\ b[i].frame >= since
  <2>1. CASE i = n + 1
    <3>1. i > k
      BY <1>4, <2>1
    <3> QED
      BY <1>8, <2>1, <3>1
  <2>2. CASE i \in 1 .. n
    BY <1>1, <1>2, <1>8, <2>2
  <2> QED
    BY <1>4, <2>1, <2>2
<1>11. k \in 0 .. Len(b)
  BY <1>4, <1>8
<1> QED
  BY <1>5, <1>6, <1>7, <1>8, <1>9, <1>10, <1>11 DEF RingOK

\* What goes from other rings does not disturb a ring.
LEMMA RingKept ==
  ASSUME NEW q, NEW l, NEW gone, NEW since, RingOK(q, l, gone, since),
         NEW more, gone \subseteq more,
         \A i \in 1 .. Len(l) : l[i].sequence \in more => l[i].sequence \in gone
  PROVE  RingOK(q, l, more, since)
BY DEF RingOK

\* A log grows by a record that is newer than all of it.
LEMMA LogGrows ==
  ASSUME NEW l \in Seq(Record), LogOrdered(l), NEW r \in Record,
         \A i \in 1 .. Len(l) : l[i].sequence < r.sequence /\ l[i].frame <= r.frame
  PROVE  LogOrdered(Append(l, r))
<1>1. PICK n : n = Len(l)
  OBVIOUS
<1>2. PICK b : b = Append(l, r)
  OBVIOUS
<1>3. /\ n \in Nat /\ Len(b) = n + 1 /\ b[n + 1] = r
      /\ \A i \in 1 .. n : b[i] = l[i]
  BY <1>1, <1>2, AppendProperties, LenProperties
<1>4. ASSUME NEW i \in 1 .. (n + 1), NEW j \in 1 .. (n + 1), i < j
      PROVE  b[i].sequence < b[j].sequence /\ b[i].frame <= b[j].frame
  <2>1. i \in 1 .. n
    BY <1>3, <1>4
  <2>2. CASE j = n + 1
    BY <1>1, <1>3, <2>1, <2>2
  <2>3. CASE j \in 1 .. n
    BY <1>1, <1>3, <1>4, <2>1, <2>3 DEF LogOrdered
  <2> QED
    BY <1>3, <2>2, <2>3
<1> QED
  BY <1>2, <1>3, <1>4 DEF LogOrdered

\* A reader is not disturbed by records that go.
LEMMA ReaderShrinks ==
  ASSUME NEW d, NEW q, NEW c, ReaderOK(d, q, c), q \in Seq(Record),
         NEW p, NEW k \in 0 .. Len(q), IsTail(p, q, k)
  PROVE  ReaderOK(d, p, c)
<1>1. PICK m : m = Len(q)
  OBVIOUS
<1>2. PICK n : n = Len(p)
  OBVIOUS
<1>3. m \in Nat /\ k \in 0 .. m /\ n = m - k /\ \A i \in 1 .. n : p[i] = q[k + i]
  BY <1>1, <1>2, LenProperties DEF IsTail
<1>4. \A i \in 1 .. n : k + i \in 1 .. m
  BY <1>3
<1>5. \A i \in 1 .. n : p[i].sequence < c <=> \E j \in 1 .. Len(d) : d[j] = p[i]
  BY <1>1, <1>3, <1>4 DEF ReaderOK
<1> QED
  BY <1>2, <1>5 DEF ReaderOK

\* Nor by a record it has yet to read.
LEMMA ReaderGrows ==
  ASSUME NEW d, NEW q, NEW c, ReaderOK(d, q, c), q \in Seq(Record),
         NEW r \in Record, c <= r.sequence
  PROVE  ReaderOK(d, Append(q, r), c)
<1>1. PICK m : m = Len(q)
  OBVIOUS
<1>2. PICK p : p = Append(q, r)
  OBVIOUS
<1>3. /\ m \in Nat /\ Len(p) = m + 1 /\ p[m + 1] = r
      /\ \A i \in 1 .. m : p[i] = q[i]
  BY <1>1, <1>2, AppendProperties, LenProperties
<1>4. r.sequence \in Nat /\ c \in Nat
  BY EventsAssumption DEF ReaderOK, Record
<1>5. \A k \in 1 .. Len(d) : d[k].sequence < c
  BY DEF ReaderOK
<1>6. \A k \in 1 .. Len(d) : d[k] # r
  BY <1>4, <1>5
<1>7. ASSUME NEW i \in 1 .. (m + 1)
      PROVE  p[i].sequence < c <=> \E k \in 1 .. Len(d) : d[k] = p[i]
  <2>1. CASE i = m + 1
    BY <1>3, <1>4, <1>6, <2>1
  <2>2. CASE i \in 1 .. m
    BY <1>1, <1>3, <2>2 DEF ReaderOK
  <2> QED
    BY <1>3, <2>1, <2>2
<1> QED
  BY <1>2, <1>3, <1>7 DEF ReaderOK

\* Numbers from one on, without a gap, are as many as the last.
LEMMA DownClosed ==
  ASSUME NEW n \in Nat, NEW I \in SUBSET (1 .. n), \A i \in I : \A j \in 1 .. i : j \in I
  PROVE  Cardinality(I) \in 0 .. n /\ I = 1 .. Cardinality(I)
<1>1. IsFiniteSet(1 .. n) /\ Cardinality(1 .. n) = n
  BY FS_Interval
<1>2. IsFiniteSet(I) /\ Cardinality(I) <= n
  BY <1>1, FS_Subset
<1>3. PICK c : c = Cardinality(I)
  OBVIOUS
<1>4. c \in Nat
  BY <1>2, <1>3, FS_CardinalityType
<1>5. ASSUME NEW i \in I PROVE i <= c
  <2>1. i \in Nat /\ (1 .. i) \in SUBSET I
    OBVIOUS
  <2>2. Cardinality(1 .. i) = i
    BY <2>1, FS_Interval
  <2>3. Cardinality(1 .. i) <= c
    BY <1>2, <1>3, <2>1, FS_Subset
  <2> QED
    BY <2>2, <2>3
<1>6. I \in SUBSET (1 .. c)
  BY <1>4, <1>5
<1>7. IsFiniteSet(1 .. c) /\ Cardinality(1 .. c) = c
  BY <1>4, FS_Interval
<1>8. I = 1 .. c
  BY <1>3, <1>6, <1>7, FS_Subset
<1> QED
  BY <1>2, <1>3, <1>4, <1>8

\* What a lower capacity leaves of a ring.
LEMMA NewestIs ==
  ASSUME NEW q \in Seq(Record), NEW n \in Nat \ {0}
  PROVE  /\ Newest(q, n) \in Seq(Record)
         /\ \E d \in 0 .. Len(q) : IsTail(Newest(q, n), q, d)
         /\ Len(Newest(q, n)) <= n
         /\ Len(q) >= 1 => Len(Newest(q, n)) >= 1
<1>1. PICK m : m = Len(q)
  OBVIOUS
<1>2. m \in Nat
  BY <1>1
<1>3. CASE m <= n
  <2>1. Newest(q, n) = q
    BY <1>1, <1>3 DEF Newest
  <2>2. IsTail(q, q, 0) /\ 0 \in 0 .. m
    BY <1>1, <1>2 DEF IsTail
  <2> QED
    BY <1>1, <1>3, <2>1, <2>2
<1>4. CASE m > n
  <2>1. Newest(q, n) = SubSeq(q, (m - n) + 1, m) /\ m - n \in 0 .. m
    BY <1>1, <1>2, <1>4 DEF Newest
  <2>2. /\ Newest(q, n) \in Seq(Record)
        /\ IsTail(Newest(q, n), q, m - n)
    BY <1>1, <2>1, TailOf
  <2>3. Len(Newest(q, n)) = m - (m - n) /\ m - (m - n) = n
    BY <1>1, <1>2, <2>2 DEF IsTail
  <2> QED
    BY <1>1, <2>1, <2>2, <2>3
<1> QED
  BY <1>2, <1>3, <1>4

\* What a new frame leaves of a ring: the records that are recent enough.
LEMMA RecentIs ==
  ASSUME NEW q \in Seq(Record), LogOrdered(q), NEW min \in Nat
  PROVE  /\ Recent(q, min) \in Seq(Record)
         /\ \E d \in 0 .. Len(q) :
              /\ IsTail(Recent(q, min), q, d)
              /\ \A i \in 1 .. Len(q) : i > d <=> q[i].frame >= min
<1>1. PICK m : m = Len(q)
  OBVIOUS
<1>2. m \in Nat /\ DOMAIN q = 1 .. m
  BY <1>1
<1>3. PICK old : old = {i \in DOMAIN q : \A j \in 1 .. i : q[j].frame < min}
  OBVIOUS
<1>4. PICK d : d = Cardinality(old)
  OBVIOUS
<1>5. d \in 0 .. m /\ old = 1 .. d
  <2>1. old \in SUBSET (1 .. m)
    BY <1>2, <1>3
  <2>2. ASSUME NEW i \in old, NEW j \in 1 .. i PROVE j \in old
    BY <1>2, <1>3
  <2> QED
    BY <1>2, <1>4, <2>1, <2>2, DownClosed
<1>6. Recent(q, min) = SubSeq(q, d + 1, m)
  BY <1>1, <1>3, <1>4 DEF Recent
<1>7. Recent(q, min) \in Seq(Record) /\ IsTail(Recent(q, min), q, d)
  BY <1>1, <1>5, <1>6, TailOf
<1>8. ASSUME NEW i \in 1 .. m PROVE i > d <=> q[i].frame >= min
  <2>1. \A j \in 1 .. m : q[j].frame \in Nat
    <3>1. \A j \in 1 .. m : q[j] \in Record
      BY <1>1
    <3> QED
      BY <3>1, EventsAssumption DEF Record
  <2>2. i > d <=> i \notin old
    BY <1>2, <1>5
  <2>3. i \in old => q[i].frame < min
    BY <1>2, <1>3
  <2>4. ASSUME i \notin old PROVE q[i].frame >= min
    <3>1. PICK j \in 1 .. i : ~(q[j].frame < min)
      BY <1>2, <1>3, <2>4
    <3>2. j \in 1 .. m /\ (j = i \/ j < i)
      BY <1>2
    <3>3. q[j].frame <= q[i].frame
      BY <1>1, <2>1, <3>2 DEF LogOrdered
    <3> QED
      BY <2>1, <3>1, <3>2, <3>3
  <2> QED
    BY <2>1, <2>2, <2>3, <2>4
<1> QED
  BY <1>1, <1>5, <1>7, <1>8

-----------------------------------------------------------------------------
(* Emitting.                                                               *)

\* What a record that is emitted meets: it is newer than every other record.
LEMMA EmitNewest ==
  ASSUME EventsInv, NEW t \in EventTypes, Emit(t),
         NEW r, r = [frame |-> currentFrame, sequence |-> nextSequence]
  PROVE  /\ r \in Record
         /\ r.sequence = nextSequence /\ r.frame = currentFrame
         /\ \A u \in EventTypes : \A i \in 1 .. Len(log[u]) :
              log[u][i].sequence < r.sequence /\ log[u][i].frame <= r.frame
         /\ log' = [log EXCEPT ![t] = Append(@, r)]
         /\ nextSequence' = nextSequence + 1 /\ nextSequence \in Nat
         /\ nextSequence' \in 0 .. MaxEmits
         /\ currentFrame' = currentFrame /\ horizon' = horizon
         /\ currentFrame \in Nat
<1>1. LogsInv /\ QueuesInv
  BY DEF EventsInv
<1>2. /\ nextSequence \in 0 .. MaxEmits /\ currentFrame \in 0 .. MaxFrame
      /\ nextSequence < MaxEmits
  BY <1>1 DEF QueuesInv, Emit
<1>3. r \in Record
  BY <1>2 DEF Record
<1>4. r.sequence = nextSequence /\ r.frame = currentFrame
  OBVIOUS
<1>5. log' = [log EXCEPT ![t] = Append(@, r)] /\ nextSequence' = nextSequence + 1
  BY DEF Emit
<1>6. currentFrame' = currentFrame /\ horizon' = horizon
  BY DEF Emit
<1>7. nextSequence \in Nat /\ nextSequence + 1 \in 0 .. MaxEmits /\ currentFrame \in Nat
  BY <1>2, EventsAssumption
<1> QED
  BY <1>1, <1>3, <1>4, <1>5, <1>6, <1>7 DEF LogsInv

\* What it does to the rings: that of its type loses its first record when it
\* is full, and grows by the new one.
LEMMA EmitRings ==
  ASSUME EventsInv, NEW t \in EventTypes, Emit(t),
         NEW r, r = [frame |-> currentFrame, sequence |-> nextSequence]
  PROVE  /\ \A u \in EventTypes : u # t => Records(u)' = Records(u)
         /\ DOMAIN queues' = DOMAIN queues \union {t}
         /\ \A u \in DOMAIN queues' : queues'[u] = Records(u)'
         /\ Records(t) \in Seq(Record)
         /\ Len(Records(t)) <= capacity
         /\ \/ /\ Len(Records(t)) # capacity
               /\ Records(t)' = Append(Records(t), r)
               /\ lost' = lost
               /\ counters' = counters
            \/ /\ Len(Records(t)) = capacity
               /\ t \in DOMAIN queues
               /\ Len(Records(t)) >= 1
               /\ Records(t)' = Append(Tail(Records(t)), r)
               /\ lost' = lost \union {Records(t)[1].sequence}
               /\ counters' = [counters EXCEPT !.dropped = @ + 1]
<1>1. RingsInv /\ QueuesInv /\ BalanceInv
  BY DEF EventsInv
<1>2. PICK old : old = Records(t)
  OBVIOUS
<1>3. PICK p : p = Append(IF Len(old) = capacity THEN Tail(old) ELSE old, r)
  OBVIOUS
<1>4. queues' = [u \in DOMAIN queues \union {t} |-> IF u # t THEN queues[u] ELSE p]
  BY <1>2, <1>3 DEF Emit
<1>5. /\ DOMAIN queues' = DOMAIN queues \union {t}
      /\ queues'[t] = p
      /\ \A u \in DOMAIN queues : u # t => queues'[u] = queues[u]
  BY <1>4
<1>6. /\ Records(t)' = p
      /\ \A u \in EventTypes : u # t => Records(u)' = Records(u)
      /\ \A u \in DOMAIN queues' : queues'[u] = Records(u)'
  BY <1>5 DEF Records
<1>7. old \in Seq(Record)
  BY <1>1, <1>2 DEF RingsInv, RingOK
<1>8. Len(old) <= capacity /\ (t \notin DOMAIN queues => Len(old) = 0)
      /\ capacity \in Nat \ {0}
  <2>1. CASE t \in DOMAIN queues
    BY <1>1, <1>2, <2>1 DEF QueuesInv, Records
  <2>2. CASE t \notin DOMAIN queues
    <3>1. old = <<>>
      BY <1>2, <2>2 DEF Records
    <3>2. Len(old) = 0
      BY <3>1
    <3> QED
      BY <1>1, <3>2 DEF QueuesInv
  <2> QED
    BY <2>1, <2>2
<1>9. CASE Len(old) = capacity
  <2>1. p = Append(Tail(old), r)
    BY <1>3, <1>9
  <2>2. lost' = lost \union {Head(old).sequence}
    BY <1>2, <1>9 DEF Emit
  <2>3. Head(old) = old[1]
    BY <1>7, <1>8, <1>9
  <2>4. counters' = [counters EXCEPT !.dropped = @ + 1]
    BY <1>2, <1>9 DEF Emit
  <2>5. t \in DOMAIN queues /\ Len(old) >= 1
    BY <1>8, <1>9
  <2> QED
    BY <1>2, <1>5, <1>6, <1>7, <1>8, <1>9, <2>1, <2>2, <2>3, <2>4, <2>5
<1>10. CASE Len(old) # capacity
  <2>1. p = Append(old, r)
    BY <1>3, <1>10
  <2>2. lost' = lost
    BY <1>2, <1>10 DEF Emit
  <2>3. counters' = counters
    <3>1. counters' = [counters EXCEPT !.dropped = @ + 0]
      BY <1>2, <1>10 DEF Emit
    <3>2. PICK a : a = counters.dropped
      OBVIOUS
    <3>3. a \in Int /\ counters \in [dropped : Int, pruned : Int, cleared : Int]
      BY <1>1, <3>2 DEF BalanceInv
    <3>4. counters' = [counters EXCEPT !.dropped = a]
      BY <3>1, <3>2, <3>3
    <3> QED
      BY <3>2, <3>3, <3>4
  <2> QED
    BY <1>2, <1>5, <1>6, <1>7, <1>8, <1>10, <2>1, <2>2, <2>3
<1> QED
  BY <1>2, <1>9, <1>10

\* The logs keep their order.
LEMMA EmitLogs ==
  ASSUME EventsInv, NEW t \in EventTypes, Emit(t)
  PROVE  LogsInv'
<1>1. PICK r : r = [frame |-> currentFrame, sequence |-> nextSequence]
  OBVIOUS
<1>2. LogsInv /\ RingsInv
  BY DEF EventsInv
<1>3. /\ r \in Record
      /\ r.sequence = nextSequence /\ r.frame = currentFrame
      /\ \A u \in EventTypes : \A i \in 1 .. Len(log[u]) :
           log[u][i].sequence < r.sequence /\ log[u][i].frame <= r.frame
      /\ log' = [log EXCEPT ![t] = Append(@, r)]
      /\ nextSequence' = nextSequence + 1 /\ nextSequence \in Nat
      /\ currentFrame' = currentFrame /\ horizon' = horizon
      /\ currentFrame \in Nat
  BY <1>1, EmitNewest
<1>4. \A u \in EventTypes : log[u] \in Seq(Record)
  BY <1>2 DEF LogsInv
<1>5. /\ log' \in [EventTypes -> Seq(Record)]
      /\ \A u \in EventTypes : log'[u] = IF u = t THEN Append(log[t], r) ELSE log[u]
  <2>1. Append(log[t], r) \in Seq(Record)
    BY <1>3, <1>4
  <2> QED
    BY <1>2, <1>3, <2>1 DEF LogsInv
<1>6. \A u \in EventTypes : LogOrdered(log'[u])
  <2>1. LogOrdered(Append(log[t], r))
    <3>1. log[t] \in Seq(Record) /\ LogOrdered(log[t])
      BY <1>2, <1>4 DEF LogsInv
    <3> QED
      BY <1>3, <3>1, LogGrows
  <2> QED
    BY <1>2, <1>5, <2>1 DEF LogsInv
<1>7. \A u \in EventTypes : \A i \in 1 .. Len(log'[u]) :
        \/ u = t /\ log'[u][i] = r
        \/ i \in 1 .. Len(log[u]) /\ log'[u][i] = log[u][i]
  <2>1. PICK b : b = Append(log[t], r)
    OBVIOUS
  <2>2. PICK n : n = Len(log[t])
    OBVIOUS
  <2>3. /\ n \in Nat /\ Len(b) = n + 1 /\ b[n + 1] = r
        /\ \A i \in 1 .. n : b[i] = log[t][i]
    BY <1>3, <1>4, <2>1, <2>2, AppendProperties, LenProperties
  <2>4. \A i \in 1 .. (n + 1) : i = n + 1 \/ i \in 1 .. n
    BY <2>3
  <2>5. \A i \in 1 .. Len(b) : b[i] = r \/ (i \in 1 .. n /\ b[i] = log[t][i])
    BY <2>3, <2>4
  <2> QED
    BY <1>5, <2>1, <2>2, <2>5
<1>8. \A u \in EventTypes : \A i \in 1 .. Len(log[u]) :
        /\ log[u][i].sequence \in Nat /\ log[u][i].frame \in Nat
  <2>1. \A u \in EventTypes : \A i \in 1 .. Len(log[u]) : log[u][i] \in Record
    BY <1>4
  <2> QED
    BY <2>1, EventsAssumption DEF Record
<1>9. ASSUME NEW u \in EventTypes, NEW i \in 1 .. Len(log'[u])
      PROVE  log'[u][i].sequence < nextSequence' /\ log'[u][i].frame <= currentFrame'
  <2>1. CASE log'[u][i] = r
    BY <1>3, <2>1
  <2>2. CASE i \in 1 .. Len(log[u]) /\ log'[u][i] = log[u][i]
    BY <1>3, <1>8, <2>2
  <2> QED
    BY <1>7, <2>1, <2>2
<1>10. ASSUME NEW u \in EventTypes, NEW v \in EventTypes,
              NEW i \in 1 .. Len(log'[u]), NEW j \in 1 .. Len(log'[v]),
              log'[u][i].sequence = log'[v][j].sequence
       PROVE  u = v
  <2>1. CASE i \in 1 .. Len(log[u]) /\ log'[u][i] = log[u][i]
    <3>1. log'[u][i].sequence < r.sequence
      BY <1>3, <2>1
    <3>2. log'[v][j] # r
      BY <1>3, <1>8, <1>10, <2>1, <3>1
    <3>3. j \in 1 .. Len(log[v]) /\ log'[v][j] = log[v][j]
      BY <1>7, <3>2
    <3> QED
      BY <1>2, <1>10, <2>1, <3>3 DEF LogsInv
  <2>2. CASE u = t /\ log'[u][i] = r
    <3>1. CASE v = t
      BY <2>2, <3>1
    <3>2. CASE j \in 1 .. Len(log[v]) /\ log'[v][j] = log[v][j]
      <4>1. log'[v][j].sequence < r.sequence
        BY <1>3, <3>2
      <4> QED
        BY <1>3, <1>10, <2>2, <4>1
    <3> QED
      BY <1>7, <3>1, <3>2
  <2> QED
    BY <1>7, <2>1, <2>2
<1>11. ASSUME NEW n \in lost' PROVE n \in Nat /\ n < nextSequence'
  <2>1. lost' = lost \/ \E q \in Seq(Record) :
                          /\ q = Records(t) /\ Len(q) >= 1
                          /\ lost' = lost \union {q[1].sequence}
    BY <1>1, EmitRings
  <2>2. CASE n \in lost
    <3>1. n \in Nat /\ n < nextSequence
      BY <1>2, <2>2 DEF LogsInv
    <3> QED
      BY <1>3, <3>1
  <2>3. CASE n \notin lost
    <3>1. PICK q \in Seq(Record) : /\ q = Records(t) /\ Len(q) >= 1
                                   /\ n = q[1].sequence
      BY <1>11, <2>1, <2>3
    <3>2. RingOK(q, log[t], lost, horizon) /\ LogOrdered(log[t])
      BY <1>2, <3>1 DEF RingsInv, LogsInv
    <3>3. \E j \in 1 .. Len(log[t]) : log[t][j] = q[1]
      BY <3>1, <3>2, RingOrdered
    <3> QED
      BY <1>3, <1>8, <3>1, <3>3
  <2> QED
    BY <2>2, <2>3
<1>12. horizon' \in Nat /\ horizon' <= currentFrame'
  BY <1>2, <1>3 DEF LogsInv
<1> QED
  BY <1>5, <1>6, <1>9, <1>10, <1>11, <1>12 DEF LogsInv

-----------------------------------------------------------------------------
(* Counting the records of all rings.                                      *)

Places(qs) == UNION {{t} \X DOMAIN qs[t] : t \in DOMAIN qs}

\* A place is a ring and an index into it.
LEMMA PlacesAre ==
  ASSUME NEW qs
  PROVE  \A x : x \in Places(qs) <=>
                  \E t \in DOMAIN qs : \E i \in DOMAIN qs[t] : x = <<t, i>>
BY DEF Places

\* Finitely many rings of bounded length have finitely many records.
LEMMA PlacesFinite ==
  ASSUME NEW qs, IsFiniteSet(DOMAIN qs), NEW n \in Nat,
         \A t \in DOMAIN qs : DOMAIN qs[t] \subseteq 1 .. n
  PROVE  IsFiniteSet(Places(qs)) /\ RecordCount(qs) \in Nat
<1>1. IsFiniteSet(1 .. n)
  BY FS_Interval
<1>2. PICK D : D = DOMAIN qs
  OBVIOUS
<1>3. IsFiniteSet(D \X (1 .. n))
  BY <1>1, <1>2, FS_Product
<1>4. Places(qs) \in SUBSET (D \X (1 .. n))
  <2> SUFFICES ASSUME NEW x \in Places(qs) PROVE x \in D \X (1 .. n)
    OBVIOUS
  <2>1. PICK t, i : t \in DOMAIN qs /\ i \in DOMAIN qs[t] /\ x = <<t, i>>
    BY PlacesAre
  <2>2. i \in 1 .. n
    BY <2>1
  <2> QED
    BY <1>2, <2>1, <2>2
<1>5. IsFiniteSet(Places(qs))
  BY <1>3, <1>4, FS_Subset
<1> QED
  BY <1>5, FS_CardinalityType DEF RecordCount, Places

\* Rings with the same places have as many records.
LEMMA CountEqual ==
  ASSUME NEW qs, NEW ps,
         \A t \in DOMAIN qs : \A i \in DOMAIN qs[t] :
           t \in DOMAIN ps /\ i \in DOMAIN ps[t],
         \A t \in DOMAIN ps : \A i \in DOMAIN ps[t] :
           t \in DOMAIN qs /\ i \in DOMAIN qs[t]
  PROVE  RecordCount(ps) = RecordCount(qs)
<1>1. \A x : x \in Places(qs) <=> x \in Places(ps)
  BY PlacesAre
<1>2. Places(qs) = Places(ps)
  BY <1>1
<1> QED
  BY <1>2 DEF RecordCount, Places

\* A record more.
LEMMA CountGrows ==
  ASSUME NEW qs, NEW ps, NEW t, NEW n \in Nat, IsFiniteSet(Places(qs)),
         DOMAIN ps = DOMAIN qs \union {t},
         \A u \in DOMAIN qs : u # t => DOMAIN ps[u] = DOMAIN qs[u],
         DOMAIN ps[t] = 1 .. (n + 1),
         t \in DOMAIN qs => DOMAIN qs[t] = 1 .. n,
         t \notin DOMAIN qs => n = 0
  PROVE  RecordCount(ps) = RecordCount(qs) + 1
<1>1. PICK e : e = <<t, n + 1>>
  OBVIOUS
<1>2. e \notin Places(qs)
  <2> SUFFICES ASSUME e \in Places(qs) PROVE FALSE
    OBVIOUS
  <2>1. PICK u, i : u \in DOMAIN qs /\ i \in DOMAIN qs[u] /\ e = <<u, i>>
    BY PlacesAre
  <2>2. u = t /\ i = n + 1
    BY <1>1, <2>1
  <2>3. n + 1 \in 1 .. n
    BY <2>1, <2>2
  <2> QED
    BY <2>3
<1>3. ASSUME NEW x \in Places(ps) PROVE x \in Places(qs) \union {e}
  <2>1. PICK u, i : u \in DOMAIN ps /\ i \in DOMAIN ps[u] /\ x = <<u, i>>
    BY PlacesAre
  <2>2. CASE u # t
    <3>1. u \in DOMAIN qs /\ i \in DOMAIN qs[u]
      BY <2>1, <2>2
    <3> QED
      BY <2>1, <3>1, PlacesAre
  <2>3. CASE u = t
    <3>1. i \in 1 .. (n + 1)
      BY <2>1, <2>3
    <3>2. CASE i = n + 1
      BY <1>1, <2>1, <2>3, <3>2
    <3>3. CASE i \in 1 .. n
      <4>1. t \in DOMAIN qs
        BY <3>3
      <4>2. i \in DOMAIN qs[t]
        BY <3>3, <4>1
      <4> QED
        BY <2>1, <2>3, <4>1, <4>2, PlacesAre
    <3> QED
      BY <3>1, <3>2, <3>3
  <2> QED
    BY <2>2, <2>3
<1>4. ASSUME NEW x \in Places(qs) PROVE x \in Places(ps)
  <2>1. PICK u, i : u \in DOMAIN qs /\ i \in DOMAIN qs[u] /\ x = <<u, i>>
    BY PlacesAre
  <2>2. u \in DOMAIN ps /\ i \in DOMAIN ps[u]
    <3>1. CASE u # t
      BY <2>1, <3>1
    <3>2. CASE u = t
      <4>1. i \in 1 .. n
        BY <2>1, <3>2
      <4>2. i \in 1 .. (n + 1)
        BY <4>1
      <4> QED
        BY <3>2, <4>2
    <3> QED
      BY <3>1, <3>2
  <2> QED
    BY <2>1, <2>2, PlacesAre
<1>5. e \in Places(ps)
  <2>1. t \in DOMAIN ps /\ n + 1 \in DOMAIN ps[t]
    OBVIOUS
  <2> QED
    BY <1>1, <2>1, PlacesAre
<1>6. Places(ps) = Places(qs) \union {e}
  BY <1>3, <1>4, <1>5
<1>7. Cardinality(Places(ps)) = Cardinality(Places(qs)) + 1
  BY <1>2, <1>6, FS_AddElement
<1> QED
  BY <1>7 DEF RecordCount, Places

\* The records of some rings and those of the others.
LEMMA CountSplit ==
  ASSUME NEW qs, NEW ps, NEW rs, IsFiniteSet(Places(qs)),
         DOMAIN qs = DOMAIN ps \union DOMAIN rs,
         DOMAIN ps \cap DOMAIN rs = {},
         \A u \in DOMAIN ps : ps[u] = qs[u],
         \A u \in DOMAIN rs : rs[u] = qs[u]
  PROVE  /\ RecordCount(qs) = RecordCount(ps) + RecordCount(rs)
         /\ RecordCount(ps) \in Nat /\ RecordCount(rs) \in Nat
<1>1. \A x : x \in Places(ps) => x \in Places(qs)
  BY PlacesAre
<1>2. \A x : x \in Places(rs) => x \in Places(qs)
  BY PlacesAre
<1>3. ASSUME NEW x \in Places(qs) PROVE x \in Places(ps) \union Places(rs)
  <2>1. PICK u, i : u \in DOMAIN qs /\ i \in DOMAIN qs[u] /\ x = <<u, i>>
    BY PlacesAre
  <2>2. CASE u \in DOMAIN ps
    <3>1. i \in DOMAIN ps[u]
      BY <2>1, <2>2
    <3> QED
      BY <2>1, <2>2, <3>1, PlacesAre
  <2>3. CASE u \in DOMAIN rs
    <3>1. i \in DOMAIN rs[u]
      BY <2>1, <2>3
    <3> QED
      BY <2>1, <2>3, <3>1, PlacesAre
  <2> QED
    BY <2>1, <2>2, <2>3
<1>4. Places(qs) = Places(ps) \union Places(rs)
  BY <1>1, <1>2, <1>3
<1>5. Places(ps) \cap Places(rs) = {}
  <2> SUFFICES ASSUME NEW x, x \in Places(ps), x \in Places(rs) PROVE FALSE
    OBVIOUS
  <2>1. PICK u, i : u \in DOMAIN ps /\ i \in DOMAIN ps[u] /\ x = <<u, i>>
    BY PlacesAre
  <2>2. PICK v, j : v \in DOMAIN rs /\ j \in DOMAIN rs[v] /\ x = <<v, j>>
    BY PlacesAre
  <2>3. u = v
    BY <2>1, <2>2
  <2> QED
    BY <2>1, <2>2, <2>3
<1>6. IsFiniteSet(Places(ps)) /\ IsFiniteSet(Places(rs))
  <2>1. Places(ps) \in SUBSET Places(qs) /\ Places(rs) \in SUBSET Places(qs)
    BY <1>1, <1>2
  <2> QED
    BY <2>1, FS_Subset
<1>7. Cardinality(Places(ps)) \in Nat /\ Cardinality(Places(rs)) \in Nat
  BY <1>6, FS_CardinalityType
<1>8. Cardinality(Places(qs)) =
        Cardinality(Places(ps)) + Cardinality(Places(rs))
          - Cardinality(Places(ps) \cap Places(rs))
  BY <1>4, <1>6, FS_Union
<1>9. Cardinality(Places(ps) \cap Places(rs)) = 0
  BY <1>5, FS_EmptySet
<1>10. Cardinality(Places(qs)) = Cardinality(Places(ps)) + Cardinality(Places(rs))
  BY <1>7, <1>8, <1>9
<1> QED
  BY <1>7, <1>10 DEF RecordCount, Places

\* What QueuesInv and RingsInv say about the count.
LEMMA QueuesFinite ==
  ASSUME RingsInv, QueuesInv
  PROVE  /\ IsFiniteSet(Places(queues)) /\ RecordCount(queues) \in Nat
         /\ \A t \in DOMAIN queues :
              /\ queues[t] \in Seq(Record)
              /\ DOMAIN queues[t] = 1 .. Len(queues[t])
              /\ Len(queues[t]) \in Nat
<1>1. \A t \in DOMAIN queues : queues[t] \in Seq(Record)
  BY DEF QueuesInv, RingsInv, RingOK, Records
<1>2. \A t \in DOMAIN queues : /\ DOMAIN queues[t] = 1 .. Len(queues[t])
                               /\ Len(queues[t]) \in Nat
  BY <1>1
<1>3. \A t \in DOMAIN queues : DOMAIN queues[t] \subseteq 1 .. capacity
  BY <1>2 DEF QueuesInv
<1>4. IsFiniteSet(Places(queues)) /\ RecordCount(queues) \in Nat
  BY <1>3, PlacesFinite DEF QueuesInv
<1> QED
  BY <1>1, <1>2, <1>4

-----------------------------------------------------------------------------
(* Emitting, continued.                                                    *)

\* The rings stay the ends of their logs.
LEMMA EmitKeepsRings ==
  ASSUME EventsInv, NEW t \in EventTypes, Emit(t)
  PROVE  RingsInv'
<1>1. PICK r : r = [frame |-> currentFrame, sequence |-> nextSequence]
  OBVIOUS
<1>2. LogsInv /\ RingsInv
  BY DEF EventsInv
<1>3. /\ r \in Record
      /\ r.sequence = nextSequence /\ r.frame = currentFrame
      /\ \A u \in EventTypes : \A i \in 1 .. Len(log[u]) :
           log[u][i].sequence < r.sequence /\ log[u][i].frame <= r.frame
      /\ log' = [log EXCEPT ![t] = Append(@, r)]
      /\ nextSequence \in Nat /\ horizon' = horizon
  BY <1>1, EmitNewest
<1>4. PICK q : q = Records(t)
  OBVIOUS
<1>5. /\ \A u \in EventTypes : u # t => Records(u)' = Records(u)
      /\ q \in Seq(Record)
      /\ \/ Records(t)' = Append(q, r) /\ lost' = lost
         \/ /\ Len(q) >= 1
            /\ Records(t)' = Append(Tail(q), r)
            /\ lost' = lost \union {q[1].sequence}
  BY <1>1, <1>4, EmitRings
<1>6. PICK l : l = log[t]
  OBVIOUS
<1>7. log'[t] = Append(l, r) /\ \A u \in EventTypes : u # t => log'[u] = log[u]
  BY <1>2, <1>3, <1>6 DEF LogsInv
<1>8. RingOK(q, l, lost, horizon) /\ LogOrdered(l)
  BY <1>2, <1>4, <1>6 DEF RingsInv, LogsInv
<1>9. /\ LogOrdered(q)
      /\ \A i \in 1 .. Len(q) :
           /\ q[i] \in Record
           /\ \E j \in 1 .. Len(l) : l[j] = q[i]
           /\ q[i].sequence \notin lost /\ q[i].frame >= horizon
  BY <1>8, RingOrdered
<1>10. horizon \in Nat /\ r.frame >= horizon
  <2>1. currentFrame \in Nat
    BY <1>1, EmitNewest
  <2> QED
    BY <1>2, <1>3, <2>1 DEF LogsInv
<1>11. r.sequence \notin lost
  BY <1>2, <1>3 DEF LogsInv
<1>12. CASE Records(t)' = Append(q, r) /\ lost' = lost
  <2>1. RingOK(Append(q, r), Append(l, r), lost, horizon)
    BY <1>3, <1>8, <1>10, <1>11, RingGrows
  <2> QED
    BY <1>2, <1>3, <1>5, <1>7, <1>12, <2>1 DEF RingsInv
<1>13. CASE /\ Len(q) >= 1
            /\ Records(t)' = Append(Tail(q), r)
            /\ lost' = lost \union {q[1].sequence}
  <2>1. PICK p : p = Tail(q)
    OBVIOUS
  <2>2. PICK more : more = lost \union {q[1].sequence}
    OBVIOUS
  <2>3. PICK m : m = Len(q)
    OBVIOUS
  <2>4. m \in Nat /\ m >= 1
    BY <1>5, <1>13, <2>3
  <2>5. p \in Seq(Record) /\ IsTail(p, q, 1)
    <3>1. p \in Seq(Record) /\ Len(p) = m - 1 /\ \A i \in 1 .. (m - 1) : p[i] = q[i + 1]
      BY <1>5, <2>1, <2>3, <2>4
    <3>2. \A i \in 1 .. (m - 1) : i + 1 = 1 + i
      BY <2>4
    <3> QED
      BY <2>3, <3>1, <3>2 DEF IsTail
  <2>6. \A i \in 1 .. m : q[i].sequence \in Nat
    <3>1. \A i \in 1 .. m : q[i] \in Record
      BY <1>5, <2>3
    <3> QED
      BY <3>1, EventsAssumption DEF Record
  <2>7. \A i \in 1 .. m : i > 1 => q[i].sequence # q[1].sequence
    <3> SUFFICES ASSUME NEW i \in 1 .. m, i > 1 PROVE q[i].sequence # q[1].sequence
      OBVIOUS
    <3>1. 1 \in 1 .. m
      BY <2>4
    <3>2. q[1].sequence < q[i].sequence
      BY <1>9, <2>3, <3>1 DEF LogOrdered
    <3> QED
      BY <2>6, <3>1, <3>2
  <2>8. ASSUME NEW i \in 1 .. m
        PROVE  i > 1 <=> q[i].sequence \notin more /\ q[i].frame >= horizon
    <3>1. CASE i = 1
      BY <2>2, <3>1
    <3>2. CASE i > 1
      BY <1>9, <2>2, <2>3, <2>7, <3>2
    <3> QED
      BY <2>4, <3>1, <3>2
  <2>9. RingOK(p, l, more, horizon)
    <3>1. 1 \in 0 .. Len(q) /\ lost \subseteq more /\ horizon <= horizon
      BY <1>10, <2>2, <2>3, <2>4
    <3> QED
      BY <1>8, <1>10, <2>3, <2>5, <2>8, <3>1, RingShrinks
  <2>10. r.sequence \notin more
    <3>1. 1 \in 1 .. m
      BY <2>4
    <3>2. PICK j \in 1 .. Len(l) : l[j] = q[1]
      BY <1>9, <2>3, <3>1
    <3>3. q[1].sequence < r.sequence
      BY <1>3, <1>6, <3>2
    <3> QED
      BY <1>3, <1>11, <2>2, <2>6, <3>1, <3>3
  <2>11. RingOK(Append(p, r), Append(l, r), more, horizon)
    BY <1>3, <1>10, <2>9, <2>10, RingGrows
  <2>12. ASSUME NEW u \in EventTypes, u # t
         PROVE  RingOK(Records(u), log[u], more, horizon)
    <3>1. RingOK(Records(u), log[u], lost, horizon)
      BY <1>2 DEF RingsInv
    <3>2. ASSUME NEW i \in 1 .. Len(log[u]), log[u][i].sequence = q[1].sequence
          PROVE  FALSE
      <4>1. 1 \in 1 .. m
        BY <2>4
      <4>2. PICK j \in 1 .. Len(l) : l[j] = q[1]
        BY <1>9, <2>3, <4>1
      <4>3. u = t
        BY <1>2, <1>6, <3>2, <4>2 DEF LogsInv
      <4> QED
        BY <2>12, <4>3
    <3>3. \A i \in 1 .. Len(log[u]) :
            log[u][i].sequence \in more => log[u][i].sequence \in lost
      BY <2>2, <3>2
    <3>4. lost \subseteq more
      BY <2>2
    <3> QED
      BY <3>1, <3>3, <3>4, RingKept
  <2>13. lost' = more /\ Records(t)' = Append(p, r)
    BY <1>13, <2>1, <2>2
  <2> QED
    BY <1>3, <1>5, <1>7, <2>11, <2>12, <2>13 DEF RingsInv
<1> QED
  BY <1>5, <1>12, <1>13

\* Types, capacity and counters.
LEMMA EmitKeepsQueues ==
  ASSUME EventsInv, NEW t \in EventTypes, Emit(t)
  PROVE  QueuesInv' /\ BalanceInv'
<1>1. PICK r : r = [frame |-> currentFrame, sequence |-> nextSequence]
  OBVIOUS
<1>2. RingsInv /\ QueuesInv /\ BalanceInv
  BY DEF EventsInv
<1>3. /\ r \in Record
      /\ nextSequence' = nextSequence + 1 /\ nextSequence \in Nat
      /\ nextSequence' \in 0 .. MaxEmits
      /\ currentFrame' = currentFrame
  BY <1>1, EmitNewest
<1>4. PICK q : q = Records(t)
  OBVIOUS
<1>5. /\ \A u \in EventTypes : u # t => Records(u)' = Records(u)
      /\ DOMAIN queues' = DOMAIN queues \union {t}
      /\ \A u \in DOMAIN queues' : queues'[u] = Records(u)'
      /\ q \in Seq(Record) /\ Len(q) <= capacity
      /\ \/ /\ Len(q) # capacity
            /\ Records(t)' = Append(q, r)
            /\ counters' = counters
         \/ /\ Len(q) = capacity
            /\ t \in DOMAIN queues
            /\ Len(q) >= 1
            /\ Records(t)' = Append(Tail(q), r)
            /\ counters' = [counters EXCEPT !.dropped = @ + 1]
  BY <1>1, <1>4, EmitRings
<1>6. PICK m : m = Len(q)
  OBVIOUS
<1>7. /\ m \in Nat /\ m <= capacity
      /\ capacity \in Nat \ {0} /\ capacity' = capacity
      /\ retention \in Nat \ {0} /\ retention' = retention
  BY <1>2, <1>5, <1>6 DEF QueuesInv, Emit
<1>8. /\ \A u \in DOMAIN queues : u # t => queues'[u] = queues[u]
      /\ queues'[t] = Records(t)'
      /\ t \in DOMAIN queues => queues[t] = q
      /\ t \notin DOMAIN queues => q = <<>>
  <2>1. \A u \in DOMAIN queues : u # t => Records(u)' = queues[u]
    BY <1>2, <1>5 DEF Records, QueuesInv
  <2> QED
    BY <1>4, <1>5, <2>1 DEF Records
<1>9. /\ \/ Len(Records(t)') = m + 1 /\ m # capacity
         \/ Len(Records(t)') = m /\ m = capacity
      /\ DOMAIN (Records(t)') = 1 .. Len(Records(t)')
  <2>1. CASE Records(t)' = Append(q, r) /\ m # capacity
    BY <1>3, <1>5, <1>6, <2>1
  <2>2. CASE /\ Records(t)' = Append(Tail(q), r)
             /\ Len(q) >= 1 /\ m = capacity
    <3>1. Tail(q) \in Seq(Record) /\ Len(Tail(q)) = m - 1
      <4>1. q # <<>>
        BY <1>6, <1>7, <2>2
      <4> QED
        BY <1>5, <1>6, <4>1, HeadTailProperties
    <3>2. Len(Append(Tail(q), r)) = m /\ Append(Tail(q), r) \in Seq(Record)
      BY <1>3, <1>7, <3>1
    <3> QED
      BY <2>2, <3>2
  <2> QED
    BY <1>5, <1>6, <2>1, <2>2
<1>10. Len(queues'[t]) \in 1 .. capacity
  <2>1. PICK k : k = Len(Records(t)')
    OBVIOUS
  <2>2. (k = m + 1 /\ m # capacity) \/ (k = m /\ m = capacity)
    BY <1>9, <2>1
  <2>3. k \in 1 .. capacity
    BY <1>7, <2>2
  <2> QED
    BY <1>8, <2>1, <2>3
<1>11. QueuesInv'
  <2>1. IsFiniteSet(DOMAIN queues')
    BY <1>2, <1>5, FS_AddElement DEF QueuesInv
  <2>2. \A u \in DOMAIN queues' : Len(queues'[u]) \in 1 .. capacity
    BY <1>2, <1>5, <1>8, <1>10 DEF QueuesInv
  <2> QED
    BY <1>2, <1>3, <1>5, <1>7, <2>1, <2>2 DEF QueuesInv
<1>12. /\ IsFiniteSet(Places(queues)) /\ RecordCount(queues) \in Nat
       /\ \A u \in DOMAIN queues : DOMAIN queues[u] = 1 .. Len(queues[u])
  BY <1>2, QueuesFinite
<1>13. \A u \in DOMAIN queues : u # t => DOMAIN queues'[u] = DOMAIN queues[u]
  BY <1>8
<1>14. /\ counters \in [dropped : Int, pruned : Int, cleared : Int]
       /\ nextSequence = RecordCount(queues)
                           + counters.dropped + counters.pruned + counters.cleared
  BY <1>2 DEF BalanceInv, CountersBalance
<1>15. CASE Len(Records(t)') = m + 1 /\ m # capacity
  <2>1. counters' = counters
    BY <1>5, <1>6, <1>15
  <2>2. t \in DOMAIN queues => DOMAIN queues[t] = 1 .. m
    BY <1>6, <1>8, <1>12
  <2>3. t \notin DOMAIN queues => m = 0
    <3>1. Len(<<>>) = 0
      OBVIOUS
    <3> QED
      BY <1>6, <1>8, <3>1
  <2>4. DOMAIN queues'[t] = 1 .. (m + 1)
    BY <1>8, <1>9, <1>15
  <2>5. RecordCount(queues') = RecordCount(queues) + 1
    BY <1>5, <1>7, <1>12, <1>13, <2>2, <2>3, <2>4, CountGrows
  <2>6. nextSequence' = RecordCount(queues')
                          + counters'.dropped + counters'.pruned + counters'.cleared
    BY <1>3, <1>12, <1>14, <2>1, <2>5
  <2>7. RecordCount(queues)' = RecordCount(queues')
    BY DEF RecordCount
  <2> QED
    BY <1>11, <1>14, <2>1, <2>6, <2>7 DEF BalanceInv, CountersBalance
<1>16. CASE Len(Records(t)') = m /\ m = capacity
  <2>1. counters' = [counters EXCEPT !.dropped = @ + 1] /\ t \in DOMAIN queues
    BY <1>5, <1>6, <1>16
  <2>2. DOMAIN queues[t] = 1 .. m
    BY <1>6, <1>8, <1>12, <2>1
  <2>3. DOMAIN queues'[t] = 1 .. m
    BY <1>8, <1>9, <1>16
  <2>4. DOMAIN queues' = DOMAIN queues
    BY <1>5, <2>1
  <2>5. RecordCount(queues') = RecordCount(queues)
    BY <1>13, <2>2, <2>3, <2>4, CountEqual
  <2>6. /\ counters'.dropped = counters.dropped + 1
        /\ counters'.pruned = counters.pruned
        /\ counters'.cleared = counters.cleared
        /\ counters' \in [dropped : Int, pruned : Int, cleared : Int]
    <3>1. counters.dropped + 1 \in Int
      BY <1>14
    <3> QED
      BY <1>14, <2>1, <3>1
  <2>7. nextSequence' = RecordCount(queues')
                          + counters'.dropped + counters'.pruned + counters'.cleared
    BY <1>3, <1>12, <1>14, <2>5, <2>6
  <2> QED
    BY <1>11, <2>6, <2>7 DEF BalanceInv, CountersBalance
<1> QED
  BY <1>9, <1>15, <1>16

\* The cursors have yet to reach the new record.
LEMMA EmitKeepsReaders ==
  ASSUME EventsInv, NEW t \in EventTypes, Emit(t)
  PROVE  ReadersInv'
<1>1. PICK r : r = [frame |-> currentFrame, sequence |-> nextSequence]
  OBVIOUS
<1>2. ReadersInv /\ RingsInv
  BY DEF EventsInv
<1>3. /\ r \in Record /\ r.sequence = nextSequence
      /\ nextSequence' = nextSequence + 1 /\ nextSequence \in Nat
  BY <1>1, EmitNewest
<1>4. PICK q : q = Records(t)
  OBVIOUS
<1>5. /\ \A u \in EventTypes : u # t => Records(u)' = Records(u)
      /\ q \in Seq(Record)
      /\ \/ Records(t)' = Append(q, r)
         \/ Len(q) >= 1 /\ Records(t)' = Append(Tail(q), r)
  BY <1>1, <1>4, EmitRings
<1>6. cursor' = cursor /\ delivered' = delivered
  BY DEF Emit, readerVars
<1>7. PICK d, c : d = delivered[t] /\ c = cursor[t]
  OBVIOUS
<1>8. ReaderOK(d, q, c) /\ c \in Nat /\ c <= r.sequence
  BY <1>2, <1>3, <1>4, <1>7 DEF ReadersInv
<1>9. ReaderOK(d, Records(t)', c)
  <2>1. CASE Records(t)' = Append(q, r)
    BY <1>3, <1>5, <1>8, <2>1, ReaderGrows
  <2>2. CASE Len(q) >= 1 /\ Records(t)' = Append(Tail(q), r)
    <3>1. PICK m : m = Len(q)
      OBVIOUS
    <3>2. m \in Nat /\ m >= 1
      BY <1>5, <2>2, <3>1
    <3>3. /\ Tail(q) \in Seq(Record) /\ Len(Tail(q)) = m - 1
          /\ \A i \in 1 .. (m - 1) : Tail(q)[i] = q[i + 1]
      BY <1>5, <3>1, <3>2
    <3>4. \A i \in 1 .. (m - 1) : i + 1 = 1 + i
      BY <3>2
    <3>5. IsTail(Tail(q), q, 1) /\ 1 \in 0 .. Len(q)
      BY <3>1, <3>2, <3>3, <3>4 DEF IsTail
    <3>6. ReaderOK(d, Tail(q), c)
      BY <1>5, <1>8, <3>5, ReaderShrinks
    <3>7. ReaderOK(d, Append(Tail(q), r), c)
      BY <1>3, <1>8, <3>3, <3>6, ReaderGrows
    <3> QED
      BY <2>2, <3>7
  <2> QED
    BY <1>5, <2>1, <2>2
<1>10. \A u \in EventTypes : cursor[u] \in Nat /\ cursor[u] <= nextSequence
  BY <1>2 DEF ReadersInv
<1>11. \A u \in EventTypes : cursor[u] <= nextSequence + 1
  BY <1>3, <1>10
<1>12. \A u \in EventTypes : ReaderOK(delivered[u], Records(u)', cursor[u])
  <2>1. \A u \in EventTypes : u # t => ReaderOK(delivered[u], Records(u)', cursor[u])
    BY <1>2, <1>5 DEF ReadersInv
  <2> QED
    BY <1>7, <1>9, <2>1
<1> QED
  BY <1>2, <1>3, <1>6, <1>11, <1>12 DEF ReadersInv

-----------------------------------------------------------------------------
(* Steps that take records from the front of rings.                        *)

\* Ring p is what remains of q when the numbers more have gone and records
\* older than frame later are too old.
Shrunk(q, p, more, later) ==
  /\ p \in Seq(Record)
  /\ \E d \in 0 .. Len(q) :
       /\ IsTail(p, q, d)
       /\ \A i \in 1 .. Len(q) :
            i > d <=> q[i].sequence \notin more /\ q[i].frame >= later

\* Such a step keeps the rings, the logs and the readers as they should be.
LEMMA ShrinkStep ==
  ASSUME EventsInv,
         log' = log, nextSequence' = nextSequence,
         cursor' = cursor, delivered' = delivered,
         lost \subseteq lost', lost' \subseteq Nat, \A n \in lost' : n < nextSequence,
         currentFrame' \in Nat, currentFrame <= currentFrame',
         horizon' \in Nat, horizon <= horizon', horizon' <= currentFrame',
         \A t \in EventTypes : Shrunk(Records(t), Records(t)', lost', horizon')
  PROVE  LogsInv' /\ RingsInv' /\ ReadersInv'
<1>1. LogsInv /\ RingsInv /\ ReadersInv /\ currentFrame \in Nat
  BY EventsAssumption DEF EventsInv, QueuesInv
<1>2. LogsInv'
  <2>1. \A t \in EventTypes : \A i \in 1 .. Len(log[t]) : log[t][i].frame \in Nat
    <3>1. \A t \in EventTypes : log[t] \in Seq(Record)
      BY <1>1 DEF LogsInv
    <3>2. \A t \in EventTypes : \A i \in 1 .. Len(log[t]) : log[t][i] \in Record
      BY <3>1
    <3> QED
      BY <3>2, EventsAssumption DEF Record
  <2>2. \A t \in EventTypes : \A i \in 1 .. Len(log[t]) :
          log[t][i].sequence < nextSequence /\ log[t][i].frame <= currentFrame
    BY <1>1 DEF LogsInv
  <2>3. \A t \in EventTypes : \A i \in 1 .. Len(log[t]) :
          log[t][i].frame <= currentFrame'
    BY <1>1, <2>1, <2>2
  <2> QED
    BY <1>1, <2>2, <2>3 DEF LogsInv
<1>3. ASSUME NEW t \in EventTypes PROVE RingOK(Records(t)', log[t], lost', horizon')
  <2>1. PICK q, p, more, later : /\ q = Records(t) /\ p = Records(t)'
                                 /\ more = lost' /\ later = horizon'
    OBVIOUS
  <2>2. PICK l, gone, since : l = log[t] /\ gone = lost /\ since = horizon
    OBVIOUS
  <2>3. RingOK(q, l, gone, since) /\ since \in Nat
    BY <1>1, <2>1, <2>2 DEF RingsInv, LogsInv
  <2>4. Shrunk(q, p, more, later)
    BY <2>1
  <2>5. PICK d \in 0 .. Len(q) :
          /\ IsTail(p, q, d)
          /\ \A i \in 1 .. Len(q) :
               i > d <=> q[i].sequence \notin more /\ q[i].frame >= later
    BY <2>4 DEF Shrunk
  <2>6. gone \subseteq more /\ later \in Nat /\ since <= later
    BY <2>1, <2>2
  <2>7. RingOK(p, l, more, later)
    BY <2>3, <2>4, <2>5, <2>6, RingShrinks DEF Shrunk
  <2> QED
    BY <2>1, <2>2, <2>7
<1>4. RingsInv'
  BY <1>3 DEF RingsInv
<1>5. ASSUME NEW t \in EventTypes PROVE ReaderOK(delivered[t], Records(t)', cursor[t])
  <2>1. PICK q, p, more, later : /\ q = Records(t) /\ p = Records(t)'
                                 /\ more = lost' /\ later = horizon'
    OBVIOUS
  <2>2. PICK d, c : d = delivered[t] /\ c = cursor[t]
    OBVIOUS
  <2>3. ReaderOK(d, q, c) /\ q \in Seq(Record)
    BY <1>1, <2>1, <2>2 DEF ReadersInv, RingsInv, RingOK
  <2>4. PICK k \in 0 .. Len(q) : IsTail(p, q, k)
    BY <2>1 DEF Shrunk
  <2>5. ReaderOK(d, p, c)
    BY <2>3, <2>4, ReaderShrinks
  <2> QED
    BY <2>1, <2>2, <2>5
<1>6. ReadersInv'
  BY <1>1, <1>5 DEF ReadersInv
<1> QED
  BY <1>2, <1>4, <1>6

\* What is gone when some rings lose their first records: no other record.
LEMMA GoneIs ==
  ASSUME EventsInv, NEW T \in SUBSET DOMAIN queues, NEW f,
         \A t \in T : /\ f[t] \in Seq(Record)
                      /\ \E d \in 0 .. Len(queues[t]) : IsTail(f[t], queues[t], d),
         NEW more,
         \A n : n \in more <=>
                  \/ n \in lost
                  \/ \E t \in T : /\ n \in Sequences(queues[t])
                                  /\ n \notin Sequences(f[t])
  PROVE  /\ lost \subseteq more /\ more \subseteq Nat
         /\ \A n \in more : n < nextSequence
         /\ \A t \in T : Shrunk(queues[t], f[t], more, horizon)
         /\ \A t \in EventTypes \ T : Shrunk(Records(t), Records(t), more, horizon)
<1>1. LogsInv /\ RingsInv /\ QueuesInv
  BY DEF EventsInv
<1>2. T \subseteq EventTypes /\ \A t \in T : queues[t] = Records(t)
  BY <1>1 DEF QueuesInv, Records
<1>3. ASSUME NEW t \in EventTypes
      PROVE  /\ Records(t) \in Seq(Record)
             /\ LogOrdered(Records(t))
             /\ \A i \in 1 .. Len(Records(t)) :
                  /\ Records(t)[i] \in Record
                  /\ \E j \in 1 .. Len(log[t]) : log[t][j] = Records(t)[i]
                  /\ Records(t)[i].sequence \notin lost
                  /\ Records(t)[i].frame >= horizon
  <2>1. PICK q, l : q = Records(t) /\ l = log[t]
    OBVIOUS
  <2>2. RingOK(q, l, lost, horizon) /\ LogOrdered(l)
    BY <1>1, <2>1 DEF RingsInv, LogsInv
  <2>3. q \in Seq(Record)
    BY <2>2 DEF RingOK
  <2>4. /\ LogOrdered(q)
        /\ \A i \in 1 .. Len(q) :
             /\ q[i] \in Record
             /\ \E j \in 1 .. Len(l) : l[j] = q[i]
             /\ q[i].sequence \notin lost /\ q[i].frame >= horizon
    BY <2>2, RingOrdered
  <2> QED
    BY <2>1, <2>3, <2>4
<1>4. ASSUME NEW t \in EventTypes, NEW u \in EventTypes,
             NEW i \in 1 .. Len(Records(t)), NEW j \in 1 .. Len(Records(u)),
             Records(t)[i].sequence = Records(u)[j].sequence
      PROVE  t = u
  <2>1. PICK k \in 1 .. Len(log[t]) : log[t][k] = Records(t)[i]
    BY <1>3
  <2>2. PICK l \in 1 .. Len(log[u]) : log[u][l] = Records(u)[j]
    BY <1>3
  <2>3. log[t][k].sequence = log[u][l].sequence
    BY <1>4, <2>1, <2>2
  <2> QED
    BY <1>1, <2>3 DEF LogsInv
<1>5. \A t \in EventTypes : \A n : n \in Sequences(Records(t)) <=>
        \E i \in 1 .. Len(Records(t)) : n = Records(t)[i].sequence
  <2>1. \A t \in EventTypes : DOMAIN Records(t) = 1 .. Len(Records(t))
    BY <1>3
  <2> QED
    BY <2>1 DEF Sequences
<1>6. ASSUME NEW n \in more PROVE n \in Nat /\ n < nextSequence
  <2>1. CASE n \in lost
    BY <1>1, <2>1 DEF LogsInv
  <2>2. CASE n \notin lost
    <3>1. PICK t \in T : n \in Sequences(queues[t])
      BY <2>2
    <3>2. PICK i \in 1 .. Len(Records(t)) : n = Records(t)[i].sequence
      BY <1>2, <1>5, <3>1
    <3>3. PICK j \in 1 .. Len(log[t]) : log[t][j] = Records(t)[i]
      BY <1>2, <1>3
    <3>4. n < nextSequence
      BY <1>1, <1>2, <3>2, <3>3 DEF LogsInv
    <3>5. Records(t)[i] \in Record
      BY <1>2, <1>3
    <3> QED
      BY <3>2, <3>4, <3>5, EventsAssumption DEF Record
  <2> QED
    BY <2>1, <2>2
<1>7. ASSUME NEW t \in EventTypes \ T PROVE Shrunk(Records(t), Records(t), more, horizon)
  <2>1. PICK q : q = Records(t)
    OBVIOUS
  <2>2. PICK m : m = Len(q)
    OBVIOUS
  <2>3. q \in Seq(Record) /\ m \in Nat
    BY <1>3, <2>1, <2>2
  <2>4. IsTail(q, q, 0) /\ 0 \in 0 .. m
    BY <2>2, <2>3 DEF IsTail
  <2>5. ASSUME NEW i \in 1 .. m
        PROVE  q[i].sequence \notin more /\ q[i].frame >= horizon
    <3>1. q[i].sequence \notin lost /\ q[i].frame >= horizon
      BY <1>3, <2>1, <2>2
    <3>2. ASSUME NEW u \in T, q[i].sequence \in Sequences(queues[u]) PROVE FALSE
      <4>1. PICK j \in 1 .. Len(Records(u)) : q[i].sequence = Records(u)[j].sequence
        BY <1>2, <1>5, <3>2
      <4>2. t = u
        BY <1>2, <1>4, <2>1, <2>2, <4>1
      <4> QED
        BY <3>2, <4>2
    <3> QED
      BY <3>1, <3>2
  <2>6. \A i \in 1 .. m : i > 0
    BY <2>3
  <2>7. Shrunk(q, q, more, horizon)
    BY <2>2, <2>3, <2>4, <2>5, <2>6 DEF Shrunk
  <2> QED
    BY <2>1, <2>7
<1>8. ASSUME NEW t \in T PROVE Shrunk(queues[t], f[t], more, horizon)
  <2>1. PICK q, p : q = Records(t) /\ p = f[t]
    OBVIOUS
  <2>2. q = queues[t] /\ t \in EventTypes
    BY <1>2, <2>1
  <2>3. PICK m : m = Len(q)
    OBVIOUS
  <2>4. q \in Seq(Record) /\ m \in Nat /\ p \in Seq(Record) /\ LogOrdered(q)
    <3>1. q \in Seq(Record) /\ LogOrdered(q)
      BY <1>3, <2>1, <2>2
    <3>2. p \in Seq(Record)
      BY <2>1
    <3> QED
      BY <2>3, <3>1, <3>2, LenProperties
  <2>5. PICK d \in 0 .. m : IsTail(p, q, d)
    BY <2>1, <2>2, <2>3
  <2>6. PICK n : n = Len(p)
    OBVIOUS
  <2>7. d \in Nat /\ n = m - d /\ n \in Nat /\ \A j \in 1 .. n : p[j] = q[d + j]
    BY <2>3, <2>4, <2>5, <2>6 DEF IsTail
  <2>8. \A x : x \in Sequences(p) <=> \E j \in 1 .. n : x = q[d + j].sequence
    <3>1. DOMAIN p = 1 .. n
      BY <2>4, <2>6
    <3> QED
      BY <2>7, <3>1 DEF Sequences
  <2>9. \A i \in 1 .. m : q[i].sequence \in Nat
    <3>1. \A i \in 1 .. m : q[i] \in Record
      BY <2>3, <2>4
    <3> QED
      BY <3>1, EventsAssumption DEF Record
  <2>10. \A i \in 1 .. m : q[i].sequence \notin lost /\ q[i].frame >= horizon
    BY <1>3, <2>1, <2>2, <2>3
  <2>11. ASSUME NEW i \in 1 .. m, i > d PROVE q[i].sequence \notin more
    <3>1. q[i].sequence \in Sequences(p)
      <4>1. i - d \in 1 .. n /\ d + (i - d) = i
        BY <2>4, <2>7, <2>11
      <4> QED
        BY <2>8, <4>1
    <3>2. ASSUME NEW u \in T, q[i].sequence \in Sequences(queues[u]),
                 q[i].sequence \notin Sequences(f[u])
          PROVE  FALSE
      <4>1. PICK j \in 1 .. Len(Records(u)) : q[i].sequence = Records(u)[j].sequence
        BY <1>2, <1>5, <3>2
      <4>2. t = u
        BY <1>2, <1>4, <2>1, <2>3, <4>1
      <4> QED
        BY <2>1, <3>1, <3>2, <4>2
    <3> QED
      BY <2>10, <3>2
  <2>12. ASSUME NEW i \in 1 .. m, i <= d PROVE q[i].sequence \in more
    <3>1. q[i].sequence \in Sequences(queues[t])
      BY <1>2, <1>5, <2>1, <2>3
    <3>2. q[i].sequence \notin Sequences(p)
      <4> SUFFICES ASSUME NEW j \in 1 .. n, q[i].sequence = q[d + j].sequence
                   PROVE  FALSE
        BY <2>8
      <4>1. d + j \in 1 .. m /\ i < d + j
        BY <2>4, <2>7, <2>12
      <4>2. q[i].sequence < q[d + j].sequence
        BY <2>3, <2>4, <4>1 DEF LogOrdered
      <4> QED
        BY <2>9, <4>1, <4>2
    <3> QED
      BY <2>1, <3>1, <3>2
  <2>13. \A i \in 1 .. m : i > d <=> q[i].sequence \notin more /\ q[i].frame >= horizon
    <3>1. \A i \in 1 .. m : i > d \/ i <= d
      BY <2>7
    <3>2. \A i \in 1 .. m : ~(i > d /\ i <= d)
      BY <2>7
    <3> QED
      BY <2>10, <2>11, <2>12, <3>1, <3>2
  <2>14. Shrunk(q, p, more, horizon)
    BY <2>3, <2>4, <2>5, <2>13 DEF Shrunk
  <2> QED
    BY <2>1, <2>2, <2>14
<1> QED
  BY <1>6, <1>7, <1>8

\* A ring that is not there is empty, before and after.
LEMMA NoRing ==
  ASSUME NEW more, NEW later
  PROVE  Shrunk(<<>>, <<>>, more, later)
<1>1. PICK q : q = <<>>
  OBVIOUS
<1>2. q \in Seq(Record) /\ Len(q) = 0
  BY <1>1
<1>3. IsTail(q, q, 0) /\ 0 \in 0 .. Len(q)
  BY <1>2 DEF IsTail
<1>4. \A i \in 1 .. Len(q) : FALSE
  BY <1>2
<1>5. Shrunk(q, q, more, later)
  BY <1>2, <1>3, <1>4 DEF Shrunk
<1> QED
  BY <1>1, <1>5

\* A capacity, lower or not.
LEMMA SetQueueCapacityStep ==
  ASSUME EventsInv, NEW n \in Nat, SetQueueCapacity(n)
  PROVE  EventsInv'
<1>1. LogsInv /\ RingsInv /\ QueuesInv /\ BalanceInv
  BY DEF EventsInv
<1>2. PICK c : c = AtLeastOne(n)
  OBVIOUS
<1>3. c \in Nat \ {0}
  BY <1>2 DEF AtLeastOne
<1>4. PICK f : f = [t \in DOMAIN queues |-> Newest(queues[t], c)]
  OBVIOUS
<1>5. /\ capacity' = c /\ queues' = f
      /\ counters' =
           [counters EXCEPT !.dropped = @ + RecordCount(queues) - RecordCount(f)]
      /\ lost' = lost \union UNION {Sequences(queues[t]) \ Sequences(f[t]) :
                                      t \in DOMAIN queues}
      /\ currentFrame' = currentFrame /\ nextSequence' = nextSequence
      /\ retention' = retention /\ cursor' = cursor /\ delivered' = delivered
      /\ log' = log /\ horizon' = horizon
  BY <1>2, <1>4 DEF SetQueueCapacity, readerVars
<1>6. /\ IsFiniteSet(Places(queues)) /\ RecordCount(queues) \in Nat
      /\ \A t \in DOMAIN queues : /\ queues[t] \in Seq(Record)
                                  /\ Len(queues[t]) \in Nat
  BY <1>1, QueuesFinite
<1>7. ASSUME NEW t \in DOMAIN queues
      PROVE  /\ f[t] \in Seq(Record)
             /\ \E d \in 0 .. Len(queues[t]) : IsTail(f[t], queues[t], d)
             /\ Len(f[t]) \in 1 .. c
  <2>1. PICK q : q = queues[t]
    OBVIOUS
  <2>2. q \in Seq(Record) /\ Len(q) >= 1
    BY <1>1, <1>6, <2>1 DEF QueuesInv
  <2>3. /\ Newest(q, c) \in Seq(Record)
        /\ \E d \in 0 .. Len(q) : IsTail(Newest(q, c), q, d)
        /\ Len(Newest(q, c)) <= c /\ Len(Newest(q, c)) >= 1
    BY <1>3, <2>2, NewestIs
  <2>4. f[t] = Newest(q, c)
    BY <1>4, <2>1
  <2>5. Len(f[t]) \in 1 .. c
    BY <1>3, <2>3, <2>4, LenProperties
  <2> QED
    BY <2>1, <2>3, <2>4, <2>5
<1>8. PICK more : more = lost'
  OBVIOUS
<1>9. \A x : x \in more <=>
        \/ x \in lost
        \/ \E t \in DOMAIN queues : /\ x \in Sequences(queues[t])
                                    /\ x \notin Sequences(f[t])
  BY <1>5, <1>8
<1>10. /\ lost \subseteq more /\ more \subseteq Nat
       /\ \A x \in more : x < nextSequence
       /\ \A t \in DOMAIN queues : Shrunk(queues[t], f[t], more, horizon)
  <2>1. PICK T : T = DOMAIN queues
    OBVIOUS
  <2>2. /\ T \in SUBSET DOMAIN queues
        /\ \A t \in T : /\ f[t] \in Seq(Record)
                        /\ \E d \in 0 .. Len(queues[t]) : IsTail(f[t], queues[t], d)
        /\ \A x : x \in more <=>
             \/ x \in lost
             \/ \E t \in T : x \in Sequences(queues[t]) /\ x \notin Sequences(f[t])
    BY <1>7, <1>9, <2>1
  <2>3. /\ lost \subseteq more /\ more \subseteq Nat
        /\ \A x \in more : x < nextSequence
        /\ \A t \in T : Shrunk(queues[t], f[t], more, horizon)
    BY <2>2, GoneIs
  <2> QED
    BY <2>1, <2>3
<1>11. ASSUME NEW t \in EventTypes
       PROVE  Shrunk(Records(t), Records(t)', lost', horizon')
  <2>1. CASE t \in DOMAIN queues
    <3>1. Records(t) = queues[t] /\ Records(t)' = f[t]
      BY <1>4, <1>5, <2>1 DEF Records
    <3> QED
      BY <1>5, <1>8, <1>10, <2>1, <3>1
  <2>2. CASE t \notin DOMAIN queues
    <3>1. Records(t) = <<>> /\ Records(t)' = <<>>
      BY <1>4, <1>5, <2>2 DEF Records
    <3> QED
      BY <3>1, NoRing
  <2> QED
    BY <2>1, <2>2
<1>12. LogsInv' /\ RingsInv' /\ ReadersInv'
  <2>1. /\ currentFrame' \in Nat /\ currentFrame <= currentFrame'
        /\ horizon' \in Nat /\ horizon <= horizon' /\ horizon' <= currentFrame'
    BY <1>1, <1>5, EventsAssumption DEF LogsInv, QueuesInv
  <2> QED
    BY <1>5, <1>8, <1>10, <1>11, <2>1, ShrinkStep
<1>13. DOMAIN f = DOMAIN queues
  BY <1>4
<1>14. QueuesInv'
  BY <1>1, <1>3, <1>5, <1>7, <1>13 DEF QueuesInv
<1>15. RecordCount(f) \in Nat
  <2>1. \A t \in DOMAIN f : DOMAIN f[t] \subseteq 1 .. c
    <3>1. \A t \in DOMAIN f : DOMAIN f[t] = 1 .. Len(f[t]) /\ Len(f[t]) <= c
      BY <1>7, <1>13
    <3> QED
      BY <1>3, <1>7, <1>13, <3>1
  <2>2. IsFiniteSet(DOMAIN f)
    BY <1>1, <1>13 DEF QueuesInv
  <2> QED
    BY <1>3, <2>1, <2>2, PlacesFinite
<1>16. BalanceInv'
  <2>1. /\ counters \in [dropped : Int, pruned : Int, cleared : Int]
        /\ nextSequence = RecordCount(queues)
                            + counters.dropped + counters.pruned + counters.cleared
    BY <1>1 DEF BalanceInv, CountersBalance
  <2>2. counters.dropped + RecordCount(queues) - RecordCount(f) \in Int
    BY <1>6, <1>15, <2>1
  <2>3. /\ counters'.dropped = counters.dropped + RecordCount(queues) - RecordCount(f)
        /\ counters'.pruned = counters.pruned
        /\ counters'.cleared = counters.cleared
        /\ counters' \in [dropped : Int, pruned : Int, cleared : Int]
    BY <1>5, <2>1, <2>2
  <2>4. nextSequence' = RecordCount(f)
                          + counters'.dropped + counters'.pruned + counters'.cleared
    BY <1>5, <1>6, <1>15, <2>1, <2>3
  <2>5. RecordCount(queues)' = RecordCount(f)
    BY <1>5 DEF RecordCount
  <2> QED
    BY <2>3, <2>4, <2>5 DEF BalanceInv, CountersBalance
<1> QED
  BY <1>12, <1>14, <1>16 DEF EventsInv

\* Clearing some types.
LEMMA ClearEventsStep ==
  ASSUME EventsInv, NEW types, ClearEvents(types)
  PROVE  EventsInv'
<1>1. LogsInv /\ RingsInv /\ QueuesInv /\ BalanceInv
  BY DEF EventsInv
<1>2. PICK T : T = types \cap DOMAIN queues
  OBVIOUS
<1>3. PICK gone : gone = [t \in T |-> queues[t]]
  OBVIOUS
<1>4. PICK ps : ps = [t \in DOMAIN queues \ T |-> queues[t]]
  OBVIOUS
<1>5. /\ queues' = ps /\ capacity' = capacity
      /\ counters' = [counters EXCEPT !.cleared = @ + RecordCount(gone)]
      /\ lost' = lost \union UNION {Sequences(queues[t]) : t \in T}
      /\ currentFrame' = currentFrame /\ nextSequence' = nextSequence
      /\ retention' = retention /\ cursor' = cursor /\ delivered' = delivered
      /\ log' = log /\ horizon' = horizon
  BY <1>2, <1>3, <1>4 DEF ClearEvents, readerVars
<1>6. /\ IsFiniteSet(Places(queues)) /\ RecordCount(queues) \in Nat
      /\ \A t \in DOMAIN queues : /\ queues[t] \in Seq(Record)
                                  /\ Len(queues[t]) \in Nat
  BY <1>1, QueuesFinite
<1>7. PICK f : f = [t \in T |-> <<>>]
  OBVIOUS
<1>8. ASSUME NEW t \in T
      PROVE  /\ f[t] \in Seq(Record)
             /\ \E d \in 0 .. Len(queues[t]) : IsTail(f[t], queues[t], d)
             /\ Sequences(f[t]) = {}
  <2>1. f[t] = <<>>
    BY <1>7
  <2>2. f[t] \in Seq(Record) /\ Len(f[t]) = 0 /\ DOMAIN f[t] = {}
    BY <2>1
  <2>3. PICK m : m = Len(queues[t])
    OBVIOUS
  <2>4. m \in Nat
    BY <1>2, <1>6, <2>3
  <2>5. m \in 0 .. m /\ IsTail(f[t], queues[t], m)
    <3>1. 0 = m - m /\ \A i \in 1 .. 0 : FALSE
      BY <2>4
    <3> QED
      BY <2>2, <2>3, <2>4, <3>1 DEF IsTail
  <2> QED
    BY <2>2, <2>3, <2>5 DEF Sequences
<1>9. PICK more : more = lost'
  OBVIOUS
<1>10. \A x : x \in more <=>
         \/ x \in lost
         \/ \E t \in T : x \in Sequences(queues[t]) /\ x \notin Sequences(f[t])
  BY <1>5, <1>8, <1>9
<1>11. /\ lost \subseteq more /\ more \subseteq Nat
       /\ \A x \in more : x < nextSequence
       /\ \A t \in T : Shrunk(queues[t], f[t], more, horizon)
       /\ \A t \in EventTypes \ T : Shrunk(Records(t), Records(t), more, horizon)
  <2>1. T \in SUBSET DOMAIN queues
    BY <1>2
  <2> QED
    BY <1>8, <1>10, <2>1, GoneIs
<1>12. ASSUME NEW t \in EventTypes
       PROVE  Shrunk(Records(t), Records(t)', lost', horizon')
  <2>1. CASE t \in T
    <3>1. Records(t) = queues[t] /\ Records(t)' = f[t]
      BY <1>2, <1>4, <1>5, <1>7, <2>1 DEF Records
    <3> QED
      BY <1>5, <1>9, <1>11, <2>1, <3>1
  <2>2. CASE t \notin T
    <3>1. Records(t)' = Records(t)
      BY <1>4, <1>5, <2>2 DEF Records
    <3> QED
      BY <1>5, <1>9, <1>11, <2>2, <3>1
  <2> QED
    BY <2>1, <2>2
<1>13. LogsInv' /\ RingsInv' /\ ReadersInv'
  <2>1. /\ currentFrame' \in Nat /\ currentFrame <= currentFrame'
        /\ horizon' \in Nat /\ horizon <= horizon' /\ horizon' <= currentFrame'
    BY <1>1, <1>5, EventsAssumption DEF LogsInv, QueuesInv
  <2> QED
    BY <1>5, <1>9, <1>11, <1>12, <2>1, ShrinkStep
<1>14. QueuesInv'
  <2>1. IsFiniteSet(DOMAIN ps) /\ DOMAIN ps \subseteq DOMAIN queues
    <3>1. DOMAIN ps \in SUBSET DOMAIN queues
      BY <1>4
    <3> QED
      BY <1>1, <3>1, FS_Subset DEF QueuesInv
  <2>2. \A t \in DOMAIN ps : ps[t] = queues[t]
    BY <1>4
  <2> QED
    BY <1>1, <1>5, <2>1, <2>2 DEF QueuesInv
<1>15. /\ RecordCount(queues) = RecordCount(ps) + RecordCount(gone)
       /\ RecordCount(ps) \in Nat /\ RecordCount(gone) \in Nat
  <2>1. /\ DOMAIN queues = DOMAIN ps \union DOMAIN gone
        /\ DOMAIN ps \cap DOMAIN gone = {}
        /\ \A u \in DOMAIN ps : ps[u] = queues[u]
        /\ \A u \in DOMAIN gone : gone[u] = queues[u]
    BY <1>2, <1>3, <1>4
  <2> QED
    BY <1>6, <2>1, CountSplit
<1>16. BalanceInv'
  <2>1. /\ counters \in [dropped : Int, pruned : Int, cleared : Int]
        /\ nextSequence = RecordCount(queues)
                            + counters.dropped + counters.pruned + counters.cleared
    BY <1>1 DEF BalanceInv, CountersBalance
  <2>2. counters.cleared + RecordCount(gone) \in Int
    BY <1>15, <2>1
  <2>3. /\ counters'.dropped = counters.dropped
        /\ counters'.pruned = counters.pruned
        /\ counters'.cleared = counters.cleared + RecordCount(gone)
        /\ counters' \in [dropped : Int, pruned : Int, cleared : Int]
    BY <1>5, <2>1, <2>2
  <2>4. nextSequence' = RecordCount(ps)
                          + counters'.dropped + counters'.pruned + counters'.cleared
    BY <1>5, <1>15, <2>1, <2>3
  <2>5. RecordCount(queues)' = RecordCount(ps)
    BY <1>5 DEF RecordCount
  <2> QED
    BY <2>3, <2>4, <2>5 DEF BalanceInv, CountersBalance
<1> QED
  BY <1>13, <1>14, <1>16 DEF EventsInv

\* What a new frame does to a ring: what is left are the records of frame min
\* and later.
LEMMA SetFrameRings ==
  ASSUME EventsInv, NEW n \in 0 .. MaxFrame, SetFrame(n),
         NEW min, min = (IF n > retention THEN n - retention ELSE 0)
  PROVE  /\ min \in Nat /\ min <= n /\ n > currentFrame
         /\ \A t \in EventTypes :
              /\ Records(t)' = Recent(Records(t), min)
              /\ Records(t) \in Seq(Record) /\ Records(t)' \in Seq(Record)
              /\ \E d \in 0 .. Len(Records(t)) :
                   /\ IsTail(Records(t)', Records(t), d)
                   /\ \A i \in 1 .. Len(Records(t)) :
                        i > d <=> Records(t)[i].frame >= min
<1>1. LogsInv /\ RingsInv /\ QueuesInv
  BY DEF EventsInv
<1>2. min \in Nat /\ min <= n /\ n > currentFrame
  <2>1. n \in Nat /\ retention \in Nat \ {0}
    BY <1>1, EventsAssumption DEF QueuesInv
  <2> QED
    BY <2>1 DEF SetFrame
<1>3. ASSUME NEW t \in EventTypes PROVE Records(t)' = Recent(Records(t), min)
  <2>1. PICK kept : kept = [u \in DOMAIN queues |-> Recent(queues[u], min)]
    OBVIOUS
  <2>2. queues' = [u \in {v \in DOMAIN queues : kept[v] # <<>>} |-> kept[u]]
    BY <2>1 DEF SetFrame
  <2>3. CASE t \in DOMAIN queues
    <3>1. Records(t) = queues[t] /\ kept[t] = Recent(queues[t], min)
      BY <2>1, <2>3 DEF Records
    <3>2. Records(t)' = kept[t]
      BY <2>2, <2>3 DEF Records
    <3> QED
      BY <3>1, <3>2
  <2>4. CASE t \notin DOMAIN queues
    <3>1. Records(t) = <<>> /\ Records(t)' = <<>>
      BY <2>2, <2>4 DEF Records
    <3>2. PICK q : q = <<>>
      OBVIOUS
    <3>3. q \in Seq(Record) /\ LogOrdered(q) /\ Len(q) = 0
      BY <3>2 DEF LogOrdered
    <3>4. /\ Recent(q, min) \in Seq(Record)
          /\ \E d \in 0 .. Len(q) : IsTail(Recent(q, min), q, d)
      BY <1>2, <3>3, RecentIs
    <3>5. Len(Recent(q, min)) = 0
      BY <3>3, <3>4 DEF IsTail
    <3>6. Recent(q, min) = <<>>
      BY <3>4, <3>5
    <3> QED
      BY <3>1, <3>2, <3>6
  <2> QED
    BY <2>3, <2>4
<1>4. ASSUME NEW t \in EventTypes
      PROVE  /\ Records(t) \in Seq(Record) /\ Records(t)' \in Seq(Record)
             /\ \E d \in 0 .. Len(Records(t)) :
                  /\ IsTail(Records(t)', Records(t), d)
                  /\ \A i \in 1 .. Len(Records(t)) :
                       i > d <=> Records(t)[i].frame >= min
  <2>1. PICK q, l : q = Records(t) /\ l = log[t]
    OBVIOUS
  <2>2. RingOK(q, l, lost, horizon) /\ LogOrdered(l)
    BY <1>1, <2>1 DEF RingsInv, LogsInv
  <2>3. q \in Seq(Record) /\ LogOrdered(q)
    <3>1. q \in Seq(Record)
      BY <2>2 DEF RingOK
    <3>2. LogOrdered(q)
      BY <2>2, RingOrdered
    <3> QED
      BY <3>1, <3>2
  <2>4. /\ Recent(q, min) \in Seq(Record)
        /\ \E d \in 0 .. Len(q) :
             /\ IsTail(Recent(q, min), q, d)
             /\ \A i \in 1 .. Len(q) : i > d <=> q[i].frame >= min
    BY <1>2, <2>3, RecentIs
  <2>5. Records(t)' = Recent(q, min)
    BY <1>3, <2>1
  <2> QED
    BY <2>1, <2>3, <2>4, <2>5
<1> QED
  BY <1>2, <1>3, <1>4

\* A new frame.
LEMMA SetFrameStep ==
  ASSUME EventsInv, NEW n \in 0 .. MaxFrame, SetFrame(n)
  PROVE  EventsInv'
<1>1. LogsInv /\ RingsInv /\ QueuesInv /\ BalanceInv
  BY DEF EventsInv
<1>2. PICK min : min = (IF n > retention THEN n - retention ELSE 0)
  OBVIOUS
<1>3. /\ min \in Nat /\ min <= n /\ n > currentFrame
      /\ \A t \in EventTypes :
           /\ Records(t)' = Recent(Records(t), min)
           /\ Records(t) \in Seq(Record) /\ Records(t)' \in Seq(Record)
           /\ \E d \in 0 .. Len(Records(t)) :
                /\ IsTail(Records(t)', Records(t), d)
                /\ \A i \in 1 .. Len(Records(t)) :
                     i > d <=> Records(t)[i].frame >= min
  BY <1>2, SetFrameRings
<1>4. PICK kept : kept = [t \in DOMAIN queues |-> Recent(queues[t], min)]
  OBVIOUS
<1>5. /\ currentFrame' = n /\ nextSequence' = nextSequence
      /\ queues' = [u \in {v \in DOMAIN queues : kept[v] # <<>>} |-> kept[u]]
      /\ counters' =
           [counters EXCEPT !.pruned = @ + RecordCount(queues) - RecordCount(kept)]
      /\ horizon' = (IF min > horizon THEN min ELSE horizon)
      /\ lost' = lost /\ log' = log /\ retention' = retention /\ capacity' = capacity
      /\ cursor' = cursor /\ delivered' = delivered
  BY <1>2, <1>4 DEF SetFrame, readerVars
<1>6. /\ n \in Nat /\ currentFrame \in Nat /\ horizon \in Nat
      /\ horizon <= currentFrame /\ horizon' \in Nat
      /\ horizon <= horizon' /\ horizon' <= currentFrame'
      /\ currentFrame' \in Nat /\ currentFrame <= currentFrame'
      /\ \A x \in Nat : x >= horizon => (x >= horizon' <=> x >= min)
  <2>1. n \in Nat /\ currentFrame \in Nat /\ horizon \in Nat /\ horizon <= currentFrame
    BY <1>1, EventsAssumption DEF LogsInv, QueuesInv
  <2>2. CASE min > horizon
    BY <1>3, <1>5, <2>1, <2>2
  <2>3. CASE ~(min > horizon)
    BY <1>3, <1>5, <2>1, <2>3
  <2> QED
    BY <2>2, <2>3
<1>7. ASSUME NEW t \in EventTypes
      PROVE  Shrunk(Records(t), Records(t)', lost', horizon')
  <2>1. PICK q, p, l, later :
          q = Records(t) /\ p = Records(t)' /\ l = log[t] /\ later = horizon'
    OBVIOUS
  <2>2. RingOK(q, l, lost, horizon) /\ LogOrdered(l)
    BY <1>1, <2>1 DEF RingsInv, LogsInv
  <2>3. \A i \in 1 .. Len(q) : q[i] \in Record /\ q[i].sequence \notin lost
                               /\ q[i].frame >= horizon
    BY <2>2, RingOrdered
  <2>4. PICK d \in 0 .. Len(q) :
          /\ IsTail(p, q, d)
          /\ \A i \in 1 .. Len(q) : i > d <=> q[i].frame >= min
    BY <1>3, <2>1
  <2>5. \A i \in 1 .. Len(q) : q[i].frame \in Nat
    BY <2>3, EventsAssumption DEF Record
  <2>6. \A i \in 1 .. Len(q) :
          i > d <=> q[i].sequence \notin lost /\ q[i].frame >= later
    BY <1>6, <2>1, <2>3, <2>4, <2>5
  <2>7. p \in Seq(Record)
    BY <1>3, <2>1
  <2>8. Shrunk(q, p, lost, later)
    BY <2>4, <2>6, <2>7 DEF Shrunk
  <2> QED
    BY <1>5, <2>1, <2>8
<1>8. LogsInv' /\ RingsInv' /\ ReadersInv'
  <2>1. lost \subseteq lost' /\ lost' \subseteq Nat /\ \A x \in lost' : x < nextSequence
    BY <1>1, <1>5 DEF LogsInv
  <2> QED
    BY <1>5, <1>6, <1>7, <2>1, ShrinkStep
<1>9. /\ IsFiniteSet(Places(queues)) /\ RecordCount(queues) \in Nat
      /\ \A t \in DOMAIN queues : /\ queues[t] \in Seq(Record)
                                  /\ Len(queues[t]) \in Nat
  BY <1>1, QueuesFinite
<1>10. ASSUME NEW t \in DOMAIN queues
       PROVE  /\ kept[t] \in Seq(Record) /\ Len(kept[t]) <= Len(queues[t])
              /\ Len(kept[t]) <= capacity
  <2>1. t \in EventTypes /\ Records(t) = queues[t] /\ Len(queues[t]) \in 1 .. capacity
    BY <1>1 DEF QueuesInv, Records
  <2>2. Records(t)' = kept[t]
    BY <1>3, <1>4, <2>1
  <2>3. PICK q, p : q = queues[t] /\ p = kept[t]
    OBVIOUS
  <2>4. PICK d \in 0 .. Len(q) : IsTail(p, q, d)
    BY <1>3, <2>1, <2>2, <2>3
  <2>5. PICK m : m = Len(q)
    OBVIOUS
  <2>6. m \in 1 .. capacity /\ capacity \in Nat /\ d \in 0 .. m /\ Len(p) = m - d
    BY <1>1, <2>1, <2>3, <2>4, <2>5 DEF IsTail, QueuesInv
  <2>7. m - d <= m /\ m - d <= capacity
    BY <2>6
  <2>8. p \in Seq(Record)
    BY <1>3, <2>1, <2>2, <2>3
  <2> QED
    BY <2>3, <2>5, <2>6, <2>7, <2>8
<1>11. DOMAIN kept = DOMAIN queues
  BY <1>4
<1>12. QueuesInv'
  <2>1. DOMAIN queues' = {v \in DOMAIN queues : kept[v] # <<>>}
    BY <1>5
  <2>2. IsFiniteSet(DOMAIN queues')
    <3>1. DOMAIN queues' \in SUBSET DOMAIN queues
      BY <2>1
    <3> QED
      BY <1>1, <3>1, FS_Subset DEF QueuesInv
  <2>3. ASSUME NEW t \in DOMAIN queues' PROVE Len(queues'[t]) \in 1 .. capacity
    <3>1. queues'[t] = kept[t] /\ kept[t] # <<>> /\ t \in DOMAIN queues
      BY <1>5, <2>1
    <3>2. PICK p : p = kept[t]
      OBVIOUS
    <3>3. p \in Seq(Record) /\ p # <<>> /\ Len(p) <= capacity
      BY <1>10, <3>1, <3>2
    <3>4. Len(p) \in Nat /\ Len(p) # 0
      BY <3>3, EmptySeq, LenProperties
    <3>5. Len(p) \in 1 .. capacity
      BY <1>1, <3>3, <3>4 DEF QueuesInv
    <3> QED
      BY <3>1, <3>2, <3>5
  <2> QED
    BY <1>1, <1>5, <2>1, <2>2, <2>3 DEF QueuesInv
<1>13. \A t \in DOMAIN kept : DOMAIN kept[t] = 1 .. Len(kept[t])
  BY <1>10, <1>11
<1>14. RecordCount(kept) \in Nat
  <2>1. \A t \in DOMAIN kept : DOMAIN kept[t] \subseteq 1 .. capacity
    <3>1. capacity \in Nat /\ \A t \in DOMAIN kept : Len(kept[t]) \in Nat
      BY <1>1, <1>10, <1>11, LenProperties DEF QueuesInv
    <3> QED
      BY <1>10, <1>11, <1>13, <3>1
  <2>2. IsFiniteSet(DOMAIN kept) /\ capacity \in Nat
    BY <1>1, <1>11 DEF QueuesInv
  <2> QED
    BY <2>1, <2>2, PlacesFinite
<1>15. RecordCount(queues') = RecordCount(kept)
  <2>1. \A t \in DOMAIN queues' : /\ t \in DOMAIN kept
                                  /\ DOMAIN queues'[t] = DOMAIN kept[t]
    BY <1>5, <1>11
  <2>2. ASSUME NEW t \in DOMAIN kept, NEW i \in DOMAIN kept[t]
        PROVE  t \in DOMAIN queues' /\ i \in DOMAIN queues'[t]
    <3>1. kept[t] # <<>>
      <4>1. DOMAIN <<>> = {}
        OBVIOUS
      <4> QED
        BY <2>2, <4>1
    <3> QED
      BY <1>5, <1>11, <2>2, <3>1
  <2> QED
    BY <2>1, <2>2, CountEqual
<1>16. BalanceInv'
  <2>1. /\ counters \in [dropped : Int, pruned : Int, cleared : Int]
        /\ nextSequence = RecordCount(queues)
                            + counters.dropped + counters.pruned + counters.cleared
    BY <1>1 DEF BalanceInv, CountersBalance
  <2>2. counters.pruned + RecordCount(queues) - RecordCount(kept) \in Int
    BY <1>9, <1>14, <2>1
  <2>3. /\ counters'.dropped = counters.dropped
        /\ counters'.pruned = counters.pruned + RecordCount(queues) - RecordCount(kept)
        /\ counters'.cleared = counters.cleared
        /\ counters' \in [dropped : Int, pruned : Int, cleared : Int]
    BY <1>5, <2>1, <2>2
  <2>4. nextSequence' = RecordCount(kept)
                          + counters'.dropped + counters'.pruned + counters'.cleared
    BY <1>5, <1>9, <1>14, <2>1, <2>3
  <2>5. RecordCount(queues)' = RecordCount(kept)
    BY <1>15 DEF RecordCount
  <2> QED
    BY <2>3, <2>4, <2>5 DEF BalanceInv, CountersBalance
<1> QED
  BY <1>8, <1>12, <1>16 DEF EventsInv

-----------------------------------------------------------------------------
(* Reading.                                                                *)

\* A read gives exactly the records from the cursor on, and moves the cursor
\* past the last of them.
LEMMA ReaderReads ==
  ASSUME NEW d, NEW q, NEW c, ReaderOK(d, q, c), q \in Seq(Record), LogOrdered(q),
         NEW new, new = Since(q, c), new # <<>>,
         NEW next, next = Last(new).sequence + 1
  PROVE  /\ ReaderOK(d \o new, q, next)
         /\ \E i \in 1 .. Len(q) : next = q[i].sequence + 1
<1>1. PICK I : I = {i \in DOMAIN q : q[i].sequence >= c}
  OBVIOUS
<1>2. PICK m : m = Len(q)
  OBVIOUS
<1>3. m \in Nat /\ DOMAIN q = 1 .. m /\ I \in SUBSET (1 .. m)
  BY <1>1, <1>2
<1>4. new = Select(q, I)
  BY <1>1 DEF Since
<1>5. /\ new \in Seq(Record)
      /\ \E places :
           /\ Increasing(places, I)
           /\ Len(places) = Len(new)
           /\ \A k \in 1 .. Len(new) : places[k] \in I /\ new[k] = q[places[k]]
  BY <1>2, <1>3, <1>4, SelectIs
<1>6. PICK places :
        /\ Increasing(places, I)
        /\ Len(places) = Len(new)
        /\ \A k \in 1 .. Len(new) : places[k] \in I /\ new[k] = q[places[k]]
  BY <1>5
<1>7. PICK n : n = Len(new)
  OBVIOUS
<1>8. n \in Nat /\ n >= 1
  <2>1. Len(new) \in Nat /\ Len(new) # 0
    BY <1>5, EmptySeq, LenProperties
  <2> QED
    BY <1>7, <2>1
<1>9. /\ \A i \in I : \E k \in 1 .. n : places[k] = i
      /\ \A j, k \in 1 .. n : j < k => places[j] < places[k]
  BY <1>6, <1>7 DEF Increasing
<1>10. \A i \in 1 .. m : q[i] \in Record /\ q[i].sequence \in Nat
  <2>1. \A i \in 1 .. m : q[i] \in Record
    BY <1>2
  <2> QED
    BY <2>1, EventsAssumption DEF Record
<1>11. \A k \in 1 .. n : /\ places[k] \in 1 .. m /\ new[k] = q[places[k]]
                         /\ new[k].sequence \in Nat /\ new[k].sequence >= c
  BY <1>1, <1>3, <1>6, <1>7, <1>10
<1>12. \A j, k \in 1 .. n : j < k => new[j].sequence < new[k].sequence
  BY <1>2, <1>9, <1>11 DEF LogOrdered
<1>13. Last(new) = new[n] /\ n \in 1 .. n
  BY <1>7, <1>8 DEF Last
<1>14. /\ next \in Nat /\ next = new[n].sequence + 1 /\ c < next
       /\ \A k \in 1 .. n : new[k].sequence < next
  <2>1. next \in Nat /\ next = new[n].sequence + 1
    BY <1>11, <1>13
  <2>2. c \in Nat
    BY DEF ReaderOK
  <2>3. c < next
    BY <1>11, <1>13, <2>1, <2>2
  <2>4. ASSUME NEW k \in 1 .. n PROVE new[k].sequence < next
    <3>1. k = n \/ k < n
      BY <1>8
    <3>2. new[k].sequence <= new[n].sequence
      BY <1>11, <1>12, <1>13, <3>1
    <3> QED
      BY <1>11, <1>13, <2>1, <3>2
  <2> QED
    BY <2>1, <2>3, <2>4
<1>15. PICK e : e = d \o new
  OBVIOUS
<1>16. PICK h : h = Len(d)
  OBVIOUS
<1>17. /\ d \in Seq(Record) /\ h \in Nat /\ c \in Nat
       /\ \A i \in 1 .. h : d[i].sequence < c
       /\ \A i, j \in 1 .. h : i < j => d[i].sequence < d[j].sequence
       /\ \A i \in 1 .. m :
            q[i].sequence < c <=> \E k \in 1 .. h : d[k] = q[i]
  BY <1>2, <1>16, LenProperties DEF ReaderOK
<1>18. \A i \in 1 .. h : d[i].sequence \in Nat
  <2>1. \A i \in 1 .. h : d[i] \in Record
    BY <1>16, <1>17
  <2> QED
    BY <2>1, EventsAssumption DEF Record
<1>19. /\ e \in Seq(Record) /\ Len(e) = h + n
       /\ \A i \in 1 .. h : e[i] = d[i]
       /\ \A k \in 1 .. n : e[h + k] = new[k]
  <2>1. /\ e \in Seq(Record) /\ Len(e) = h + n
        /\ \A i \in 1 .. (h + n) : e[i] = IF i <= h THEN d[i] ELSE new[i - h]
    BY <1>5, <1>7, <1>15, <1>16, <1>17, ConcatProperties
  <2>2. \A i \in 1 .. h : i \in 1 .. (h + n) /\ i <= h
    BY <1>8, <1>17
  <2>3. \A k \in 1 .. n : h + k \in 1 .. (h + n) /\ ~(h + k <= h) /\ (h + k) - h = k
    BY <1>8, <1>17
  <2> QED
    BY <2>1, <2>2, <2>3
<1>20. \A i \in 1 .. (h + n) : i \in 1 .. h \/ \E k \in 1 .. n : i = h + k
  <2> SUFFICES ASSUME NEW i \in 1 .. (h + n), i \notin 1 .. h
               PROVE  \E k \in 1 .. n : i = h + k
    OBVIOUS
  <2>1. i - h \in 1 .. n /\ i = h + (i - h)
    BY <1>8, <1>17
  <2> QED
    BY <2>1
<1>21. \A i \in 1 .. (h + n) : e[i].sequence < next
  <2>1. \A i \in 1 .. h : d[i].sequence < next
    BY <1>14, <1>17, <1>18
  <2> QED
    BY <1>14, <1>19, <1>20, <2>1
<1>22. ASSUME NEW i \in 1 .. (h + n), NEW j \in 1 .. (h + n), i < j
       PROVE  e[i].sequence < e[j].sequence
  <2>1. CASE i \in 1 .. h /\ j \in 1 .. h
    BY <1>17, <1>19, <1>22, <2>1
  <2>2. ASSUME i \in 1 .. h, NEW k \in 1 .. n, j = h + k
        PROVE  e[i].sequence < e[j].sequence
    <3>1. d[i].sequence < c /\ new[k].sequence >= c
      BY <1>11, <1>17, <2>2
    <3>2. d[i].sequence < new[k].sequence
      BY <1>11, <1>17, <1>18, <2>2, <3>1
    <3> QED
      BY <1>19, <2>2, <3>2
  <2>3. ASSUME NEW a \in 1 .. n, i = h + a, NEW k \in 1 .. n, j = h + k
        PROVE  e[i].sequence < e[j].sequence
    <3>1. a < k
      BY <1>17, <1>22, <2>3
    <3> QED
      BY <1>12, <1>19, <2>3, <3>1
  <2>4. ASSUME NEW a \in 1 .. n, i = h + a, j \in 1 .. h PROVE FALSE
    BY <1>17, <1>22, <2>4
  <2> QED
    BY <1>20, <2>1, <2>2, <2>3, <2>4
<1>23. ASSUME NEW i \in 1 .. m
       PROVE  q[i].sequence < next <=> \E k \in 1 .. (h + n) : e[k] = q[i]
  <2>1. ASSUME NEW k \in 1 .. (h + n), e[k] = q[i] PROVE q[i].sequence < next
    BY <1>21, <2>1
  <2>2. ASSUME q[i].sequence < next PROVE \E k \in 1 .. (h + n) : e[k] = q[i]
    <3>1. CASE q[i].sequence < c
      <4>1. PICK k \in 1 .. h : d[k] = q[i]
        BY <1>17, <3>1
      <4>2. k \in 1 .. (h + n)
        BY <1>8, <1>17
      <4> QED
        BY <1>19, <4>1, <4>2
    <3>2. CASE ~(q[i].sequence < c)
      <4>1. i \in I
        BY <1>1, <1>3, <1>10, <1>17, <3>2
      <4>2. PICK k \in 1 .. n : places[k] = i
        BY <1>9, <4>1
      <4>3. e[h + k] = q[i] /\ h + k \in 1 .. (h + n)
        BY <1>8, <1>11, <1>17, <1>19, <4>2
      <4> QED
        BY <4>3
    <3> QED
      BY <3>1, <3>2
  <2> QED
    BY <2>1, <2>2
<1>24. ReaderOK(e, q, next)
  BY <1>2, <1>14, <1>19, <1>21, <1>22, <1>23 DEF ReaderOK
<1>25. next = q[places[n]].sequence + 1 /\ places[n] \in 1 .. m
  BY <1>11, <1>13, <1>14
<1> QED
  BY <1>2, <1>15, <1>24, <1>25

\* A read changes what one reader has, and nothing else.
LEMMA ReadSinceStep ==
  ASSUME EventsInv, NEW t \in EventTypes, ReadSince(t)
  PROVE  EventsInv'
<1>1. LogsInv /\ RingsInv /\ QueuesInv /\ ReadersInv /\ BalanceInv
  BY DEF EventsInv
<1>2. PICK q, d, c, l : q = Records(t) /\ d = delivered[t] /\ c = cursor[t] /\ l = log[t]
  OBVIOUS
<1>3. PICK new : new = Since(q, c)
  OBVIOUS
<1>4. PICK next : next = Last(new).sequence + 1
  OBVIOUS
<1>5. /\ new # <<>>
      /\ cursor' = [cursor EXCEPT ![t] = next]
      /\ delivered' = [delivered EXCEPT ![t] = d \o new]
      /\ currentFrame' = currentFrame /\ queues' = queues
      /\ nextSequence' = nextSequence /\ retention' = retention
      /\ capacity' = capacity /\ counters' = counters
      /\ log' = log /\ lost' = lost /\ horizon' = horizon
  BY <1>2, <1>3, <1>4 DEF ReadSince, ringVars, ghostVars
<1>6. LogsInv' /\ QueuesInv' /\ BalanceInv'
  BY <1>1, <1>5 DEF LogsInv, QueuesInv, BalanceInv, CountersBalance, RecordCount
<1>7. \A u \in EventTypes : Records(u)' = Records(u)
  BY <1>5 DEF Records
<1>8. RingsInv'
  BY <1>1, <1>5, <1>7 DEF RingsInv
<1>9. RingOK(q, l, lost, horizon) /\ LogOrdered(l) /\ ReaderOK(d, q, c)
  BY <1>1, <1>2 DEF LogsInv, RingsInv, ReadersInv
<1>10. q \in Seq(Record)
  BY <1>9 DEF RingOK
<1>11. /\ LogOrdered(q)
       /\ \A i \in 1 .. Len(q) : \E j \in 1 .. Len(l) : l[j] = q[i]
  BY <1>9, RingOrdered
<1>12. /\ ReaderOK(d \o new, q, next)
       /\ \E i \in 1 .. Len(q) : next = q[i].sequence + 1
  BY <1>3, <1>4, <1>5, <1>9, <1>10, <1>11, ReaderReads
<1>13. next <= nextSequence
  <2>1. PICK i \in 1 .. Len(q) : next = q[i].sequence + 1
    BY <1>12
  <2>2. PICK j \in 1 .. Len(l) : l[j] = q[i]
    BY <1>11
  <2>3. q[i].sequence < nextSequence
    BY <1>1, <1>2, <2>2 DEF LogsInv
  <2>4. q[i] \in Record
    BY <1>10
  <2>5. q[i].sequence \in Nat /\ nextSequence \in Nat
    BY <1>1, <2>4, EventsAssumption DEF Record, QueuesInv
  <2> QED
    BY <2>1, <2>3, <2>5
<1>14. next \in Nat /\ d \o new \in Seq(Record)
  BY <1>12 DEF ReaderOK
<1>15. ReadersInv'
  <2>1. /\ cursor' \in [EventTypes -> Nat]
        /\ delivered' \in [EventTypes -> Seq(Record)]
    BY <1>1, <1>5, <1>14 DEF ReadersInv
  <2>2. ASSUME NEW u \in EventTypes
        PROVE  /\ cursor'[u] <= nextSequence
               /\ ReaderOK(delivered'[u], Records(u), cursor'[u])
    <3>1. CASE u = t
      <4>1. cursor'[u] = next /\ delivered'[u] = d \o new
        BY <1>1, <1>5, <3>1 DEF ReadersInv
      <4> QED
        BY <1>2, <1>12, <1>13, <3>1, <4>1
    <3>2. CASE u # t
      <4>1. cursor'[u] = cursor[u] /\ delivered'[u] = delivered[u]
        BY <1>1, <1>5, <3>2 DEF ReadersInv
      <4> QED
        BY <1>1, <4>1 DEF ReadersInv
    <3> QED
      BY <3>1, <3>2
  <2> QED
    BY <1>5, <1>7, <2>1, <2>2 DEF ReadersInv
<1> QED
  BY <1>6, <1>8, <1>15 DEF EventsInv

-----------------------------------------------------------------------------
(* The theorems.                                                           *)

\* A store without records.
LEMMA EventsInitially == EventsInit => EventsInv
<1> SUFFICES ASSUME EventsInit PROVE EventsInv
  OBVIOUS
<1>1. /\ currentFrame = 0 /\ nextSequence = 0 /\ retention = 1
      /\ capacity = MaxCapacity /\ lost = {} /\ horizon = 0
      /\ counters = [dropped |-> 0, pruned |-> 0, cleared |-> 0]
      /\ cursor = [t \in EventTypes |-> 0]
      /\ delivered = [t \in EventTypes |-> <<>>]
      /\ log = [t \in EventTypes |-> <<>>]
      /\ DOMAIN queues = {}
  BY DEF EventsInit
<1>2. PICK e : e = <<>>
  OBVIOUS
<1>3. e \in Seq(Record) /\ Len(e) = 0
  BY <1>2
<1>4. \A t \in EventTypes : Records(t) = e /\ log[t] = e /\ delivered[t] = e
                            /\ cursor[t] = 0
  BY <1>1, <1>2 DEF Records
<1>5. \A i \in 1 .. Len(e) : FALSE
  BY <1>3
<1>6. LogsInv
  BY <1>1, <1>2, <1>3, <1>4, <1>5 DEF LogsInv, LogOrdered
<1>7. RingsInv
  <2>1. IsTail(e, e, 0) /\ 0 \in 0 .. Len(e)
    BY <1>3 DEF IsTail
  <2>2. RingOK(e, e, lost, horizon)
    BY <1>3, <1>5, <2>1 DEF RingOK
  <2> QED
    BY <1>4, <2>2 DEF RingsInv
<1>8. QueuesInv
  BY <1>1, EventsAssumption, FS_EmptySet DEF QueuesInv
<1>9. ReadersInv
  <2>1. ReaderOK(e, e, 0)
    BY <1>3, <1>5 DEF ReaderOK
  <2>2. cursor \in [EventTypes -> Nat] /\ delivered \in [EventTypes -> Seq(Record)]
    BY <1>1, <1>2, <1>3
  <2> QED
    BY <1>1, <1>4, <2>1, <2>2 DEF ReadersInv
<1>10. RecordCount(queues) = 0
  <2>1. Places(queues) = {}
    BY <1>1, PlacesAre
  <2> QED
    BY <2>1, FS_EmptySet DEF RecordCount, Places
<1>11. BalanceInv
  BY <1>1, <1>10 DEF BalanceInv, CountersBalance
<1> QED
  BY <1>6, <1>7, <1>8, <1>9, <1>11 DEF EventsInv

\* Every step keeps the invariant.
LEMMA EventsStep == EventsInv /\ [EventsNext]_eventVars => EventsInv'
<1> SUFFICES ASSUME EventsInv, [EventsNext]_eventVars PROVE EventsInv'
  OBVIOUS
<1>1. ASSUME NEW t \in EventTypes, Emit(t) PROVE EventsInv'
  BY <1>1, EmitLogs, EmitKeepsRings, EmitKeepsQueues, EmitKeepsReaders DEF EventsInv
<1>2. ASSUME NEW t \in EventTypes, ReadSince(t) PROVE EventsInv'
  BY <1>2, ReadSinceStep
<1>3. ASSUME NEW types, ClearEvents(types) PROVE EventsInv'
  BY <1>3, ClearEventsStep
<1>4. ASSUME NEW n \in 0 .. MaxCapacity, SetQueueCapacity(n) PROVE EventsInv'
  <2>1. n \in Nat
    BY EventsAssumption
  <2> QED
    BY <1>4, <2>1, SetQueueCapacityStep
<1>5. ASSUME NEW n \in 0 .. MaxRetention, SetRetentionFrames(n) PROVE EventsInv'
  <2>1. LogsInv /\ RingsInv /\ QueuesInv /\ ReadersInv /\ BalanceInv
    BY DEF EventsInv
  <2>2. retention' \in Nat \ {0}
    BY <1>5, EventsAssumption DEF SetRetentionFrames, AtLeastOne
  <2>3. /\ currentFrame' = currentFrame /\ queues' = queues
        /\ nextSequence' = nextSequence /\ capacity' = capacity
        /\ counters' = counters /\ cursor' = cursor /\ delivered' = delivered
        /\ log' = log /\ lost' = lost /\ horizon' = horizon
    BY <1>5 DEF SetRetentionFrames, readerVars, ghostVars
  <2>4. LogsInv' /\ QueuesInv' /\ BalanceInv'
    BY <2>1, <2>2, <2>3 DEF LogsInv, QueuesInv, BalanceInv, CountersBalance, RecordCount
  <2>5. \A t \in EventTypes : Records(t)' = Records(t)
    BY <2>3 DEF Records
  <2>6. RingsInv' /\ ReadersInv'
    BY <2>1, <2>3, <2>5 DEF RingsInv, ReadersInv
  <2> QED
    BY <2>4, <2>6 DEF EventsInv
<1>6. ASSUME NEW n \in 0 .. MaxFrame, SetFrame(n) PROVE EventsInv'
  BY <1>6, SetFrameStep
<1>7. CASE UNCHANGED eventVars
  <2>1. LogsInv /\ RingsInv /\ QueuesInv /\ ReadersInv /\ BalanceInv
    BY DEF EventsInv
  <2>2. /\ currentFrame' = currentFrame /\ queues' = queues
        /\ nextSequence' = nextSequence /\ capacity' = capacity
        /\ retention' = retention
        /\ counters' = counters /\ cursor' = cursor /\ delivered' = delivered
        /\ log' = log /\ lost' = lost /\ horizon' = horizon
    BY <1>7 DEF eventVars, ringVars, readerVars, ghostVars
  <2>3. LogsInv' /\ QueuesInv' /\ BalanceInv'
    BY <2>1, <2>2 DEF LogsInv, QueuesInv, BalanceInv, CountersBalance, RecordCount
  <2>4. \A t \in EventTypes : Records(t)' = Records(t)
    BY <2>2 DEF Records
  <2>5. RingsInv' /\ ReadersInv'
    BY <2>1, <2>2, <2>4 DEF RingsInv, ReadersInv
  <2> QED
    BY <2>3, <2>5 DEF EventsInv
<1> QED
  BY <1>1, <1>2, <1>3, <1>4, <1>5, <1>6, <1>7 DEF EventsNext

\* The invariant of the event store.
THEOREM EventsInvariant == EventsSpec => []EventsInv
BY EventsInitially, EventsStep, PTL DEF EventsSpec

\* A ring is never empty and never longer than the capacity in force.
THEOREM EventTypesCorrect == EventsSpec => []EventsTypeOK
<1>1. EventsInv => EventsTypeOK
  BY EventsInvGives
<1> QED
  BY <1>1, EventsInvariant, PTL

\* A ring is the end of its log, without a gap: exactly what was neither
\* evicted, cleared nor dropped with its frame.
THEOREM RingsCorrect == EventsSpec => []RingsExact
<1>1. EventsInv => RingsExact
  BY EventsInvGives
<1> QED
  BY <1>1, EventsInvariant, PTL

\* The diagnostics account for every record that was ever emitted.
THEOREM CountersCorrect == EventsSpec => []CountersBalance
<1>1. EventsInv => CountersBalance
  BY EventsInvGives
<1> QED
  BY <1>1, EventsInvariant, PTL

\* A reader gets every record at most once and in order, and none that is still
\* in the ring is passed over.
THEOREM ReadersCorrect == EventsSpec => []ReadersExactlyOnce
<1>1. EventsInv => ReadersExactlyOnce
  BY EventsInvGives
<1> QED
  BY <1>1, EventsInvariant, PTL

\* The step to the next frame takes no record of the frame that ends.
LEMMA NextPassStep ==
  ASSUME EventsInv, [EventsNext]_eventVars, currentFrame' = currentFrame + 1,
         NEW t \in EventTypes, NEW i \in DOMAIN Records(t),
         Records(t)[i].frame = currentFrame
  PROVE  \E k \in DOMAIN Records(t)' : Records(t)'[k] = Records(t)[i]
<1>1. currentFrame \in Nat /\ retention \in Nat \ {0}
  BY EventsAssumption DEF EventsInv, QueuesInv
<1>2. currentFrame' # currentFrame
  BY <1>1
<1>3. PICK n \in 0 .. MaxFrame : SetFrame(n)
  BY <1>2 DEF EventsNext, eventVars, Emit, ReadSince, ClearEvents, SetQueueCapacity,
              SetRetentionFrames
<1>4. n = currentFrame + 1
  BY <1>3 DEF SetFrame
<1>5. PICK min : min = (IF n > retention THEN n - retention ELSE 0)
  OBVIOUS
<1>6. PICK q, p : q = Records(t) /\ p = Records(t)'
  OBVIOUS
<1>7. /\ q \in Seq(Record) /\ p \in Seq(Record) /\ min \in Nat
      /\ \E d \in 0 .. Len(q) :
           /\ IsTail(p, q, d)
           /\ \A j \in 1 .. Len(q) : j > d <=> q[j].frame >= min
  BY <1>3, <1>5, <1>6, SetFrameRings
<1>8. PICK d \in 0 .. Len(q) :
        /\ IsTail(p, q, d)
        /\ \A j \in 1 .. Len(q) : j > d <=> q[j].frame >= min
  BY <1>7
<1>9. min <= currentFrame
  BY <1>1, <1>4, <1>5
<1>10. PICK m : m = Len(q)
  OBVIOUS
<1>11. m \in Nat /\ i \in 1 .. m /\ i > d
  <2>1. m \in Nat /\ i \in 1 .. m
    BY <1>6, <1>7, <1>10
  <2>2. q[i].frame >= min
    BY <1>1, <1>6, <1>7, <1>9
  <2> QED
    BY <1>8, <1>10, <2>1, <2>2
<1>12. /\ Len(p) = m - d /\ \A j \in 1 .. (m - d) : p[j] = q[d + j]
  BY <1>8, <1>10 DEF IsTail
<1>13. i - d \in 1 .. (m - d) /\ d + (i - d) = i
  BY <1>8, <1>10, <1>11
<1>14. i - d \in DOMAIN p /\ p[i - d] = q[i]
  BY <1>7, <1>12, <1>13
<1> QED
  BY <1>6, <1>14

\* What callbacks emit after one pass is there for the next.
THEOREM NextPassCorrect == EventsSpec => NextPassSees
<1>1. EventsInv /\ [EventsNext]_eventVars =>
        [currentFrame' = currentFrame + 1 =>
           \A t \in EventTypes : \A i \in DOMAIN Records(t) :
             Records(t)[i].frame = currentFrame =>
               \E k \in DOMAIN Records(t)' : Records(t)'[k] = Records(t)[i]]_eventVars
  BY NextPassStep
<1> QED
  BY <1>1, EventsInvariant, PTL DEF EventsSpec, NextPassSees
=============================================================================
