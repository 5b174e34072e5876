--------------------------- MODULE ReportQueueProofs ---------------------------
(***************************************************************************)
(* The report queues keep what they promise for rings of any size and any  *)
(* number of slots.                                                        *)
(***************************************************************************)
EXTENDS ReportQueue, Sequences, SequenceTheorems, TLAPS

-------------------------------------------------------------------------------
(***************************************************************************)
(* Arithmetic of the ring                                                  *)
(***************************************************************************)

LEMMA ModOfSum ==
  ASSUME NEW D \in Nat \ {0}, NEW x \in 0..(2 * D - 1)
  PROVE  x % D = IF x < D THEN x ELSE x - D
<1>1. CASE x < D
  BY <1>1
<1>2. CASE x >= D
  BY <1>2
<1> QED
  BY <1>1, <1>2

\* The successor of an index.
LEMMA AfterIndex ==
  ASSUME NEW i \in Index
  PROVE  /\ After(i) = IF i + 1 = REPORT_QUEUE_DEPTH THEN 0 ELSE i + 1
         /\ After(i) \in Index
<1> DEFINE x == i + 1
<1>1. x \in 0..(2 * REPORT_QUEUE_DEPTH - 1) /\ REPORT_QUEUE_DEPTH \in Nat \ {0}
  BY QueueAssumption DEF Index
<1>2. After(i) = x % REPORT_QUEUE_DEPTH
  BY DEF After
<1> HIDE DEF x
<1>3. After(i) = IF x < REPORT_QUEUE_DEPTH THEN x ELSE x - REPORT_QUEUE_DEPTH
  BY <1>1, <1>2, ModOfSum
<1> QED
  BY <1>1, <1>3 DEF Index, x

LEMMA IndexBounds ==
  /\ REPORT_QUEUE_DEPTH \in Int /\ 0 < REPORT_QUEUE_DEPTH
  /\ \A i \in Index : i \in Int /\ 0 <= i /\ i < REPORT_QUEUE_DEPTH
  BY QueueAssumption DEF Index

\* Where the k-th report of a ring that begins at h is kept.
Place(h, k) == (h + k - 1) % REPORT_QUEUE_DEPTH

\* How many reports lie between h and t.
Between(h, t) == (t - h + REPORT_QUEUE_DEPTH) % REPORT_QUEUE_DEPTH

LEMMA PlaceIs ==
  ASSUME NEW h \in Index, NEW k \in 1..REPORT_QUEUE_DEPTH
  PROVE  /\ Place(h, k) = IF h + k - 1 < REPORT_QUEUE_DEPTH THEN h + k - 1
                                                            ELSE h + k - 1 - REPORT_QUEUE_DEPTH
         /\ Place(h, k) \in Index
<1> DEFINE x == h + k - 1
<1>1. x \in 0..(2 * REPORT_QUEUE_DEPTH - 1) /\ REPORT_QUEUE_DEPTH \in Nat \ {0}
  BY QueueAssumption DEF Index
<1>2. Place(h, k) = x % REPORT_QUEUE_DEPTH
  BY DEF Place
<1> HIDE DEF x
<1>3. Place(h, k) = IF x < REPORT_QUEUE_DEPTH THEN x ELSE x - REPORT_QUEUE_DEPTH
  BY <1>1, <1>2, ModOfSum
<1> QED
  BY <1>1, <1>3 DEF Index, x

LEMMA BetweenIs ==
  ASSUME NEW h \in Index, NEW t \in Index
  PROVE  /\ Between(h, t) = IF t < h THEN t - h + REPORT_QUEUE_DEPTH ELSE t - h
         /\ Between(h, t) \in 0..(REPORT_QUEUE_DEPTH - 1)
<1> DEFINE x == t - h + REPORT_QUEUE_DEPTH
<1>1. x \in 0..(2 * REPORT_QUEUE_DEPTH - 1) /\ REPORT_QUEUE_DEPTH \in Nat \ {0}
  BY QueueAssumption DEF Index
<1>2. Between(h, t) = x % REPORT_QUEUE_DEPTH
  BY DEF Between
<1> HIDE DEF x
<1>3. Between(h, t) = IF x < REPORT_QUEUE_DEPTH THEN x ELSE x - REPORT_QUEUE_DEPTH
  BY <1>1, <1>2, ModOfSum
<1> QED
  BY <1>1, <1>3 DEF Index, x

-------------------------------------------------------------------------------
(***************************************************************************)
(* The invariant                                                           *)
(***************************************************************************)

IInv == TypeOK /\ PeekedIsOldest

LEMMA InitIInv == Init => IInv
<1> SUFFICES ASSUME Init PROVE IInv
  OBVIOUS
<1>1. 0 \in Slot /\ 0 \in Index
  BY QueueAssumption DEF Slot, Index
<1> QED
  BY <1>1 DEF Init, IInv, TypeOK, PeekedIsOldest

LEMMA OnwardsType ==
  ASSUME TypeOK, NEW next \in {"clear", "task"}, Onwards(next)
  PROVE  at' \in {"main", next} /\ turn' \in Slot
<1>1. 0 \in Slot
  BY QueueAssumption DEF Slot
<1> QED
  BY <1>1 DEF Onwards

LEMMA PushKeeps ==
  ASSUME IInv, NEW s \in Slot, NEW r \in Report, Push(s, r)
  PROVE  IInv'
<1> USE DEF IInv
<1>1. CASE Full(s)
  BY <1>1 DEF Push, TypeOK, PeekedIsOldest, Empty, queueVars, coreVars
<1>2. CASE ~Full(s)
  <2>1. /\ data' = [data EXCEPT ![s] = [data[s] EXCEPT ![tail[s]] = r]]
        /\ tail' = [tail EXCEPT ![s] = After(tail[s])]
        /\ head' = head
        /\ push_ok' = TRUE
        /\ UNCHANGED <<at, turn, rpt, sent>>
    BY <1>2 DEF Push, TypeOK, coreVars
  <2>2. After(tail[s]) \in Index /\ tail[s] \in Index
    BY AfterIndex DEF TypeOK
  <2>3. TypeOK'
    BY <2>1, <2>2 DEF TypeOK
  <2>4. PeekedIsOldest'
    <3> SUFFICES ASSUME at \in {"peeked", "sent"}
                 PROVE  head'[turn] # tail'[turn] /\ data'[turn][head'[turn]] = rpt
      BY <2>1 DEF PeekedIsOldest, Empty
    <3>1. head[turn] # tail[turn] /\ data[turn][head[turn]] = rpt /\ turn \in Slot
      BY DEF PeekedIsOldest, Empty, TypeOK
    <3>2. CASE turn = s
      BY <1>2, <2>1, <2>2, <3>1, <3>2 DEF Full, TypeOK
    <3>3. CASE turn # s
      BY <2>1, <3>1, <3>3 DEF TypeOK
    <3> QED
      BY <3>2, <3>3
  <2> QED
    BY <2>3, <2>4
<1> QED
  BY <1>1, <1>2

LEMMA Core0Keeps ==
  ASSUME IInv, Core0
  PROVE  IInv'
<1> USE DEF IInv
<1>1. 0 \in Slot /\ 0 \in Index
  BY QueueAssumption DEF Slot, Index
<1>2. CASE StartClear \/ StartTask
  BY <1>2 DEF StartClear, StartTask, queueVars, TypeOK, PeekedIsOldest
<1>3. CASE ClearSlot
  <2>1. at' \in {"main", "clear"} /\ turn' \in Slot
    BY <1>3, OnwardsType DEF ClearSlot
  <2>2. TypeOK'
    BY <1>1, <1>3, <2>1 DEF ClearSlot, TypeOK
  <2> QED
    BY <2>1, <2>2 DEF PeekedIsOldest
<1>4. CASE Skip \/ NotNow
  <2>1. at' \in {"main", "task"} /\ turn' \in Slot
    BY <1>4, OnwardsType DEF Skip, NotNow
  <2>2. TypeOK'
    BY <1>4, <2>1 DEF Skip, NotNow, queueVars, TypeOK
  <2> QED
    BY <2>1, <2>2 DEF PeekedIsOldest
<1>5. CASE Peek
  <2>1. data[turn][head[turn]] \in Report \cup {NoReport}
    BY DEF TypeOK
  <2>2. /\ rpt' = data[turn][head[turn]]
        /\ at' = "peeked" /\ turn' = turn
        /\ data' = data /\ head' = head /\ tail' = tail
        /\ push_ok' = push_ok /\ sent' = sent
        /\ ~Empty(turn)
    BY <1>5 DEF Peek, queueVars
  <2>3. TypeOK'
    BY <2>1, <2>2 DEF TypeOK
  <2>4. PeekedIsOldest'
    BY <2>2 DEF PeekedIsOldest, Empty
  <2> QED
    BY <2>3, <2>4
<1>6. CASE Transmit
  BY <1>6 DEF Transmit, queueVars, TypeOK, PeekedIsOldest, Empty
<1>7. CASE Advance
  <2>1. at' \in {"main", "task"} /\ turn' \in Slot
    BY <1>7, OnwardsType DEF Advance
  <2>2. After(head[turn]) \in Index
    BY AfterIndex DEF TypeOK
  <2>3. head' \in [Slot -> Index]
    BY <1>7, <2>2 DEF Advance, TypeOK
  <2>4. TypeOK'
    BY <1>7, <2>1, <2>3 DEF Advance, TypeOK
  <2> QED
    BY <2>1, <2>4 DEF PeekedIsOldest
<1> QED
  BY <1>2, <1>3, <1>4, <1>5, <1>6, <1>7 DEF Core0

LEMMA NextIInv == IInv /\ [Next]_vars => IInv'
<1> SUFFICES ASSUME IInv, [Next]_vars PROVE IInv'
  OBVIOUS
<1>1. CASE UNCHANGED vars
  BY <1>1 DEF vars, queueVars, coreVars, IInv, TypeOK, PeekedIsOldest, Empty
<1> QED
  BY <1>1, PushKeeps, Core0Keeps DEF Next

\* The invariant the theorems below rest on: every reachable state is well typed, and
\* Core 0's copy is the oldest report of its queue.
THEOREM QueueInvariance == Spec => []IInv
  BY InitIInv, NextIInv, PTL DEF Spec

\* No index leaves its ring.
THEOREM QueueTypeCorrect == Spec => []TypeOK
<1>1. IInv => TypeOK
  BY DEF IInv
<1> QED
  BY <1>1, QueueInvariance, PTL

\* What Core 0 drops is what it has peeked and handed over.
THEOREM PeekCorrect == Spec => []PeekedIsOldest
<1>1. IInv => PeekedIsOldest
  BY DEF IInv
<1> QED
  BY <1>1, QueueInvariance, PTL
-------------------------------------------------------------------------------
(***************************************************************************)
(* A ring as a sequence                                                    *)
(***************************************************************************)

Stored == Report \cup {NoReport}

\* The reports of a ring d between h and t, oldest first.
Ring(d, h, t) == [k \in 1..Between(h, t) |-> d[Place(h, k)]]

LEMMA RingIs ==
  ASSUME NEW d \in [Index -> Stored], NEW h \in Index, NEW t \in Index
  PROVE  /\ Ring(d, h, t) \in Seq(Stored)
         /\ Len(Ring(d, h, t)) = Between(h, t)
         /\ \A k \in 1..Between(h, t) : Ring(d, h, t)[k] = d[Place(h, k)]
<1>1. Between(h, t) \in Nat /\ Between(h, t) <= REPORT_QUEUE_DEPTH
  BY BetweenIs, QueueAssumption
<1>2. \A k \in 1..Between(h, t) : d[Place(h, k)] \in Stored
  BY <1>1, PlaceIs, QueueAssumption
<1>3. Ring(d, h, t) \in [1..Between(h, t) -> Stored]
  BY <1>2 DEF Ring
<1>4. Ring(d, h, t) \in Seq(Stored)
  BY <1>1, <1>3, SeqDef
<1>5. Len(Ring(d, h, t)) = Between(h, t)
  BY <1>1, <1>3, <1>4, LenProperties
<1> QED
  BY <1>4, <1>5 DEF Ring

LEMMA RingEmpty ==
  ASSUME NEW d \in [Index -> Stored], NEW h \in Index, NEW t \in Index
  PROVE  Ring(d, h, t) = <<>> <=> h = t
<1>1. Between(h, t) = 0 <=> h = t
  <2>1. Between(h, t) = IF t < h THEN t - h + REPORT_QUEUE_DEPTH ELSE t - h
    BY BetweenIs
  <2> QED
    BY <2>1, IndexBounds
<1>2. Ring(d, h, t) = <<>> <=> Between(h, t) = 0
  BY RingIs, EmptySeq
<1> QED
  BY <1>1, <1>2

LEMMA RingFull ==
  ASSUME NEW h \in Index, NEW t \in Index
  PROVE  After(t) = h <=> ~(Between(h, t) < REPORT_QUEUE_DEPTH - 1)
<1>1. Between(h, t) = IF t < h THEN t - h + REPORT_QUEUE_DEPTH ELSE t - h
  BY BetweenIs
<1>2. After(t) = IF t + 1 = REPORT_QUEUE_DEPTH THEN 0 ELSE t + 1
  BY AfterIndex
<1> QED
  BY <1>1, <1>2, IndexBounds

LEMMA RingHead ==
  ASSUME NEW d \in [Index -> Stored], NEW h \in Index, NEW t \in Index, h # t
  PROVE  Head(Ring(d, h, t)) = d[h]
<1>1. Ring(d, h, t) \in Seq(Stored) /\ Ring(d, h, t) # <<>>
  BY RingIs, RingEmpty
<1>2. 1 \in 1..Between(h, t)
  <2>1. Between(h, t) = IF t < h THEN t - h + REPORT_QUEUE_DEPTH ELSE t - h
    BY BetweenIs
  <2> QED
    BY <2>1, IndexBounds
<1>3. Ring(d, h, t)[1] = d[Place(h, 1)]
  BY <1>2, RingIs
<1>4. Place(h, 1) = h
  <2>1. 1 \in 1..REPORT_QUEUE_DEPTH
    BY QueueAssumption
  <2>2. Place(h, 1) = IF h + 1 - 1 < REPORT_QUEUE_DEPTH THEN h + 1 - 1
                                                        ELSE h + 1 - 1 - REPORT_QUEUE_DEPTH
    BY <2>1, PlaceIs
  <2> QED
    BY <2>2, IndexBounds
<1> QED
  BY <1>1, <1>3, <1>4

LEMMA RingPush ==
  ASSUME NEW d \in [Index -> Stored], NEW h \in Index, NEW t \in Index, NEW r \in Report,
         After(t) # h
  PROVE  Ring([d EXCEPT ![t] = r], h, After(t)) = Append(Ring(d, h, t), r)
<1> DEFINE e == [d EXCEPT ![t] = r]
           n == Between(h, t)
           new == Ring(e, h, After(t))
           old == Append(Ring(d, h, t), r)
<1>1. e \in [Index -> Stored] /\ After(t) \in Index /\ r \in Stored
  BY AfterIndex DEF Stored
<1>a. n = IF t < h THEN t - h + REPORT_QUEUE_DEPTH ELSE t - h
  BY BetweenIs
<1>b. After(t) = IF t + 1 = REPORT_QUEUE_DEPTH THEN 0 ELSE t + 1
  BY AfterIndex
<1>c. Between(h, After(t)) = IF After(t) < h THEN After(t) - h + REPORT_QUEUE_DEPTH
                                             ELSE After(t) - h
  BY <1>1, BetweenIs
<1>2. /\ n \in Int /\ 0 <= n /\ n < REPORT_QUEUE_DEPTH
      /\ Between(h, After(t)) = n + 1
  <2> HIDE DEF n
  <2> QED
    BY <1>a, <1>b, <1>c, IndexBounds
<1>d. ASSUME NEW k \in 1..(n + 1)
      PROVE  /\ Place(h, k) = IF h + k - 1 < REPORT_QUEUE_DEPTH
                              THEN h + k - 1 ELSE h + k - 1 - REPORT_QUEUE_DEPTH
             /\ Place(h, k) \in Index
  <2> HIDE DEF n
  <2>1. k \in 1..REPORT_QUEUE_DEPTH
    BY <1>2, IndexBounds
  <2> QED
    BY <2>1, PlaceIs
<1>3. Place(h, n + 1) = t
  <2> HIDE DEF n
  <2>1. n + 1 \in 1..(n + 1)
    BY <1>2
  <2>2. Place(h, n + 1) = IF h + (n + 1) - 1 < REPORT_QUEUE_DEPTH
                          THEN h + (n + 1) - 1 ELSE h + (n + 1) - 1 - REPORT_QUEUE_DEPTH
    BY <2>1, <1>d
  <2> QED
    BY <1>2, <1>a, <2>2, IndexBounds
<1>4. ASSUME NEW k \in 1..n
      PROVE  Place(h, k) \in Index /\ Place(h, k) # t
  <2> HIDE DEF n
  <2>1. k \in 1..(n + 1)
    BY <1>2
  <2>2. /\ Place(h, k) = IF h + k - 1 < REPORT_QUEUE_DEPTH
                         THEN h + k - 1 ELSE h + k - 1 - REPORT_QUEUE_DEPTH
        /\ Place(h, k) \in Index
    BY <2>1, <1>d
  <2> QED
    BY <1>2, <1>a, <2>2, IndexBounds
<1>5. /\ new \in Seq(Stored)
      /\ Len(new) = n + 1
      /\ \A k \in 1..(n + 1) : new[k] = e[Place(h, k)]
  <2> HIDE DEF n, e
  <2>1. /\ Ring(e, h, After(t)) \in Seq(Stored)
        /\ Len(Ring(e, h, After(t))) = Between(h, After(t))
        /\ \A k \in 1..Between(h, After(t)) : Ring(e, h, After(t))[k] = e[Place(h, k)]
    BY <1>1, RingIs
  <2>2. Between(h, After(t)) = n + 1
    BY <1>2
  <2> HIDE DEF new
  <2>3. new = Ring(e, h, After(t))
    BY DEF new
  <2> QED
    BY <2>1, <2>2, <2>3
<1>6. /\ Ring(d, h, t) \in Seq(Stored)
      /\ Len(Ring(d, h, t)) = n
      /\ \A k \in 1..n : Ring(d, h, t)[k] = d[Place(h, k)]
  BY RingIs
<1>7. /\ old \in Seq(Stored)
      /\ Len(old) = n + 1
      /\ \A k \in 1..n : old[k] = d[Place(h, k)]
      /\ old[n + 1] = r
  <2> HIDE DEF n
  <2> QED
    BY <1>1, <1>2, <1>6
<1>8. ASSUME NEW k \in 1..(n + 1)
      PROVE  new[k] = old[k]
  <2>1. new[k] = e[Place(h, k)]
    BY <1>5
  <2>2. CASE k = n + 1
    BY <2>1, <2>2, <1>3, <1>7
  <2>3. CASE k # n + 1
    <3>1. k \in 1..n
      BY <1>2, <2>3
    <3>2. e[Place(h, k)] = d[Place(h, k)]
      BY <1>4, <3>1
    <3> QED
      BY <2>1, <3>1, <3>2, <1>7
  <2> QED
    BY <2>2, <2>3
<1> QED
  <2> HIDE DEF new, old, n
  <2>1. new = old
    BY <1>5, <1>7, <1>8, SeqEqual
  <2> QED
    BY <2>1 DEF new, old

LEMMA RingAdvance ==
  ASSUME NEW d \in [Index -> Stored], NEW h \in Index, NEW t \in Index, h # t
  PROVE  Ring(d, After(h), t) = Tail(Ring(d, h, t))
<1> DEFINE n == Between(h, t)
           new == Ring(d, After(h), t)
           old == Ring(d, h, t)
<1>1. After(h) \in Index
  BY AfterIndex
<1>a. n = IF t < h THEN t - h + REPORT_QUEUE_DEPTH ELSE t - h
  BY BetweenIs
<1>b. After(h) = IF h + 1 = REPORT_QUEUE_DEPTH THEN 0 ELSE h + 1
  BY AfterIndex
<1>c. Between(After(h), t) = IF t < After(h) THEN t - After(h) + REPORT_QUEUE_DEPTH
                                             ELSE t - After(h)
  BY <1>1, BetweenIs
<1>2. /\ n \in Int /\ 1 <= n /\ n < REPORT_QUEUE_DEPTH
      /\ Between(After(h), t) = n - 1
  <2> HIDE DEF n
  <2> QED
    BY <1>a, <1>b, <1>c, IndexBounds
<1>3. ASSUME NEW k \in 1..(n - 1)
      PROVE  Place(After(h), k) = Place(h, k + 1)
  <2> HIDE DEF n
  <2>1. k \in 1..REPORT_QUEUE_DEPTH /\ k + 1 \in 1..REPORT_QUEUE_DEPTH
    BY <1>2, IndexBounds
  <2>2. Place(After(h), k) = IF After(h) + k - 1 < REPORT_QUEUE_DEPTH
                             THEN After(h) + k - 1 ELSE After(h) + k - 1 - REPORT_QUEUE_DEPTH
    BY <1>1, <2>1, PlaceIs
  <2>3. Place(h, k + 1) = IF h + (k + 1) - 1 < REPORT_QUEUE_DEPTH
                          THEN h + (k + 1) - 1 ELSE h + (k + 1) - 1 - REPORT_QUEUE_DEPTH
    BY <2>1, PlaceIs
  <2> QED
    BY <1>b, <2>1, <2>2, <2>3, IndexBounds
<1>4. /\ new \in Seq(Stored)
      /\ Len(new) = n - 1
      /\ \A k \in 1..(n - 1) : new[k] = d[Place(After(h), k)]
  BY <1>1, <1>2, RingIs
<1>5. /\ old \in Seq(Stored)
      /\ Len(old) = n
      /\ \A k \in 1..n : old[k] = d[Place(h, k)]
      /\ old # <<>>
  <2>1. /\ old \in Seq(Stored)
        /\ Len(old) = n
        /\ \A k \in 1..n : old[k] = d[Place(h, k)]
    BY RingIs
  <2>2. old # <<>>
    BY RingEmpty
  <2> QED
    BY <2>1, <2>2
<1> HIDE DEF n, new, old
<1>6. /\ Tail(old) \in Seq(Stored)
      /\ Len(Tail(old)) = n - 1
      /\ \A k \in 1..(n - 1) : Tail(old)[k] = old[k + 1]
  BY <1>2, <1>5
<1>7. ASSUME NEW k \in 1..(n - 1)
      PROVE  new[k] = Tail(old)[k]
  <2>1. k + 1 \in 1..n
    BY <1>2
  <2> QED
    BY <2>1, <1>3, <1>4, <1>5, <1>6
<1>8. new = Tail(old)
  BY <1>4, <1>6, <1>7, SeqEqual
<1> QED
  BY <1>8 DEF new, old

-------------------------------------------------------------------------------
(***************************************************************************)
(* The refinement                                                          *)
(***************************************************************************)

\* Every slot's queue, and the slot whose report is on its way.
Queues == [s \in Slot |-> Queued(s)]
Sending == IF at = "sent" THEN turn ELSE NoSlot

LEMMA QueueIs ==
  ASSUME NEW s \in Slot
  PROVE  /\ Queues[s] = Ring(data[s], head[s], tail[s])
         /\ Queues'[s] = Ring(data'[s], head'[s], tail'[s])
  BY DEF Queues, Queued, Count, Ring, Between, Place

LEMMA RingsTyped ==
  ASSUME TypeOK, NEW s \in Slot
  PROVE  data[s] \in [Index -> Stored] /\ head[s] \in Index /\ tail[s] \in Index
  BY DEF TypeOK, Stored

LEMMA SlotIsNoSlot == NoSlot \notin Slot
  BY QueueAssumption DEF Slot, NoSlot

\* A step that leaves the rings alone leaves the queues alone.
LEMMA QueuesKept == UNCHANGED queueVars => UNCHANGED Queues
  BY DEF queueVars, Queues, Queued, Count

LEMMA FifoInit == Init => SlotQueues!Init
<1> SUFFICES ASSUME Init PROVE SlotQueues!Init
  OBVIOUS
<1>1. TypeOK
  BY InitIInv DEF IInv
<1>2. ASSUME NEW s \in Slot PROVE Queued(s) = <<>>
  <2>1. Queues[s] = Ring(data[s], head[s], tail[s]) /\ head[s] = tail[s]
    BY QueueIs DEF Init
  <2>2. Queues[s] = <<>>
    BY <1>1, <2>1, RingsTyped, RingEmpty
  <2> QED
    BY <2>2 DEF Queues
<1> QED
  BY <1>2 DEF Init, SlotQueues!Init

LEMMA FifoPush ==
  ASSUME IInv, NEW s \in Slot, NEW r \in Report, Push(s, r)
  PROVE  SlotQueues!Push(s, r)
<1>1. data[s] \in [Index -> Stored] /\ head[s] \in Index /\ tail[s] \in Index
  BY RingsTyped DEF IInv
<1>2. Full(s) <=> ~(Len(Queues[s]) < REPORT_QUEUE_DEPTH - 1)
  <2>1. Queues[s] = Ring(data[s], head[s], tail[s])
    BY QueueIs
  <2>2. Len(Queues[s]) = Between(head[s], tail[s])
    BY <1>1, <2>1, RingIs
  <2>3. After(tail[s]) = head[s] <=> ~(Between(head[s], tail[s]) < REPORT_QUEUE_DEPTH - 1)
    BY <1>1, RingFull
  <2> QED
    BY <2>2, <2>3 DEF Full
<1>3. Queues' = IF Full(s) THEN Queues ELSE [Queues EXCEPT ![s] = Append(Queues[s], r)]
  <2>1. CASE Full(s)
    BY <2>1, QueuesKept DEF Push
  <2>2. CASE ~Full(s)
    <3>1. /\ data' = [data EXCEPT ![s] = [data[s] EXCEPT ![tail[s]] = r]]
          /\ tail' = [tail EXCEPT ![s] = After(tail[s])]
          /\ head' = head
      BY <2>2 DEF Push, IInv, TypeOK
    <3>2. Queues'[s] = Append(Queues[s], r)
      <4>1. Queues'[s] = Ring([data[s] EXCEPT ![tail[s]] = r], head[s], After(tail[s]))
        BY <3>1, QueueIs DEF IInv, TypeOK
      <4> QED
        BY <1>1, <2>2, <4>1, QueueIs, RingPush DEF Full
    <3>3. ASSUME NEW z \in Slot, z # s PROVE Queues'[z] = Queues[z]
      BY <3>1, <3>3, QueueIs DEF IInv, TypeOK
    <3> QED
      BY <2>2, <3>2, <3>3 DEF Queues
  <2> QED
    BY <2>1, <2>2
<1>4. push_ok' = ~Full(s) /\ UNCHANGED <<at, turn, sent>>
  BY DEF Push, coreVars
<1> QED
  BY <1>2, <1>3, <1>4 DEF SlotQueues!Push, Queues

LEMMA FifoHandOver ==
  ASSUME IInv, Transmit
  PROVE  \E s \in Slot : SlotQueues!HandOver(s)
<1> PICK s \in Slot : s = turn
  BY DEF IInv, TypeOK
<1>1. data[s] \in [Index -> Stored] /\ head[s] \in Index /\ tail[s] \in Index
  BY RingsTyped DEF IInv
<1>2. head[s] # tail[s] /\ data[s][head[s]] = rpt
  BY DEF Transmit, IInv, PeekedIsOldest, Empty
<1>3. Queues[s] # <<>> /\ Head(Queues[s]) = rpt
  BY <1>1, <1>2, QueueIs, RingEmpty, RingHead
<1>4. Queues' = Queues
  BY QueuesKept DEF Transmit
<1>5. /\ at = "peeked" /\ at' = "sent" /\ turn' = s
      /\ sent' = [sent EXCEPT ![s] = rpt] /\ push_ok' = push_ok
  BY DEF Transmit
<1> QED
  BY <1>3, <1>4, <1>5 DEF SlotQueues!HandOver, Queues

LEMMA FifoDrop ==
  ASSUME IInv, Advance
  PROVE  \E s \in Slot : SlotQueues!Drop(s)
<1> PICK s \in Slot : s = turn
  BY DEF IInv, TypeOK
<1>1. data[s] \in [Index -> Stored] /\ head[s] \in Index /\ tail[s] \in Index
  BY RingsTyped DEF IInv
<1>2. head[s] # tail[s]
  BY DEF Advance, IInv, PeekedIsOldest, Empty
<1>3. Queues[s] # <<>>
  BY <1>1, <1>2, QueueIs, RingEmpty
<1>4. /\ head' = [head EXCEPT ![s] = After(head[s])] /\ data' = data /\ tail' = tail
      /\ at = "sent" /\ at' # "sent" /\ push_ok' = push_ok /\ sent' = sent
  BY <1>2 DEF Advance, Empty, Onwards
<1>5. Queues'[s] = Tail(Queues[s])
  <2>1. Queues'[s] = Ring(data[s], After(head[s]), tail[s])
    BY <1>4, QueueIs DEF IInv, TypeOK
  <2>2. Queues[s] = Ring(data[s], head[s], tail[s])
    BY QueueIs
  <2>3. Ring(data[s], After(head[s]), tail[s]) = Tail(Ring(data[s], head[s], tail[s]))
    BY <1>1, <1>2, RingAdvance
  <2> QED
    BY <2>1, <2>2, <2>3
<1>6. ASSUME NEW z \in Slot, z # s PROVE Queues'[z] = Queues[z]
  BY <1>4, <1>6, QueueIs DEF IInv, TypeOK
<1>7. Queues' = [Queues EXCEPT ![s] = Tail(Queues[s])]
  BY <1>5, <1>6 DEF Queues
<1> QED
  BY <1>3, <1>4, <1>7 DEF SlotQueues!Drop, Queues

LEMMA FifoClear ==
  ASSUME IInv, ClearSlot
  PROVE  \E s \in Slot : SlotQueues!Clear(s)
<1> PICK s \in Slot : s = turn
  BY DEF IInv, TypeOK
<1>1. /\ head' = [head EXCEPT ![s] = 0] /\ tail' = [tail EXCEPT ![s] = 0] /\ data' = data
      /\ at = "clear" /\ at' # "sent" /\ push_ok' = push_ok /\ sent' = sent
  BY DEF ClearSlot, Onwards
<1>2. Queues'[s] = <<>>
  <2>1. Queues'[s] = Ring(data[s], 0, 0)
    BY <1>1, QueueIs DEF IInv, TypeOK
  <2>2. data[s] \in [Index -> Stored] /\ 0 \in Index
    BY RingsTyped, QueueAssumption DEF IInv, Index
  <2> QED
    BY <2>1, <2>2, RingEmpty
<1>3. ASSUME NEW z \in Slot, z # s PROVE Queues'[z] = Queues[z]
  BY <1>1, <1>3, QueueIs DEF IInv, TypeOK
<1>4. Queues' = [Queues EXCEPT ![s] = <<>>]
  BY <1>2, <1>3 DEF Queues
<1> QED
  BY <1>1, <1>4 DEF SlotQueues!Clear, Queues

\* The steps that only move Core 0 along its loop.
LEMMA FifoStutter ==
  ASSUME IInv, StartClear \/ StartTask \/ Skip \/ Peek \/ NotNow \/ UNCHANGED vars
  PROVE  UNCHANGED SlotQueues!fifoVars
<1>1. Queues' = Queues
  <2>1. UNCHANGED queueVars
    BY DEF StartClear, StartTask, Skip, Peek, NotNow, vars
  <2> QED
    BY <2>1, QueuesKept
<1>2. /\ UNCHANGED <<push_ok, sent>>
      /\ (at' = at /\ turn' = turn) \/ (at # "sent" /\ at' # "sent")
  BY DEF StartClear, StartTask, Skip, Peek, NotNow, Onwards, vars, coreVars
<1> QED
  BY <1>1, <1>2 DEF SlotQueues!fifoVars, Queues

\* However the two cores interleave, the rings are bounded FIFOs: in order, nothing
\* sent twice or skipped, only what finds the queue full dropped.
THEOREM FifoImplemented == Spec => ImplementsFifo
<1>1. IInv /\ [Next]_vars => [SlotQueues!Next]_SlotQueues!fifoVars
  <2> SUFFICES ASSUME IInv, [Next]_vars PROVE [SlotQueues!Next]_SlotQueues!fifoVars
    OBVIOUS
  <2>1. CASE \E s \in Slot, r \in Report : Push(s, r)
    BY <2>1, FifoPush DEF SlotQueues!Next
  <2>2. CASE Transmit
    BY <2>2, FifoHandOver DEF SlotQueues!Next
  <2>3. CASE Advance
    BY <2>3, FifoDrop DEF SlotQueues!Next
  <2>4. CASE ClearSlot
    BY <2>4, FifoClear DEF SlotQueues!Next
  <2>5. CASE StartClear \/ StartTask \/ Skip \/ Peek \/ NotNow \/ UNCHANGED vars
    BY <2>5, FifoStutter
  <2> QED
    BY <2>1, <2>2, <2>3, <2>4, <2>5 DEF Next, Core0
<1> QED
  BY <1>1, FifoInit, QueueInvariance, PTL DEF Spec, ImplementsFifo, SlotQueues!Spec

===============================================================================
