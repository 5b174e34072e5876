---------------------------- MODULE LogConsoleProofs ----------------------------
(***************************************************************************)
(* The log ring is a lossy FIFO, for any number of slots and counters of   *)
(* any width, as long as they wrap at a multiple of the slots.             *)
(***************************************************************************)
EXTENDS LogConsole, Remainders, Sequences, SequenceTheorems, TLAPS

-------------------------------------------------------------------------------
(***************************************************************************)
(* Counters and places                                                     *)
(***************************************************************************)

LEMMA Sizes ==
  /\ LOG_CONSOLE_SLOTS \in Nat \ {0} /\ WORD \in Nat \ {0} /\ LOG_CONSOLE_SLOTS < WORD
  /\ LOG_CONSOLE_SLOTS \in Int /\ WORD \in Int /\ 0 < LOG_CONSOLE_SLOTS
  BY LogAssumption

After(i) == (i + 1) % WORD

LEMMA AfterIs ==
  ASSUME NEW i \in Counter
  PROVE  /\ After(i) = IF i + 1 = WORD THEN 0 ELSE i + 1
         /\ After(i) \in Counter
<1>1. i \in Int /\ 0 <= i /\ i < WORD
  BY Sizes DEF Counter
<1>2. CASE i + 1 = WORD
  <2>1. (WORD * 1 + 0) % WORD = 0
    BY Sizes, RemainderUnique
  <2>2. WORD * 1 + 0 = i + 1
    BY <1>1, <1>2, Sizes
  <2> QED
    BY <1>2, <2>1, <2>2, Sizes DEF After, Counter
<1>3. CASE i + 1 # WORD
  <2>1. i + 1 \in 0..(WORD - 1) /\ WORD * 0 + (i + 1) = i + 1
    BY <1>1, <1>3, Sizes
  <2>2. (WORD * 0 + (i + 1)) % WORD = i + 1
    BY <2>1, Sizes, RemainderUnique
  <2> QED
    BY <1>3, <2>1, <2>2 DEF After, Counter
<1> QED
  BY <1>2, <1>3

Apart(h, t) == (h - t) % WORD

LEMMA ApartIs ==
  ASSUME NEW h \in Counter, NEW t \in Counter
  PROVE  /\ Apart(h, t) = IF h < t THEN h - t + WORD ELSE h - t
         /\ Apart(h, t) \in Nat
<1>1. h \in Int /\ 0 <= h /\ h < WORD /\ t \in Int /\ 0 <= t /\ t < WORD
  BY Sizes DEF Counter
<1>2. CASE h < t
  <2>1. h - t + WORD \in 0..(WORD - 1) /\ WORD * (-1) + (h - t + WORD) = h - t
    BY <1>1, <1>2, Sizes
  <2>2. (WORD * (-1) + (h - t + WORD)) % WORD = h - t + WORD
    BY <2>1, Sizes, RemainderUnique
  <2> QED
    BY <1>1, <1>2, <2>1, <2>2 DEF Apart
<1>3. CASE ~(h < t)
  <2>1. h - t \in 0..(WORD - 1) /\ WORD * 0 + (h - t) = h - t
    BY <1>1, <1>3, Sizes
  <2>2. (WORD * 0 + (h - t)) % WORD = h - t
    BY <2>1, Sizes, RemainderUnique
  <2> QED
    BY <1>1, <1>3, <2>1, <2>2 DEF Apart
<1> QED
  BY <1>2, <1>3

\* Where the ring keeps the message that a counter, or one past the wrap, counts.
Spot(i) == i % LOG_CONSOLE_SLOTS

LEMMA SpotTyped ==
  ASSUME NEW i \in Int
  PROVE  Spot(i) \in Place
  BY Divided, Sizes DEF Spot, Place

\* The counters wrap where the places do.
LEMMA SpotWraps ==
  ASSUME NEW i \in Int
  PROVE  Spot(i + WORD) = Spot(i)
<1>1. PICK c \in Int : WORD = LOG_CONSOLE_SLOTS * c
  <2>1. PICK c \in Int, m \in Int :
          m = WORD % LOG_CONSOLE_SLOTS /\ WORD = LOG_CONSOLE_SLOTS * c + m
    BY Sizes, Divided
  <2>2. LOG_CONSOLE_SLOTS * c \in Int
    BY <2>1, Sizes
  <2>3. WORD = LOG_CONSOLE_SLOTS * c
    BY <2>1, <2>2, LogAssumption
  <2> QED
    BY <2>3
<1>2. (i + LOG_CONSOLE_SLOTS * c) % LOG_CONSOLE_SLOTS = i % LOG_CONSOLE_SLOTS
  BY <1>1, Sizes, RemainderOfMore
<1> QED
  BY <1>1, <1>2 DEF Spot

LEMMA SpotAfter ==
  ASSUME NEW i \in Counter, NEW j \in Nat
  PROVE  Spot(After(i) + j) = Spot(i + 1 + j)
<1>1. i \in Int
  BY DEF Counter
<1>2. CASE i + 1 = WORD
  <2>1. Spot(j + WORD) = Spot(j)
    BY SpotWraps
  <2>2. After(i) + j = j /\ i + 1 + j = j + WORD
    BY <1>1, <1>2, AfterIs, Sizes
  <2> QED
    BY <2>1, <2>2
<1>3. CASE i + 1 # WORD
  BY <1>3, AfterIs
<1> QED
  BY <1>2, <1>3

\* The place the next message goes to is that behind the last one waiting.
LEMMA SpotOfHead ==
  ASSUME NEW h \in Counter, NEW t \in Counter
  PROVE  Spot(h) = Spot(t + Apart(h, t))
<1>1. h \in Int /\ t \in Int
  BY DEF Counter
<1>2. CASE h < t
  <2>1. t + Apart(h, t) = h + WORD
    BY <1>1, <1>2, ApartIs, Sizes
  <2> QED
    BY <1>1, <2>1, SpotWraps
<1>3. CASE ~(h < t)
  <2>1. t + Apart(h, t) = h
    BY <1>1, <1>3, ApartIs, Sizes
  <2> QED
    BY <2>1
<1> QED
  BY <1>2, <1>3

LEMMA SpotsDiffer ==
  ASSUME NEW i \in Int, NEW j \in Int, i < j, j - i < LOG_CONSOLE_SLOTS
  PROVE  Spot(i) # Spot(j)
  BY RemaindersDiffer, Sizes DEF Spot

\* One more, one fewer.
LEMMA ApartAfterHead ==
  ASSUME NEW h \in Counter, NEW t \in Counter, Apart(h, t) + 1 < WORD
  PROVE  Apart(After(h), t) = Apart(h, t) + 1
<1>1. h \in Int /\ 0 <= h /\ h < WORD /\ t \in Int /\ 0 <= t /\ t < WORD /\ WORD \in Int
  BY Sizes DEF Counter
<1>2. /\ Apart(h, t) = IF h < t THEN h - t + WORD ELSE h - t
      /\ After(h) = IF h + 1 = WORD THEN 0 ELSE h + 1
      /\ After(h) \in Counter
  BY ApartIs, AfterIs
<1>3. Apart(After(h), t) = IF After(h) < t THEN After(h) - t + WORD ELSE After(h) - t
  BY <1>2, ApartIs
<1> HIDE DEF Apart, After
<1> QED
  BY <1>1, <1>2, <1>3

LEMMA ApartAfterTail ==
  ASSUME NEW h \in Counter, NEW t \in Counter, h # t
  PROVE  Apart(h, After(t)) = Apart(h, t) - 1
<1>1. h \in Int /\ 0 <= h /\ h < WORD /\ t \in Int /\ 0 <= t /\ t < WORD /\ WORD \in Int
  BY Sizes DEF Counter
<1>2. /\ Apart(h, t) = IF h < t THEN h - t + WORD ELSE h - t
      /\ After(t) = IF t + 1 = WORD THEN 0 ELSE t + 1
      /\ After(t) \in Counter
  BY ApartIs, AfterIs
<1>3. Apart(h, After(t)) = IF h < After(t) THEN h - After(t) + WORD ELSE h - After(t)
  BY <1>2, ApartIs
<1> HIDE DEF Apart, After
<1> QED
  BY <1>1, <1>2, <1>3

LEMMA ApartZero ==
  ASSUME NEW h \in Counter, NEW t \in Counter
  PROVE  Apart(h, t) = 0 <=> h = t
<1>1. h \in Int /\ 0 <= h /\ h < WORD /\ t \in Int /\ 0 <= t /\ t < WORD /\ WORD \in Int
  BY Sizes DEF Counter
<1> QED
  BY <1>1, ApartIs

-------------------------------------------------------------------------------
(***************************************************************************)
(* The ring as a sequence                                                  *)
(***************************************************************************)

Stored == Message \cup {NoMessage}

\* The n messages from counter t on.
Ring(d, t, n) == [k \in 1..n |-> d[Spot(t + k - 1)]]

LEMMA RingIs ==
  ASSUME NEW d \in [Place -> Stored], NEW t \in Counter, NEW n \in Nat
  PROVE  /\ Ring(d, t, n) \in Seq(Stored) /\ Len(Ring(d, t, n)) = n
         /\ \A k \in 1..n : Ring(d, t, n)[k] = d[Spot(t + k - 1)]
<1>1. \A k \in 1..n : t + k - 1 \in Int /\ Spot(t + k - 1) \in Place
  BY SpotTyped DEF Counter
<1>2. Ring(d, t, n) \in [1..n -> Stored]
  BY <1>1 DEF Ring
<1> QED
  BY <1>2 DEF Ring

LEMMA RingEmpty ==
  ASSUME NEW d \in [Place -> Stored], NEW t \in Counter, NEW n \in Nat
  PROVE  Ring(d, t, n) = << >> <=> n = 0
  BY RingIs, EmptySeq

\* A message written behind the last one is appended.
LEMMA RingAppend ==
  ASSUME NEW d \in [Place -> Stored], NEW t \in Counter, NEW h \in Counter,
         Apart(h, t) < LOG_CONSOLE_SLOTS, NEW m \in Stored
  PROVE  Ring([d EXCEPT ![Spot(h)] = m], t, Apart(h, t) + 1) = Append(Ring(d, t, Apart(h, t)), m)
<1> DEFINE n == Apart(h, t)
           e == [d EXCEPT ![Spot(h)] = m]
           old == Ring(d, t, n)
           new == Ring(e, t, n + 1)
           app == Append(old, m)
<1>1. n \in Nat /\ t \in Int /\ h \in Int /\ n < LOG_CONSOLE_SLOTS
  BY ApartIs DEF Counter
<1>2. Spot(h) = Spot(t + n) /\ Spot(h) \in Place
  BY <1>1, SpotOfHead, SpotTyped
<1>3. e \in [Place -> Stored] /\ e[Spot(h)] = m /\ \A p \in Place : p # Spot(h) => e[p] = d[p]
  BY <1>2
<1> HIDE DEF n, e
<1>4. /\ old \in Seq(Stored) /\ Len(old) = n /\ \A k \in 1..n : old[k] = d[Spot(t + k - 1)]
      /\ n + 1 \in Nat
      /\ new \in Seq(Stored) /\ Len(new) = n + 1
      /\ \A k \in 1..(n + 1) : new[k] = e[Spot(t + k - 1)]
  BY <1>1, <1>3, RingIs
<1> HIDE DEF old, new
<1>5. /\ app \in Seq(Stored) /\ Len(app) = n + 1
      /\ \A k \in 1..n : app[k] = old[k]
      /\ app[n + 1] = m
  BY <1>4
<1>6. ASSUME NEW k \in 1..n PROVE new[k] = app[k]
  <2> DEFINE i == t + k - 1
             j == t + n
  <2>0. i \in Int /\ j \in Int /\ i < j /\ j - i < LOG_CONSOLE_SLOTS
    BY <1>1, Sizes
  <2>1. Spot(t + k - 1) # Spot(t + n) /\ Spot(t + k - 1) \in Place
    <3> HIDE DEF i, j
    <3>1. Spot(i) # Spot(j) /\ Spot(i) \in Place
      BY <2>0, SpotsDiffer, SpotTyped
    <3> QED
      BY <3>1 DEF i, j
  <2>2. new[k] = d[Spot(t + k - 1)]
    BY <1>1, <1>2, <1>3, <1>4, <2>1
  <2> QED
    BY <1>4, <1>5, <2>2
<1>7. new[n + 1] = app[n + 1]
  <2>1. t + (n + 1) - 1 = t + n /\ n + 1 \in 1..(n + 1)
    BY <1>1
  <2>2. new[n + 1] = e[Spot(t + n)]
    BY <1>4, <2>1
  <2> QED
    BY <1>2, <1>3, <1>5, <2>2
<1>8. \A k \in 1..Len(new) : new[k] = app[k]
  BY <1>1, <1>4, <1>6, <1>7
<1>9. new = app
  BY <1>4, <1>5, <1>8, SeqEqual
<1> QED
  BY <1>9 DEF new, old, n, e

\* A tail that moves on leaves the rest.
LEMMA RingTail ==
  ASSUME NEW d \in [Place -> Stored], NEW t \in Counter, NEW n \in Nat \ {0}
  PROVE  /\ Ring(d, After(t), n - 1) = Tail(Ring(d, t, n))
         /\ Head(Ring(d, t, n)) = d[Spot(t)]
<1> DEFINE old == Ring(d, t, n)
           new == Ring(d, After(t), n - 1)
<1>1. t \in Int /\ After(t) \in Counter /\ n - 1 \in Nat
  BY AfterIs DEF Counter
<1>2. /\ old \in Seq(Stored) /\ Len(old) = n /\ \A k \in 1..n : old[k] = d[Spot(t + k - 1)]
      /\ new \in Seq(Stored) /\ Len(new) = n - 1
      /\ \A k \in 1..(n - 1) : new[k] = d[Spot(After(t) + k - 1)]
  BY <1>1, RingIs
<1> HIDE DEF old, new
<1>3. old # << >>
  BY <1>2, EmptySeq
<1>4. /\ Tail(old) \in Seq(Stored) /\ Len(Tail(old)) = n - 1
      /\ \A k \in 1..(n - 1) : Tail(old)[k] = old[k + 1]
  BY <1>2, <1>3
<1>5. ASSUME NEW k \in 1..(n - 1) PROVE new[k] = Tail(old)[k]
  <2>1. Spot(After(t) + (k - 1)) = Spot(t + 1 + (k - 1)) /\ k - 1 \in Nat
    BY SpotAfter
  <2>2. After(t) + (k - 1) = After(t) + k - 1 /\ t + 1 + (k - 1) = t + (k + 1) - 1
    BY <1>1 DEF Counter
  <2>3. new[k] = d[Spot(t + (k + 1) - 1)]
    BY <1>2, <2>1, <2>2
  <2>4. k + 1 \in 1..n
    OBVIOUS
  <2> QED
    BY <1>2, <1>4, <2>3, <2>4
<1>6. new = Tail(old)
  BY <1>2, <1>4, <1>5, SeqEqual
<1>7. Head(old) = old[1] /\ 1 \in 1..n /\ t + 1 - 1 = t
  BY <1>1, <1>2, <1>3
<1> QED
  BY <1>2, <1>6, <1>7 DEF old, new

-------------------------------------------------------------------------------
(***************************************************************************)
(* The invariant                                                           *)
(***************************************************************************)

Messages == Ring(log_msg, log_tail, Waiting)

\* Waiting places hold messages, and so does the staging buffer while it is read.
HoldsMessages ==
  /\ \A k \in 1..Waiting : Messages[k] \in Message
  /\ Pending => cdc_out \in Message

IInv == LogTypeOK /\ HoldsMessages

\* Indices and places in the terms of the lemmas.
LEMMA WaitingIs ==
  ASSUME LogTypeOK
  PROVE  /\ Waiting = Apart(log_head, log_tail) /\ Waiting \in Nat
         /\ Waiting <= LOG_CONSOLE_SLOTS
         /\ Waiting = 0 <=> log_head = log_tail
         /\ log_msg \in [Place -> Stored]
         /\ Messages \in Seq(Stored) /\ Len(Messages) = Waiting
         /\ Messages = << >> <=> Waiting = 0
<1>1. /\ log_msg \in [Place -> Stored] /\ log_head \in Counter /\ log_tail \in Counter
      /\ Waiting <= LOG_CONSOLE_SLOTS
  BY DEF LogTypeOK, Stored
<1>2. Waiting = Apart(log_head, log_tail)
  BY DEF Waiting, Apart
<1>3. Waiting \in Nat /\ (Waiting = 0 <=> log_head = log_tail)
  BY <1>1, <1>2, ApartIs, ApartZero
<1>4. /\ Messages \in Seq(Stored) /\ Len(Messages) = Waiting
      /\ Messages = << >> <=> Waiting = 0
  BY <1>1, <1>3, RingIs, RingEmpty DEF Messages
<1> QED
  BY <1>1, <1>2, <1>3, <1>4

\* A push appends, to all that waits or to all but the oldest.
LEMMA Pushed ==
  ASSUME IInv, NEW m \in Message, LogPush(m)
  PROVE  /\ log_msg' \in [Place -> Stored] /\ log_head' \in Counter /\ log_tail' \in Counter
         /\ Waiting' = IF Waiting = LOG_CONSOLE_SLOTS THEN Waiting ELSE Waiting + 1
         /\ Messages' = Append(IF Len(Messages) = LOG_CONSOLE_SLOTS
                               THEN Tail(Messages) ELSE Messages, m)
<1>1. /\ log_msg \in [Place -> Stored] /\ log_head \in Counter /\ log_tail \in Counter
      /\ Waiting = Apart(log_head, log_tail) /\ Waiting \in Nat
      /\ Waiting <= LOG_CONSOLE_SLOTS /\ Len(Messages) = Waiting
  BY WaitingIs DEF IInv, LogTypeOK
<1>2. /\ log_msg' = [log_msg EXCEPT ![Spot(log_head)] = m]
      /\ log_head' = After(log_head)
      /\ log_tail' = IF Waiting >= LOG_CONSOLE_SLOTS THEN After(log_tail) ELSE log_tail
  BY DEF LogPush, Spot, After
<1>3. m \in Stored /\ After(log_head) \in Counter /\ After(log_tail) \in Counter
  BY <1>1, AfterIs DEF Stored
<1>4. log_msg' \in [Place -> Stored] /\ log_head' \in Counter /\ log_tail' \in Counter
  BY <1>1, <1>2, <1>3
<1>5. Waiting' = Apart(log_head', log_tail')
  BY DEF Waiting, Apart
<1>6. CASE Waiting < LOG_CONSOLE_SLOTS
  <2>1. log_tail' = log_tail /\ Waiting # LOG_CONSOLE_SLOTS
    BY <1>1, <1>2, <1>6, Sizes
  <2>2. Waiting' = Waiting + 1
    <3>1. Apart(log_head, log_tail) + 1 < WORD
      BY <1>1, <1>6, Sizes
    <3> QED
      BY <1>1, <1>2, <1>5, <2>1, <3>1, ApartAfterHead
  <2>3. Messages' = Append(Messages, m)
    <3>1. Ring([log_msg EXCEPT ![Spot(log_head)] = m], log_tail, Apart(log_head, log_tail) + 1)
            = Append(Ring(log_msg, log_tail, Apart(log_head, log_tail)), m)
      <4>1. Apart(log_head, log_tail) < LOG_CONSOLE_SLOTS
        BY <1>1, <1>6
      <4>2. /\ log_msg \in [Place -> Stored] /\ log_head \in Counter /\ log_tail \in Counter
            /\ m \in Stored
        BY <1>1, <1>3
      <4> QED
        BY <4>1, <4>2, RingAppend
    <3>2. Messages' = Ring(log_msg', log_tail', Waiting')
      BY DEF Messages
    <3>3. Messages = Ring(log_msg, log_tail, Waiting)
      BY DEF Messages
    <3> QED
      BY <1>1, <1>2, <2>1, <2>2, <3>1, <3>2, <3>3
  <2> QED
    BY <1>1, <1>4, <2>1, <2>2, <2>3
<1>7. CASE Waiting = LOG_CONSOLE_SLOTS
  <2> DEFINE t == After(log_tail)
  <2>1. log_tail' = t /\ t \in Counter /\ log_head # log_tail
    BY <1>1, <1>2, <1>3, <1>7, ApartZero, Sizes
  <2>2. Apart(log_head, t) = LOG_CONSOLE_SLOTS - 1
    BY <1>1, <1>7, <2>1, ApartAfterTail
  <2> HIDE DEF t
  <2>3. Apart(After(log_head), t) = LOG_CONSOLE_SLOTS
    <3>1. Apart(log_head, t) + 1 = LOG_CONSOLE_SLOTS
      BY <2>2, Sizes
    <3>2. Apart(log_head, t) + 1 < WORD
      BY <3>1, Sizes
    <3> QED
      BY <1>1, <2>1, <3>1, <3>2, ApartAfterHead
  <2>4. Waiting' = Waiting
    BY <1>2, <1>5, <1>7, <2>1, <2>3
  <2>5. Ring(log_msg, t, LOG_CONSOLE_SLOTS - 1) = Tail(Messages)
    BY <1>1, <1>7, Sizes, RingTail DEF Messages, t
  <2>6. Ring(log_msg', t, Apart(log_head, t) + 1)
          = Append(Ring(log_msg, t, Apart(log_head, t)), m)
    <3>1. Apart(log_head, t) < LOG_CONSOLE_SLOTS
      BY <2>2, Sizes
    <3> QED
      BY <1>1, <1>2, <1>3, <2>1, <3>1, RingAppend
  <2>7. Apart(log_head, t) + 1 = LOG_CONSOLE_SLOTS
    BY <2>2, Sizes
  <2>8. Messages' = Append(Tail(Messages), m)
    BY <1>7, <2>1, <2>2, <2>4, <2>5, <2>6, <2>7 DEF Messages
  <2> QED
    BY <1>1, <1>4, <1>7, <2>4, <2>8
<1> QED
  BY <1>1, <1>6, <1>7, Sizes

\* Core 0 takes the oldest.
LEMMA Taken ==
  ASSUME IInv, LogStage
  PROVE  /\ log_tail' \in Counter /\ Waiting' = Waiting - 1 /\ Waiting > 0
         /\ Messages # << >> /\ Messages' = Tail(Messages)
         /\ cdc_out' = Head(Messages) /\ cdc_out' \in Message
         /\ cdc_out_len' = Length[cdc_out'] /\ cdc_out_pos' = 0 /\ Length[cdc_out'] \in Nat \ {0}
<1>1. /\ log_msg \in [Place -> Stored] /\ log_head \in Counter /\ log_tail \in Counter
      /\ Waiting = Apart(log_head, log_tail) /\ Waiting \in Nat
      /\ Waiting = 0 <=> log_head = log_tail
      /\ Messages = << >> <=> Waiting = 0
      /\ Messages \in Seq(Stored) /\ Len(Messages) = Waiting
  BY WaitingIs DEF IInv, LogTypeOK
<1>2. /\ log_head # log_tail /\ log_tail' = After(log_tail)
      /\ UNCHANGED <<log_msg, log_head>>
      /\ cdc_out' = log_msg[Spot(log_tail)]
      /\ cdc_out_len' = Length[log_msg[Spot(log_tail)]] /\ cdc_out_pos' = 0
  BY DEF LogStage, Load, After, Spot
<1>3. Waiting \in Nat \ {0} /\ log_tail' \in Counter
  BY <1>1, <1>2, AfterIs
<1>4. Waiting' = Waiting - 1
  <2>1. Waiting' = Apart(log_head', log_tail')
    BY DEF Waiting, Apart
  <2> QED
    BY <1>1, <1>2, <2>1, ApartAfterTail
<1>5. Messages' = Tail(Messages) /\ Head(Messages) = log_msg[Spot(log_tail)]
  BY <1>1, <1>2, <1>3, <1>4, RingTail DEF Messages
<1>6. Head(Messages) = Messages[1] /\ 1 \in 1..Waiting
  BY <1>1, <1>3
<1>7. cdc_out' \in Message
  BY <1>2, <1>5, <1>6 DEF IInv, HoldsMessages
<1> QED
  BY <1>1, <1>2, <1>3, <1>4, <1>5, <1>7, LogAssumption

LEMMA MessagesKept ==
  ASSUME UNCHANGED ringVars
  PROVE  Waiting' = Waiting /\ Messages' = Messages
  BY DEF ringVars, Waiting, Messages

LEMMA InitIInv == LogInit => IInv
<1> SUFFICES ASSUME LogInit PROVE IInv
  OBVIOUS
<1>1. 0 \in Counter /\ Apart(0, 0) = 0
  BY Sizes, ApartZero DEF Counter
<1>2. Waiting = 0
  BY <1>1 DEF LogInit, Waiting, Apart
<1>3. LogTypeOK
  <2>1. log_msg \in [Place -> Message \cup {NoMessage}]
    BY DEF LogInit
  <2>2. log_head \in Counter /\ log_tail \in Counter
    BY <1>1 DEF LogInit
  <2>3. Waiting <= LOG_CONSOLE_SLOTS /\ cdc_out_len \in Nat /\ cdc_out_pos \in 0..cdc_out_len
    BY <1>2, Sizes DEF LogInit
  <2>4. /\ cdc_out \in Message \cup {NoMessage} /\ printed \in Message \cup {NoMessage}
        /\ cdc_connected \in BOOLEAN
    BY DEF LogInit
  <2> QED
    BY <2>1, <2>2, <2>3, <2>4 DEF LogTypeOK
<1>4. HoldsMessages
  <2>1. ~Pending
    BY DEF LogInit, Pending
  <2>2. \A k \in 1..Waiting : FALSE
    BY <1>2
  <2> QED
    BY <2>1, <2>2 DEF HoldsMessages
<1> QED
  BY <1>3, <1>4 DEF IInv

LEMMA PushKeeps ==
  ASSUME IInv, NEW m \in Message, LogPush(m)
  PROVE  IInv'
<1>1. Waiting \in Nat /\ Waiting <= LOG_CONSOLE_SLOTS /\ Messages \in Seq(Stored)
      /\ Len(Messages) = Waiting /\ (Messages = << >> <=> Waiting = 0)
  BY WaitingIs DEF IInv
<1>2. UNCHANGED <<cdc_out, cdc_out_len, cdc_out_pos, cdc_connected, printed>>
  BY DEF LogPush, stageVars
<1>3. LogTypeOK'
  BY <1>1, <1>2, Pushed, Sizes DEF IInv, LogTypeOK, Stored
<1>4. \A k \in 1..Waiting' : Messages'[k] \in Message
  <2>1. \A k \in 1..Waiting : Messages[k] \in Message
    BY DEF IInv, HoldsMessages
  <2>2. CASE Len(Messages) # LOG_CONSOLE_SLOTS
    <3>1. Messages' = Append(Messages, m) /\ Waiting' = Waiting + 1
      BY <1>1, <2>2, Pushed
    <3> QED
      BY <1>1, <2>1, <3>1
  <2>3. CASE Len(Messages) = LOG_CONSOLE_SLOTS
    <3>1. Messages' = Append(Tail(Messages), m) /\ Waiting' = Waiting
      BY <1>1, <2>3, Pushed
    <3>2. Messages # << >>
      BY <1>1, <2>3, Sizes
    <3>3. /\ Tail(Messages) \in Seq(Stored) /\ Len(Tail(Messages)) = Waiting - 1
          /\ \A k \in 1..(Waiting - 1) : Tail(Messages)[k] = Messages[k + 1]
      BY <1>1, <3>2
    <3>4. \A k \in 1..(Waiting - 1) : Tail(Messages)[k] \in Message
      BY <1>1, <2>1, <3>3
    <3> QED
      BY <1>1, <3>1, <3>3, <3>4
  <2> QED
    BY <2>2, <2>3
<1> QED
  BY <1>2, <1>3, <1>4 DEF IInv, HoldsMessages, Pending

LEMMA StageKeeps ==
  ASSUME IInv, LogStage
  PROVE  IInv'
<1>1. /\ Waiting \in Nat /\ Waiting <= LOG_CONSOLE_SLOTS
      /\ Messages \in Seq(Stored) /\ Len(Messages) = Waiting
  BY WaitingIs DEF IInv
<1>2. LogTypeOK'
  BY <1>1, Taken, Sizes DEF IInv, LogTypeOK, LogStage
<1>3. \A k \in 1..Waiting' : Messages'[k] \in Message
  <2>1. \A k \in 1..(Waiting - 1) : Tail(Messages)[k] = Messages[k + 1]
    BY <1>1, Taken
  <2> QED
    BY <1>1, <2>1, Taken DEF IInv, HoldsMessages
<1> QED
  BY <1>2, <1>3, Taken DEF IInv, HoldsMessages

\* Steps that leave the ring alone.
LEMMA OutsideKeeps ==
  ASSUME IInv, UNCHANGED ringVars,
         \/ UNCHANGED <<stageVars, cdc_connected, printed>>
         \/ LogReset \/ PortChanges \/ \E n \in 1..(cdc_out_len - cdc_out_pos) : LogFlush(n)
  PROVE  IInv'
<1>1. LogTypeOK'
  <2> USE DEF IInv
  <2>1. /\ log_msg' \in [Place -> Message \cup {NoMessage}] /\ log_head' \in Counter
        /\ log_tail' \in Counter /\ Waiting' <= LOG_CONSOLE_SLOTS
    BY MessagesKept DEF LogTypeOK, ringVars
  <2>2. cdc_out' = cdc_out
    BY DEF stageVars, LogReset, PortChanges, LogFlush
  <2>3. cdc_connected' \in BOOLEAN
    BY DEF LogTypeOK, LogReset, PortChanges, LogFlush
  <2>4. printed' \in Message \cup {NoMessage}
    BY DEF LogTypeOK, LogReset, PortChanges, LogFlush
  <2>5. cdc_out_len' \in Nat /\ cdc_out_pos' \in 0..cdc_out_len'
    <3>1. CASE \E n \in 1..(cdc_out_len - cdc_out_pos) : LogFlush(n)
      BY <3>1 DEF LogTypeOK, LogFlush, Streamed
    <3>2. CASE UNCHANGED stageVars
      BY <3>2 DEF LogTypeOK, stageVars
    <3>3. CASE LogReset
      BY <3>3 DEF LogReset
    <3> QED
      BY <3>1, <3>2, <3>3 DEF PortChanges
  <2> QED
    BY <2>1, <2>2, <2>3, <2>4, <2>5 DEF LogTypeOK
<1>2. Pending' => Pending /\ cdc_out' = cdc_out
  BY DEF IInv, LogTypeOK, Pending, stageVars, LogReset, PortChanges, LogFlush
<1> QED
  BY <1>1, <1>2, MessagesKept DEF IInv, HoldsMessages

LEMMA NextKeeps == IInv /\ [LogNext]_logVars => IInv'
<1> SUFFICES ASSUME IInv, [LogNext]_logVars PROVE IInv'
  OBVIOUS
<1>1. CASE LogReset \/ PortChanges \/ LogFlushSome \/ UNCHANGED logVars
  <2>1. UNCHANGED ringVars
    BY <1>1 DEF LogReset, PortChanges, LogFlushSome, LogFlush, logVars
  <2> QED
    BY <1>1, <2>1, OutsideKeeps DEF LogFlushSome, logVars
<1> QED
  BY <1>1, PushKeeps, StageKeeps DEF LogNext

\* The counters, the ring and the staging buffer have their types, and the difference of
\* the wrapped counters never exceeds the ring's size (log_console.c:35-75).
THEOREM LogTyped == LogSpec => []LogTypeOK
<1>1. IInv => LogTypeOK
  BY DEF IInv
<1> QED
  BY <1>1, InitIInv, NextKeeps, PTL DEF LogSpec

-------------------------------------------------------------------------------
(***************************************************************************)
(* The refinement                                                          *)
(***************************************************************************)

Staged == IF Pending THEN cdc_out ELSE NoMessage

\* The abstract variables in the terms of the lemmas.
LEMMA FifoInit == LogInit => Fifo!Init
<1> SUFFICES ASSUME LogInit PROVE Fifo!Init
  OBVIOUS
<1>1. LogTypeOK /\ log_head = log_tail
  BY InitIInv DEF IInv, LogInit
<1>2. Messages = << >>
  BY <1>1, WaitingIs
<1> QED
  BY <1>2 DEF Fifo!Init, Messages, Ring, Spot, LogInit, Pending

LEMMA FifoNext == IInv /\ [LogNext]_logVars => [Fifo!Next]_<<Messages, Staged, printed>>
<1> SUFFICES ASSUME IInv, [LogNext]_logVars
             PROVE  \/ Fifo!Next
                    \/ Messages' = Messages /\ Staged' = Staged /\ printed' = printed
  OBVIOUS
<1> USE DEF Messages, Ring, Spot, Staged
<1>1. ASSUME NEW m \in Message, LogPush(m) PROVE Fifo!Push(m)
  <2>1. UNCHANGED <<Staged, printed>>
    BY <1>1 DEF LogPush, stageVars, Pending
  <2> QED
    BY <1>1, <2>1, Pushed DEF Fifo!Push
<1>2. CASE LogStage
  <2>1. Staged = NoMessage /\ printed' = printed
    BY <1>2 DEF LogStage
  <2>2. Staged' = Head(Messages)
    <3>1. 0 < Length[cdc_out'] /\ cdc_out_pos' = 0 /\ cdc_out_len' = Length[cdc_out']
      BY <1>2, Taken
    <3>2. Pending'
      BY <3>1 DEF Pending
    <3> QED
      BY <1>2, <3>2, Taken
  <2>3. Fifo!Take
    BY <1>2, <2>1, <2>2, Taken DEF Fifo!Take
  <2> QED
    BY <2>3 DEF Fifo!Next
<1>3. CASE LogReset
  <2>1. Staged' = NoMessage /\ printed' = printed /\ Messages' = Messages
    BY <1>3, MessagesKept DEF LogReset, Pending
  <2>2. Fifo!GiveUp
    BY <2>1 DEF Fifo!GiveUp
  <2> QED
    BY <2>2 DEF Fifo!Next
<1>4. ASSUME NEW n \in 1..(cdc_out_len - cdc_out_pos), LogFlush(n)
      PROVE  Fifo!Next \/ (Messages' = Messages /\ Staged' = Staged /\ printed' = printed)
  <2>1. /\ Messages' = Messages /\ cdc_out' = cdc_out /\ cdc_out_len' = cdc_out_len
        /\ Staged = cdc_out /\ cdc_out # NoMessage
    BY <1>4, MessagesKept, LogAssumption DEF LogFlush, IInv, HoldsMessages
  <2>2. cdc_out_pos' \in Nat /\ cdc_out_pos' <= cdc_out_len /\ cdc_out_len \in Nat
    BY <1>4 DEF LogFlush, Streamed, IInv, LogTypeOK
  <2>3. CASE cdc_out_pos' = cdc_out_len
    <3>1. Staged' = NoMessage /\ printed' = cdc_out
      BY <1>4, <2>1, <2>2, <2>3 DEF LogFlush, Pending
    <3>2. Fifo!Finish
      BY <2>1, <3>1 DEF Fifo!Finish
    <3> QED
      BY <3>2 DEF Fifo!Next
  <2>4. CASE cdc_out_pos' # cdc_out_len
    BY <1>4, <2>1, <2>2, <2>4 DEF LogFlush, Pending
  <2> QED
    BY <2>3, <2>4
<1>5. CASE PortChanges \/ UNCHANGED logVars
  <2>1. UNCHANGED ringVars /\ UNCHANGED <<stageVars, printed>>
    BY <1>5 DEF PortChanges, logVars
  <2> QED
    BY <2>1, MessagesKept DEF stageVars, Pending
<1> QED
  BY <1>1, <1>2, <1>3, <1>4, <1>5 DEF LogNext, LogFlushSome, Fifo!Next

\* Messages come out whole, in order and once; a full ring loses its oldest message and
\* a disconnection the staged one, for a ring and counters of any size
\* (log_console.c:35-127).
THEOREM LossyFifoImplemented == LogSpec => ImplementsLossyFifo
<1>1. [Fifo!Next]_<<Messages, Staged, printed>>
        => [Fifo!Next]_<<[k \in 1..Waiting |-> log_msg[(log_tail + k - 1) % LOG_CONSOLE_SLOTS]],
                         IF Pending THEN cdc_out ELSE NoMessage, printed>>
  BY DEF Messages, Ring, Spot, Staged
<1>2. IInv /\ [LogNext]_logVars
        => [Fifo!Next]_<<[k \in 1..Waiting |-> log_msg[(log_tail + k - 1) % LOG_CONSOLE_SLOTS]],
                         IF Pending THEN cdc_out ELSE NoMessage, printed>>
  BY <1>1, FifoNext
<1> QED
  BY <1>2, InitIInv, NextKeeps, FifoInit, PTL DEF LogSpec, ImplementsLossyFifo, Fifo!Spec

===============================================================================
