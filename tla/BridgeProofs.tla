------------------------------ MODULE BridgeProofs ------------------------------
(***************************************************************************)
(* What the two cores and the PC keep to, for any number of slots, clients *)
(* and reports per queue.                                                  *)
(***************************************************************************)
EXTENDS Bridge, FunctionTheorems, FiniteSetTheorems, SequenceTheorems, TLAPS

-------------------------------------------------------------------------------
(***************************************************************************)
(* Snapshots and positions                                                 *)
(***************************************************************************)

LEMMA SlotsFinite == IsFiniteSet(Slot) /\ Cardinality(Slot) = MAX_HID_DEVICES
  BY FS_Interval, DescriptorsAssumption DEF Slot

\* There are no more entries than slots.
LEMMA SnapshotFinite ==
  ASSUME NEW S \in Snapshot
  PROVE  /\ IsFiniteSet(S)
         /\ Cardinality(S) \in 0..MAX_HID_DEVICES
<1> DEFINE f == [d \in S |-> d.slot]
<1>1. f \in [S -> Slot]
  BY DEF Snapshot
<1>2. f \in Injection(S, Slot)
  BY <1>1 DEF Snapshot, Injection, IsInjective
<1>3. IsFiniteSet(S) /\ Cardinality(S) <= MAX_HID_DEVICES
  BY <1>2, SlotsFinite, FS_Injection
<1> QED
  BY <1>3, FS_CardinalityType, DescriptorsAssumption

\* What is published: an entry for each READY slot.
LEMMA SnapshotOfReady ==
  ASSUME NEW r \in [Slot -> Cid \cup {NoCid}]
  PROVE  /\ SnapshotOf(r) \in Snapshot
         /\ \A e \in SnapshotOf(r) : e.slot \in Slot /\ r[e.slot] = e.hids_cid
  BY DEF SnapshotOf, Snapshot

LEMMA EntryTyped ==
  ASSUME NEW S \in Snapshot, NEW e \in S
  PROVE  e.slot \in Slot /\ e.hids_cid \in Cid /\ e.hids_cid # NoCid /\ e.slot \in Int
  BY DescriptorsAssumption DEF Snapshot, Slot

\* Entries have positions of their own, below the number of entries.
LEMMA PositionsDiffer ==
  ASSUME NEW S \in Snapshot, NEW d \in S, NEW e \in S, d.slot < e.slot
  PROVE  PositionOf(S, d) < PositionOf(S, e)
<1> DEFINE D == {x \in S : x.slot < d.slot}
           E == {x \in S : x.slot < e.slot}
<1>1. \A x \in S : x.slot \in Int
  BY EntryTyped
<1>2. D \in SUBSET E /\ d \in E /\ d \notin D
  BY <1>1
<1>3. IsFiniteSet(E)
  BY SnapshotFinite, FS_Subset
<1>4. Cardinality(D) <= Cardinality(E) /\ Cardinality(D) # Cardinality(E)
  BY <1>2, <1>3, FS_Subset
<1>5. Cardinality(D) \in Nat /\ Cardinality(E) \in Nat
  BY <1>2, <1>3, FS_Subset, FS_CardinalityType
<1> QED
  BY <1>4, <1>5 DEF PositionOf

LEMMA PositionBelow ==
  ASSUME NEW S \in Snapshot, NEW e \in S
  PROVE  PositionOf(S, e) \in 0..(Cardinality(S) - 1)
<1> DEFINE E == {x \in S : x.slot < e.slot}
<1>1. e \notin E /\ E \in SUBSET S
  BY EntryTyped
<1>2. IsFiniteSet(S) /\ IsFiniteSet(E)
  BY <1>1, SnapshotFinite, FS_Subset
<1>3. Cardinality(E) <= Cardinality(S) /\ Cardinality(E) # Cardinality(S)
  BY <1>1, <1>2, FS_Subset
<1>4. Cardinality(E) \in Nat /\ Cardinality(S) \in Nat
  BY <1>2, FS_CardinalityType
<1> QED
  BY <1>3, <1>4 DEF PositionOf

LEMMA PositionInjective ==
  ASSUME NEW S \in Snapshot
  PROVE  [e \in S |-> PositionOf(S, e)] \in Injection(S, 0..(Cardinality(S) - 1))
<1> DEFINE f == [e \in S |-> PositionOf(S, e)]
<1>1. f \in [S -> 0..(Cardinality(S) - 1)]
  BY PositionBelow
<1>2. ASSUME NEW d \in S, NEW e \in S, f[d] = f[e] PROVE d = e
  <2>1. PositionOf(S, d) = PositionOf(S, e) /\ PositionOf(S, d) \in Int
    BY <1>2, PositionBelow
  <2>2. ~(d.slot < e.slot) /\ ~(e.slot < d.slot)
    BY <2>1, PositionsDiffer
  <2>3. d.slot = e.slot
    BY <2>2, EntryTyped
  <2> QED
    BY <2>3 DEF Snapshot
<1> QED
  BY <1>1, <1>2 DEF Injection, IsInjective

\* Every position is somebody's, and At finds whose.
LEMMA AtIsMember ==
  ASSUME NEW S \in Snapshot, NEW p \in 0..(Cardinality(S) - 1)
  PROVE  At(S, p) \in S /\ PositionOf(S, At(S, p)) = p
<1> DEFINE f == [e \in S |-> PositionOf(S, e)]
           n == Cardinality(S)
           P == 0..(n - 1)
<1>1. n \in Nat
  BY SnapshotFinite
<1>2. IsFiniteSet(P) /\ Cardinality(P) = n
  BY <1>1, FS_Interval
<1>3. f \in Injection(S, P)
  BY PositionInjective
<1>4. f \in Surjection(S, P)
  <2> HIDE DEF f, P
  <2> QED
    BY <1>2, <1>3, FS_Injection
<1>5. \E e \in S : f[e] = p
  BY <1>4 DEF Surjection
<1>6. \E e \in S : PositionOf(S, e) = p
  BY <1>5
<1> QED
  BY <1>6 DEF At

LEMMA AtPosition ==
  ASSUME NEW S \in Snapshot, NEW e \in S
  PROVE  At(S, PositionOf(S, e)) = e
<1> DEFINE d == At(S, PositionOf(S, e))
           f == [x \in S |-> PositionOf(S, x)]
<1>1. d \in S /\ PositionOf(S, d) = PositionOf(S, e)
  BY PositionBelow, AtIsMember
<1>2. f \in Injection(S, 0..(Cardinality(S) - 1))
  BY PositionInjective
<1>3. f[d] = f[e]
  BY <1>1
<1> HIDE DEF f, d
<1>4. d = e
  BY <1>1, <1>2, <1>3 DEF Injection, IsInjective
<1> QED
  BY <1>4 DEF d

\* Whatever Core 1 stores, a position has an owner, and one that is a client is the
\* client of the entry there.
LEMMA DescriptorTyped ==
  ASSUME NEW S \in Snapshot, NEW present, NEW p \in Nat
  PROVE  /\ ReportDescriptor(S, present, p) \in Owner
         /\ ReportDescriptor(S, present, p) \in Cid =>
              ReportDescriptor(S, present, p) = At(S, p).hids_cid
<1>1. Cardinality(S) \in Nat
  BY SnapshotFinite
<1>2. p < Cardinality(S) => At(S, p) \in S
  BY <1>1, AtIsMember
<1>3. p < Cardinality(S) => At(S, p).hids_cid \in Cid
  BY <1>2, EntryTyped
<1>4. Fallback \notin Cid
  BY DescriptorsAssumption
<1> QED
  BY <1>3, <1>4 DEF ReportDescriptor, Owner

-------------------------------------------------------------------------------
(***************************************************************************)
(* Sequences of interfaces                                                 *)
(***************************************************************************)

LEMMA InterfacesAre ==
  ASSUME NEW O, NEW s
  PROVE  s \in Interfaces(O) <=> s \in Seq(O) /\ Len(s) <= MAX_HID_DEVICES
<1>1. ASSUME s \in Interfaces(O) PROVE s \in Seq(O) /\ Len(s) <= MAX_HID_DEVICES
  <2>1. PICK n \in 0..MAX_HID_DEVICES : s \in [1..n -> O]
    BY <1>1 DEF Interfaces
  <2>2. n \in Nat /\ n <= MAX_HID_DEVICES
    BY <2>1, DescriptorsAssumption
  <2>3. s \in Seq(O) /\ Len(s) = n
    BY <2>1, <2>2
  <2> QED
    BY <2>2, <2>3
<1>2. ASSUME s \in Seq(O), Len(s) <= MAX_HID_DEVICES PROVE s \in Interfaces(O)
  <2>1. Len(s) \in 0..MAX_HID_DEVICES /\ s \in [1..Len(s) -> O]
    BY <1>2, DescriptorsAssumption
  <2> QED
    BY <2>1 DEF Interfaces
<1> QED
  BY <1>1, <1>2

LEMMA NoInterfaces == ASSUME NEW O PROVE << >> \in Interfaces(O)
<1>1. << >> \in Seq(O) /\ Len(<< >>) = 0
  BY EmptySeq
<1>2. Len(<< >>) <= MAX_HID_DEVICES
  BY <1>1, DescriptorsAssumption
<1> QED
  BY <1>1, <1>2, InterfacesAre

\* One more, if there is room.
LEMMA OneInterfaceMore ==
  ASSUME NEW O, NEW s \in Interfaces(O), NEW o \in O, Len(s) < MAX_HID_DEVICES
  PROVE  /\ Append(s, o) \in Interfaces(O)
         /\ Len(Append(s, o)) = Len(s) + 1
<1>1. s \in Seq(O)
  BY InterfacesAre
<1>2. Append(s, o) \in Seq(O) /\ Len(Append(s, o)) = Len(s) + 1 /\ Len(s) \in Nat
  BY <1>1
<1>3. Len(Append(s, o)) <= MAX_HID_DEVICES
  BY <1>2, DescriptorsAssumption
<1> QED
  BY <1>2, <1>3, InterfacesAre

-------------------------------------------------------------------------------
(***************************************************************************)
(* What a step that leaves some variables alone leaves of the invariant    *)
(***************************************************************************)

LEMMA EnumerationKept ==
  ASSUME Enumeration, UNCHANGED <<pc, usb_reinit_state, building, attached, mounted, host, config, seen>>
  PROVE  Enumeration'
  BY DEF Enumeration, NumInterfaces

LEMMA SnapshotKept ==
  ASSUME SnapshotTracks, UNCHANGED <<core1Vars, ready_snapshot>>
  PROVE  SnapshotTracks'
  BY DEF SnapshotTracks, core1Vars

LEMMA OwnersKept ==
  ASSUME QueuesOwned, Unsorted => Unsorted',
         UNCHANGED <<core1Vars, ready_snapshot, queue>>
  PROVE  QueuesOwned'
  BY DEF QueuesOwned, core1Vars

LEMMA LossKept ==
  ASSUME LossIsKnown, pc = "act" => pc' = "act" \/ host' # "done",
         UNCHANGED <<core1Vars, ready_snapshot>>, host' = "done" => host = "done"
  PROVE  LossIsKnown'
  BY DEF LossIsKnown, core1Vars

LEMMA NoCopy ==
  ASSUME pc' # "forward"
  PROVE  CopyOwned'
  BY DEF CopyOwned

\* Core 0 goes on, and takes no request.
LEMMA AgreementKept ==
  ASSUME QuietAgrees, pc = "act" => host' \notin {"set", "done"},
         UNCHANGED <<core1Vars, ready_snapshot, g_usb_reinit_request>>, pc' # "forward",
         seen' = seen, host' \in {"set", "done"} => host' = host
  PROVE  QuietAgrees'
<1>1. Present' = Present
  BY DEF Present, core1Vars
<1> QED
  BY <1>1 DEF QuietAgrees, Quiet, core1Vars

-------------------------------------------------------------------------------
(***************************************************************************)
(* Core 1                                                                  *)
(***************************************************************************)

LEMMA GainKeeps ==
  ASSUME IInv, NEW i \in Slot, NEW c \in Cid, Gain(i, c)
  PROVE  IInv'
<1> USE DEF outsideCore1, core0Vars, sharedVars, usbVars, hostVars
<1>1. TypeOK'
  BY DEF IInv, TypeOK, Gain
<1>2. Enumeration'
  BY EnumerationKept DEF IInv, Gain
<1>3. SnapshotTracks'
  <2>1. ready_snapshot = SnapshotOf(ready) /\ ready \in [Slot -> Cid \cup {NoCid}]
    BY DEF IInv, TypeOK, SnapshotTracks, Gain
  <2>2. \A e \in ready_snapshot : e.slot \in Slot /\ ready[e.slot] = e.hids_cid /\ e.hids_cid # NoCid
    BY <2>1, SnapshotOfReady, EntryTyped
  <2> QED
    BY <2>1, <2>2 DEF IInv, SnapshotTracks, Gain
<1>4. QueuesOwned'
  <2>1. ASSUME ~Unsorted, i \notin vacated PROVE DOMAIN queue[i] = {}
    <3>1. \A k \in DOMAIN queue[i] : queue[i][k] = NoCid
      BY <2>1 DEF IInv, QueuesOwned, Gain
    <3>2. queue[i] \in Seq(Cid)
      BY DEF IInv, TypeOK
    <3>3. \A k \in DOMAIN queue[i] : queue[i][k] \in Cid
      BY <3>2
    <3> QED
      BY <3>1, <3>3, DescriptorsAssumption
  <2> QED
    BY <2>1 DEF IInv, TypeOK, QueuesOwned, Unsorted, Gain
<1>5. LossIsKnown'
  BY DEF IInv, TypeOK, LossIsKnown, Gain
<1>6. CopyOwned'
  <2>1. \A e \in snap : e.slot \in Slot /\ e.hids_cid # NoCid
    BY EntryTyped DEF IInv, TypeOK
  <2> QED
    BY <2>1 DEF IInv, TypeOK, CopyOwned, Gain
<1>7. QuietAgrees'
  BY DEF QuietAgrees, Quiet, Gain
<1> QED
  BY <1>1, <1>2, <1>3, <1>4, <1>5, <1>6, <1>7 DEF IInv

LEMMA LoseKeeps ==
  ASSUME IInv, NEW i \in Slot, Lose(i)
  PROVE  IInv'
<1> USE DEF outsideCore1, core0Vars, sharedVars, usbVars, hostVars
<1>1. TypeOK'
  BY DEF IInv, TypeOK, Lose
<1>2. Enumeration'
  BY EnumerationKept DEF IInv, Lose
<1>3. SnapshotTracks'
  <2>1. ready_snapshot \in Snapshot /\ \A e \in ready_snapshot : e.slot \in Slot
    BY EntryTyped DEF IInv, TypeOK
  <2> QED
    BY <2>1 DEF IInv, TypeOK, SnapshotTracks, Lose
<1>4. QueuesOwned'
  BY DEF IInv, TypeOK, QueuesOwned, Unsorted, Lose
<1>5. LossIsKnown'
  BY DEF IInv, TypeOK, LossIsKnown, Lose
<1>6. CopyOwned'
  <2>1. \A e \in snap : e.slot \in Slot /\ e.hids_cid # NoCid
    BY EntryTyped DEF IInv, TypeOK
  <2> QED
    BY <2>1 DEF IInv, TypeOK, CopyOwned, Lose
<1>7. QuietAgrees'
  BY DEF QuietAgrees, Quiet, Lose
<1> QED
  BY <1>1, <1>2, <1>3, <1>4, <1>5, <1>6, <1>7 DEF IInv

LEMMA FailAttemptKeeps ==
  ASSUME IInv, FailAttempt
  PROVE  IInv'
<1> USE DEF outsideCore1, core0Vars, sharedVars, usbVars, hostVars
<1>1. TypeOK'
  BY DEF IInv, TypeOK, FailAttempt
<1>2. Enumeration'
  BY EnumerationKept DEF IInv, FailAttempt
<1>3. SnapshotTracks'
  BY DEF IInv, SnapshotTracks, FailAttempt
<1>4. QueuesOwned' /\ LossIsKnown' /\ CopyOwned'
  BY DEF IInv, QueuesOwned, Unsorted, LossIsKnown, CopyOwned, FailAttempt
<1>5. QuietAgrees'
  BY DEF QuietAgrees, Quiet, FailAttempt
<1> QED
  BY <1>1, <1>2, <1>3, <1>4, <1>5 DEF IInv

LEMMA PublishKeeps ==
  ASSUME IInv, Publish
  PROVE  IInv'
<1> USE DEF outsideCore1, core0Vars, usbVars, hostVars
<1>a. /\ ready \in [Slot -> Cid \cup {NoCid}] /\ ready' = ready
      /\ ready_snapshot' = SnapshotOf(ready) /\ ready_snapshot' \in Snapshot
      /\ \A e \in ready_snapshot' :
           e.slot \in Slot /\ ready[e.slot] = e.hids_cid /\ e.hids_cid # NoCid
  BY SnapshotOfReady, EntryTyped DEF IInv, TypeOK, Publish
<1>1. TypeOK'
  BY <1>a DEF IInv, TypeOK, Publish
<1>2. Enumeration'
  BY EnumerationKept DEF IInv, Publish
<1>3. SnapshotTracks'
  BY <1>a DEF IInv, SnapshotTracks, Publish
<1>4. QueuesOwned'
  <2>1. \A e \in ready_snapshot' : e.slot \in Slot \ vacated
    BY <1>a DEF IInv, SnapshotTracks
  <2> QED
    BY <1>a, <2>1 DEF IInv, QueuesOwned, Unsorted, Publish
<1>5. LossIsKnown'
  BY <1>a DEF LossIsKnown
<1>6. CopyOwned'
  BY <1>a DEF IInv, CopyOwned, Publish
<1>7. QuietAgrees'
  BY DEF QuietAgrees, Quiet, Publish
<1> QED
  BY <1>1, <1>2, <1>3, <1>4, <1>5, <1>6, <1>7 DEF IInv

LEMMA RaiseKeeps ==
  ASSUME IInv, Raise
  PROVE  IInv'
<1> USE DEF outsideCore1, core0Vars, usbVars, hostVars
<1>1. TypeOK'
  BY DEF IInv, TypeOK, Raise
<1>2. Enumeration'
  BY EnumerationKept DEF IInv, Raise
<1>3. SnapshotTracks'
  BY DEF IInv, SnapshotTracks, Raise
<1>4. QueuesOwned' /\ LossIsKnown' /\ CopyOwned'
  BY DEF IInv, QueuesOwned, Unsorted, LossIsKnown, CopyOwned, Raise
<1>5. QuietAgrees'
  BY DEF QuietAgrees, Quiet, Raise
<1> QED
  BY <1>1, <1>2, <1>3, <1>4, <1>5 DEF IInv

LEMMA PushKeeps ==
  ASSUME IInv, NEW i \in Slot, Push(i)
  PROVE  IInv'
<1> USE DEF outsideCore1, core0Vars, usbVars, hostVars, core1Vars
<1> DEFINE new == Append(queue[i], ready[i])
<1>a. /\ queue[i] \in Seq(Cid) /\ ready[i] \in Cid /\ i \notin vacated
      /\ queue' = [queue EXCEPT ![i] = new] /\ Len(queue[i]) < Capacity
  BY DEF IInv, TypeOK, SnapshotTracks, Push
<1>b. /\ new \in Seq(Cid) /\ Len(new) = Len(queue[i]) + 1 /\ Len(queue[i]) \in Nat
      /\ \A k \in DOMAIN new : (k \in DOMAIN queue[i] /\ new[k] = queue[i][k]) \/ new[k] = ready[i]
  BY <1>a
<1>c. Len(new) <= Capacity
  BY <1>a, <1>b, BridgeAssumption
<1> HIDE DEF new
<1>1. TypeOK'
  BY <1>a, <1>b, <1>c DEF IInv, TypeOK, Push
<1>2. Enumeration'
  BY EnumerationKept DEF IInv, Push
<1>3. SnapshotTracks'
  BY SnapshotKept DEF IInv, Push
<1>4. QueuesOwned'
  <2>1. \A e \in ready_snapshot : e.slot = i => ready[i] = e.hids_cid
    BY <1>a, DescriptorsAssumption DEF IInv, SnapshotTracks
  <2>2. \A e \in ready_snapshot : e.slot \in Slot
    BY EntryTyped DEF IInv, TypeOK
  <2> QED
    BY <1>a, <1>b, <2>1, <2>2 DEF IInv, TypeOK, QueuesOwned, Unsorted, Push
<1>5. LossIsKnown'
  BY DEF IInv, LossIsKnown, Push
<1>6. CopyOwned'
  <2>1. \A e \in snap : e.slot \in Slot
    BY EntryTyped DEF IInv, TypeOK
  <2> QED
    BY <1>a, <1>b, <2>1, DescriptorsAssumption DEF IInv, TypeOK, CopyOwned, Push
<1>7. QuietAgrees'
  BY DEF IInv, QuietAgrees, Quiet, Present, Push
<1> QED
  BY <1>1, <1>2, <1>3, <1>4, <1>5, <1>6, <1>7 DEF IInv

-------------------------------------------------------------------------------
(***************************************************************************)
(* Core 0's main loop                                                      *)
(***************************************************************************)

LEMMA PollKeeps ==
  ASSUME IInv, Poll
  PROVE  IInv'
<1> USE DEF core1Vars, sharedVars, usbVars, hostVars, Goto, Settle
<1>1. TypeOK'
  BY DEF IInv, TypeOK, Poll
<1>2. Enumeration'
  BY DEF IInv, Enumeration, NumInterfaces, Poll
<1>3. SnapshotTracks'
  BY SnapshotKept DEF IInv, Poll
<1>4. QueuesOwned'
  BY OwnersKept DEF IInv, Unsorted, Poll
<1>5. LossIsKnown'
  BY LossKept DEF IInv, Poll
<1>6. CopyOwned'
  BY NoCopy DEF Poll
<1>7. QuietAgrees'
  BY AgreementKept DEF IInv, Poll
<1> QED
  BY <1>1, <1>2, <1>3, <1>4, <1>5, <1>6, <1>7 DEF IInv

LEMMA ClearKeeps ==
  ASSUME IInv, Clear
  PROVE  IInv'
<1> USE DEF usbVars, hostVars, Goto
<1>1. TypeOK'
  BY DEF IInv, TypeOK, Clear
<1>2. Enumeration'
  BY DEF IInv, Enumeration, NumInterfaces, Clear
<1>3. SnapshotTracks'
  BY DEF IInv, SnapshotTracks, Clear
<1>4. QueuesOwned' /\ LossIsKnown' /\ QuietAgrees'
  BY DEF QueuesOwned, Unsorted, LossIsKnown, QuietAgrees, Quiet, Clear
<1>5. CopyOwned'
  BY NoCopy DEF Clear
<1> QED
  BY <1>1, <1>2, <1>3, <1>4, <1>5 DEF IInv

\* Who may find a loss that a request has covered: not a host that keeps the device.
LEMMA DisconnectKeeps ==
  ASSUME IInv, Disconnect
  PROVE  IInv'
<1> USE DEF core1Vars, sharedVars, Goto
<1>1. TypeOK'
  BY NoInterfaces DEF IInv, TypeOK, Disconnect
<1>2. Enumeration'
  BY DEF IInv, Enumeration, NumInterfaces, NotBuilding, Disconnect
<1>3. SnapshotTracks'
  BY SnapshotKept DEF IInv, Disconnect
<1>4. QueuesOwned'
  BY DEF QueuesOwned, Unsorted, Disconnect
<1>5. LossIsKnown' /\ CopyOwned'
  BY DEF LossIsKnown, CopyOwned, Disconnect
<1>6. QuietAgrees'
  BY DEF IInv, QuietAgrees, Quiet, Disconnect
<1> QED
  BY <1>1, <1>2, <1>3, <1>4, <1>5, <1>6 DEF IInv

\* Queues that have just been cleared.
LEMMA ClearedQueues ==
  ASSUME queue' = [s \in Slot |-> << >>]
  PROVE  \A s \in Slot : DOMAIN queue'[s] = {} /\ queue'[s] \in Seq(Cid) /\ Len(queue'[s]) = 0
<1>1. DOMAIN << >> = {} /\ << >> \in Seq(Cid) /\ Len(<< >>) = 0
  BY EmptySeq
<1> QED
  BY <1>1

LEMMA ClearedOwned ==
  ASSUME queue' = [s \in Slot |-> << >>], ready_snapshot' \in Snapshot
  PROVE  QueuesOwned'
<1>1. \A e \in ready_snapshot' : e.slot \in Slot
  BY EntryTyped
<1> QED
  BY <1>1, ClearedQueues DEF QueuesOwned

LEMMA NoDisconnectKeeps ==
  ASSUME IInv, NoDisconnect
  PROVE  IInv'
<1> USE DEF core1Vars, hostVars, Goto, Settle, ClearAndConnect
<1>0. \/ usb_reinit_state = "WAIT_STABILIZATION" /\ queue' = queue
      \/ usb_reinit_state = "IDLE" /\ queue' = [s \in Slot |-> << >>]
  BY DEF IInv, TypeOK, NoDisconnect
<1>1. TypeOK'
  <2>1. queue' \in [Slot -> Seq(Cid)] /\ \A s \in Slot : Len(queue'[s]) <= Capacity
    BY <1>0, ClearedQueues, BridgeAssumption DEF IInv, TypeOK
  <2>2. attached' \in BOOLEAN
    BY DEF IInv, TypeOK, NoDisconnect
  <2> QED
    BY <2>1, <2>2 DEF IInv, TypeOK, NoDisconnect
<1>2. Enumeration'
  BY DEF IInv, Enumeration, NumInterfaces, NoDisconnect
<1>3. SnapshotTracks'
  BY SnapshotKept DEF IInv, NoDisconnect
<1>4. QueuesOwned'
  <2>1. CASE usb_reinit_state = "WAIT_STABILIZATION"
    BY <2>1 DEF QueuesOwned, Unsorted, NoDisconnect
  <2>2. CASE queue' = [s \in Slot |-> << >>]
    BY <2>2, ClearedOwned DEF IInv, TypeOK, NoDisconnect
  <2> QED
    BY <1>0, <2>1, <2>2
<1>h. host' = host /\ host \notin {"set", "done"}
  BY <1>0 DEF IInv, Enumeration, NoDisconnect
<1>5. LossIsKnown' /\ CopyOwned'
  BY <1>h DEF LossIsKnown, CopyOwned
<1>6. QuietAgrees'
  BY <1>h, AgreementKept DEF IInv, NoDisconnect
<1> QED
  BY <1>1, <1>2, <1>3, <1>4, <1>5, <1>6 DEF IInv

LEMMA SettledKeeps ==
  ASSUME IInv, Settled
  PROVE  IInv'
<1> USE DEF core1Vars, hostVars, Goto, ClearAndConnect
<1>1. TypeOK'
  <2>1. queue' \in [Slot -> Seq(Cid)] /\ \A s \in Slot : Len(queue'[s]) <= Capacity
    BY ClearedQueues, BridgeAssumption DEF Settled
  <2> QED
    BY <2>1 DEF IInv, TypeOK, Settled
<1>2. Enumeration'
  BY DEF IInv, Enumeration, NumInterfaces, Settled
<1>3. SnapshotTracks'
  BY SnapshotKept DEF IInv, Settled
<1>4. QueuesOwned'
  BY ClearedOwned DEF IInv, TypeOK, Settled
<1>5. LossIsKnown'
  BY LossKept DEF IInv, Settled
<1>6. CopyOwned'
  BY NoCopy DEF Settled
<1>7. QuietAgrees'
  BY AgreementKept DEF IInv, Settled
<1> QED
  BY <1>1, <1>2, <1>3, <1>4, <1>5, <1>6, <1>7 DEF IInv

\* The loop's label is all that changes.
LEMMA GoesOn ==
  ASSUME IInv, pc \in {"settle", "usb"}, pc' \in {"usb", "hid"},
         UNCHANGED <<core1Vars, sharedVars, usb_reinit_state, snap, building, usbVars, hostVars>>
  PROVE  IInv'
<1> USE DEF core1Vars, sharedVars, usbVars, hostVars
<1>1. TypeOK'
  BY DEF IInv, TypeOK
<1>2. Enumeration'
  BY DEF IInv, Enumeration, NumInterfaces
<1>3. SnapshotTracks'
  BY SnapshotKept DEF IInv
<1>4. QueuesOwned'
  BY OwnersKept DEF IInv, Unsorted
<1>5. LossIsKnown'
  BY LossKept DEF IInv
<1>6. CopyOwned'
  BY NoCopy
<1>7. QuietAgrees'
  BY AgreementKept DEF IInv
<1> QED
  BY <1>1, <1>2, <1>3, <1>4, <1>5, <1>6, <1>7 DEF IInv

-------------------------------------------------------------------------------
(***************************************************************************)
(* The host                                                                *)
(***************************************************************************)

\* A step of tud_task touches nothing that the queues or the slots depend on.
LEMMA TudTaskKeeps ==
  ASSUME IInv, pc \in {"usb", "build"}, pc' \in {"build", "hid"},
         UNCHANGED <<core1Vars, sharedVars, usb_reinit_state, snap>>
  PROVE  /\ SnapshotTracks' /\ QueuesOwned' /\ CopyOwned'
         /\ (host' = "done" => host = "done") => LossIsKnown'
<1> USE DEF core1Vars, sharedVars
<1>1. SnapshotTracks'
  BY SnapshotKept DEF IInv
<1>2. QueuesOwned'
  BY OwnersKept DEF IInv, Unsorted
<1>3. CopyOwned'
  BY NoCopy
<1>4. (host' = "done" => host = "done") => LossIsKnown'
  BY LossKept DEF IInv
<1> QED
  BY <1>1, <1>2, <1>3, <1>4

LEMMA BusResetKeeps ==
  ASSUME IInv, BusReset
  PROVE  IInv'
<1> USE DEF core1Vars, sharedVars, Goto, Transaction
<1>1. TypeOK'
  BY NoInterfaces DEF IInv, TypeOK, BusReset
<1>2. Enumeration'
  <2>1. building = NotBuilding
    BY DEF IInv, Enumeration, BusReset
  <2> QED
    BY <2>1 DEF IInv, Enumeration, NumInterfaces, NotBuilding, BusReset
<1>3. SnapshotTracks' /\ QueuesOwned' /\ CopyOwned' /\ LossIsKnown'
  BY TudTaskKeeps DEF BusReset
<1>4. QuietAgrees'
  BY DEF QuietAgrees, BusReset
<1> QED
  BY <1>1, <1>2, <1>3, <1>4 DEF IInv

LEMMA AskConfigurationKeeps ==
  ASSUME IInv, NEW request \in {"get", "set"}, AskConfiguration(request)
  PROVE  IInv'
<1> USE DEF core1Vars, sharedVars, usbVars, hostVars, Goto, Transaction
<1>0. building' = [request |-> request, count |-> Cardinality(ready_snapshot), owners |-> << >>]
  BY DEF AskConfiguration
<1>a. /\ building'.request = request
      /\ building'.count = Cardinality(ready_snapshot) /\ building'.owners = << >>
      /\ building'.count \in 0..MAX_HID_DEVICES
  BY <1>0, SnapshotFinite DEF IInv, TypeOK
<1>b. building' \in [request : {"none", "get", "set"}, count : 0..MAX_HID_DEVICES,
                     owners : Interfaces(Owner)]
  BY <1>0, <1>a, NoInterfaces
<1>1. TypeOK'
  BY <1>b DEF IInv, TypeOK, AskConfiguration
<1>2. Enumeration'
  <2>1. Len(building'.owners) = 0 /\ NumInterfaces' \in Nat
    BY <1>a, EmptySeq, DescriptorsAssumption DEF NumInterfaces
  <2>2. Len(building'.owners) <= NumInterfaces'
    BY <2>1
  <2> QED
    BY <1>a, <2>2 DEF IInv, Enumeration, AskConfiguration
<1>3. SnapshotTracks' /\ QueuesOwned' /\ CopyOwned' /\ LossIsKnown'
  BY TudTaskKeeps DEF AskConfiguration
<1>4. QuietAgrees'
  BY AgreementKept DEF IInv, AskConfiguration
<1> QED
  BY <1>1, <1>2, <1>3, <1>4 DEF IInv

LEMMA BuildInterfaceKeeps ==
  ASSUME IInv, BuildInterface
  PROVE  IInv'
<1> USE DEF core1Vars, sharedVars, usbVars, hostVars
<1> DEFINE i == Len(building.owners)
           owner == IF i < building.count THEN ReportDescriptor(ready_snapshot, Present, i)
                    ELSE Fallback
<1>a. /\ building \in [request : {"none", "get", "set"}, count : 0..MAX_HID_DEVICES,
                       owners : Interfaces(Owner)]
      /\ ready_snapshot \in Snapshot
  BY DEF IInv, TypeOK
<1>b. building.owners \in Seq(Owner) /\ i \in Nat
  BY <1>a, InterfacesAre
<1>c. owner \in Owner
  BY <1>a, <1>b, DescriptorTyped DEF Owner
<1>d. /\ building.count \in 0..MAX_HID_DEVICES
      /\ NumInterfaces \in Nat /\ NumInterfaces <= MAX_HID_DEVICES
  BY <1>a, DescriptorsAssumption DEF NumInterfaces
<1>e. i # NumInterfaces /\ i <= NumInterfaces
  BY DEF IInv, Enumeration, BuildInterface, Built
<1>f. building' = [building EXCEPT !.owners = Append(building.owners, owner)]
  BY DEF BuildInterface
<1>g. i < MAX_HID_DEVICES /\ i + 1 <= NumInterfaces
  BY <1>b, <1>d, <1>e, DescriptorsAssumption
<1> HIDE DEF owner
<1>h. /\ Append(building.owners, owner) \in Interfaces(Owner)
      /\ Len(Append(building.owners, owner)) = i + 1
  BY <1>a, <1>c, <1>g, OneInterfaceMore
<1>k. /\ building' \in [request : {"none", "get", "set"}, count : 0..MAX_HID_DEVICES,
                        owners : Interfaces(Owner)]
      /\ building'.request = building.request /\ building'.count = building.count
      /\ building'.owners = Append(building.owners, owner)
  BY <1>a, <1>f, <1>h
<1>1. TypeOK'
  BY <1>k DEF IInv, TypeOK, BuildInterface
<1>2. Enumeration'
  <2>1. Len(building'.owners) <= NumInterfaces'
    BY <1>g, <1>h, <1>k DEF NumInterfaces
  <2> QED
    BY <1>k, <2>1 DEF IInv, Enumeration, BuildInterface
<1>3. SnapshotTracks' /\ QueuesOwned' /\ CopyOwned' /\ LossIsKnown'
  BY TudTaskKeeps DEF BuildInterface
<1>4. QuietAgrees'
  BY AgreementKept DEF IInv, BuildInterface
<1> QED
  BY <1>1, <1>2, <1>3, <1>4 DEF IInv

\* A finished configuration has an interface.
LEMMA BuiltHasInterface ==
  ASSUME IInv, Built
  PROVE  /\ building.owners \in Interfaces(Owner)
         /\ building.owners # << >> /\ 0 < Len(building.owners)
<1>1. /\ building.count \in 0..MAX_HID_DEVICES
      /\ building.owners \in Interfaces(Owner)
  BY DEF IInv, TypeOK
<1>2. NumInterfaces > 0
  BY <1>1, DescriptorsAssumption DEF NumInterfaces
<1> QED
  BY <1>1, <1>2, EmptySeq DEF Built

LEMMA NotBuildingTyped ==
  /\ NotBuilding \in [request : {"none", "get", "set"}, count : 0..MAX_HID_DEVICES,
                      owners : Interfaces(Owner)]
  /\ NotBuilding.request = "none" /\ NotBuilding.owners = << >> /\ NotBuilding.count = 0
  /\ Len(NotBuilding.owners) = 0
<1>1. << >> \in Interfaces(Owner) /\ 0 \in 0..MAX_HID_DEVICES /\ Len(<< >>) = 0
  BY NoInterfaces, DescriptorsAssumption
<1> QED
  BY <1>1 DEF NotBuilding

LEMMA FinishGetKeeps ==
  ASSUME IInv, FinishGet
  PROVE  IInv'
<1> USE DEF core1Vars, sharedVars, usbVars, Goto
<1>a. /\ building' = NotBuilding /\ config' = building.owners
      /\ config' \in Interfaces(Owner) /\ config' # << >>
      /\ host = "reset" /\ host' = "read" /\ seen' = seen
  BY BuiltHasInterface DEF IInv, Enumeration, FinishGet
<1>1. TypeOK'
  BY <1>a, NotBuildingTyped DEF IInv, TypeOK, FinishGet
<1>2. Enumeration'
  <2>1. Len(building'.owners) <= NumInterfaces'
    BY <1>a, NotBuildingTyped DEF NumInterfaces
  <2> QED
    BY <1>a, <2>1, NotBuildingTyped DEF IInv, Enumeration, FinishGet
<1>3. SnapshotTracks' /\ QueuesOwned' /\ CopyOwned' /\ LossIsKnown'
  BY TudTaskKeeps DEF FinishGet
<1>4. QuietAgrees'
  BY AgreementKept DEF IInv, FinishGet
<1> QED
  BY <1>1, <1>2, <1>3, <1>4 DEF IInv

LEMMA FinishSetKeeps ==
  ASSUME IInv, FinishSet
  PROVE  IInv'
<1> USE DEF core1Vars, sharedVars, Goto
<1>a. /\ building' = NotBuilding /\ opened' = building.owners
      /\ opened' \in Interfaces(Owner)
      /\ host = "read" /\ host' = "set" /\ seen' = seen /\ seen = << >>
      /\ config' = config /\ config # << >> /\ mounted'
      /\ usb_reinit_state # "WAIT_STABILIZATION"
  BY BuiltHasInterface DEF IInv, Enumeration, FinishSet
<1>1. TypeOK'
  BY <1>a, NotBuildingTyped DEF IInv, TypeOK, FinishSet
<1>2. Enumeration'
  <2>1. Len(building'.owners) <= NumInterfaces'
    BY <1>a, NotBuildingTyped DEF NumInterfaces
  <2>2. config \in Seq(Owner) /\ Len(config) > 0
    BY <1>a, InterfacesAre, EmptySeq DEF IInv, TypeOK
  <2>3. Len(seen') < Len(config')
    BY <1>a, <2>2, EmptySeq
  <2> QED
    BY <1>a, <2>1, <2>3, NotBuildingTyped DEF IInv, Enumeration, FinishSet
<1>3. SnapshotTracks' /\ QueuesOwned' /\ CopyOwned' /\ LossIsKnown'
  BY TudTaskKeeps DEF FinishSet
<1>4. QuietAgrees'
  BY <1>a, EmptySeq DEF QuietAgrees, FinishSet
<1> QED
  BY <1>1, <1>2, <1>3, <1>4 DEF IInv

\* What the host has read is what stands there now, or garbled.
LEMMA ReadReportDescriptorKeeps ==
  ASSUME IInv, ReadReportDescriptor
  PROVE  IInv'
<1> USE DEF core1Vars, sharedVars, usbVars, Goto, Transaction
<1> DEFINE k == Len(seen) + 1
           owner == ReportDescriptor(ready_snapshot, Present, k - 1)
           got == Received(k, owner)
<1>a. /\ seen \in Interfaces(Owner \cup {Garbled}) /\ config \in Interfaces(Owner)
      /\ ready_snapshot \in Snapshot
  BY DEF IInv, TypeOK
<1>b. /\ seen \in Seq(Owner \cup {Garbled}) /\ Len(seen) \in Nat
      /\ Len(config) \in Nat /\ Len(config) <= MAX_HID_DEVICES
      /\ Len(seen) < Len(config)
  BY <1>a, InterfacesAre DEF IInv, Enumeration, ReadReportDescriptor
<1>c. owner \in Owner /\ k - 1 \in Nat
  <2>1. k - 1 \in Nat
    BY <1>b
  <2> QED
    BY <1>a, <2>1, DescriptorTyped
<1>d. got \in {owner, Garbled} /\ got \in Owner \cup {Garbled}
  BY <1>c DEF Received
<1>e. /\ seen' = Append(seen, got)
      /\ \/ k = Len(config) /\ host' = "done" /\ config' = << >>
         \/ k # Len(config) /\ host' = "set" /\ config' = config
      /\ host = "set" /\ pc = "usb" /\ pc' = "hid"
  BY DEF ReadReportDescriptor
<1> HIDE DEF got, owner
<1>f. /\ Append(seen, got) \in Interfaces(Owner \cup {Garbled})
      /\ Len(Append(seen, got)) = k
  <2>1. Len(seen) < MAX_HID_DEVICES
    BY <1>b, DescriptorsAssumption
  <2> QED
    BY <1>a, <1>d, <2>1, OneInterfaceMore
<1>1. TypeOK'
  BY <1>a, <1>e, <1>f, NoInterfaces DEF IInv, TypeOK, ReadReportDescriptor
<1>2. Enumeration'
  <2>1. host' = "set" => Len(seen') < Len(config')
    BY <1>b, <1>e, <1>f
  <2>2. building' = building /\ building = NotBuilding
    BY DEF IInv, Enumeration, ReadReportDescriptor
  <2>3. building'.request = "none" /\ Len(building'.owners) <= NumInterfaces'
    BY <2>2, NotBuildingTyped DEF IInv, Enumeration, NumInterfaces
  <2> QED
    BY <1>e, <2>1, <2>2, <2>3 DEF IInv, Enumeration, ReadReportDescriptor
<1>3. SnapshotTracks' /\ QueuesOwned' /\ CopyOwned'
  BY TudTaskKeeps DEF ReadReportDescriptor
<1>4. LossIsKnown'
  BY <1>e, SnapshotOfReady, EntryTyped DEF IInv, TypeOK, SnapshotTracks, LossIsKnown, ReadReportDescriptor
<1>5. QuietAgrees'
  <2> SUFFICES ASSUME Quiet', NEW n \in DOMAIN seen', seen'[n] \in Cid
               PROVE  seen'[n] = ReportDescriptor(ready_snapshot, Present, n - 1)
    <3>1. Present' = Present /\ ready_snapshot' = ready_snapshot
      BY DEF Present, ReadReportDescriptor
    <3> QED
      BY <1>e, <3>1 DEF QuietAgrees
  <2>1. Quiet
    BY <1>e DEF Quiet, ReadReportDescriptor
  <2>2. DOMAIN seen = 1..Len(seen) /\ DOMAIN seen' = 1..k
    BY <1>b, <1>d, <1>e
  <2>3. CASE n = k
    <3>1. seen'[n] = got
      BY <1>b, <1>d, <1>e, <2>3
    <3>2. got = owner
      BY <1>d, <3>1, DescriptorsAssumption
    <3> QED
      BY <2>3, <3>1, <3>2 DEF owner
  <2>4. CASE n # k
    <3>1. n \in DOMAIN seen /\ seen'[n] = seen[n]
      BY <1>b, <1>d, <1>e, <2>2, <2>4
    <3> QED
      BY <1>e, <2>1, <3>1 DEF IInv, QuietAgrees
  <2> QED
    BY <2>3, <2>4
<1> QED
  BY <1>1, <1>2, <1>3, <1>4, <1>5 DEF IInv

-------------------------------------------------------------------------------
(***************************************************************************)
(* usb_hid_task                                                            *)
(***************************************************************************)

LEMMA CopySnapshotKeeps ==
  ASSUME IInv, CopySnapshot
  PROVE  IInv'
<1> USE DEF core1Vars, sharedVars, usbVars, hostVars, Goto
<1>1. TypeOK'
  BY DEF IInv, TypeOK, CopySnapshot
<1>2. Enumeration'
  BY DEF IInv, Enumeration, NumInterfaces, CopySnapshot
<1>3. SnapshotTracks'
  BY SnapshotKept DEF IInv, CopySnapshot
<1>4. QueuesOwned'
  BY OwnersKept DEF IInv, Unsorted, CopySnapshot
<1>5. LossIsKnown'
  BY LossKept DEF IInv, CopySnapshot
<1>6. CopyOwned'
  BY DEF IInv, TypeOK, Enumeration, SnapshotTracks, QueuesOwned, Unsorted, LossIsKnown, CopyOwned,
         CopySnapshot
<1>7. QuietAgrees'
  BY DEF IInv, QuietAgrees, Quiet, Present, CopySnapshot
<1> QED
  BY <1>1, <1>2, <1>3, <1>4, <1>5, <1>6, <1>7 DEF IInv

LEMMA ForwardKeeps ==
  ASSUME IInv, NEW F, Forward(F)
  PROVE  IInv'
<1> USE DEF core1Vars, usbVars, hostVars, Goto
<1>a. \A s \in Slot : queue[s] \in Seq(Cid) /\ Len(queue[s]) \in Nat
  BY DEF IInv, TypeOK
<1>b. \A s \in Slot :
        /\ queue'[s] \in Seq(Cid) /\ Len(queue'[s]) <= Len(queue[s])
        /\ \A k \in DOMAIN queue'[s] : \E n \in DOMAIN queue[s] : queue'[s][k] = queue[s][n]
  <2> SUFFICES ASSUME NEW s \in Slot
               PROVE  /\ queue'[s] \in Seq(Cid) /\ Len(queue'[s]) <= Len(queue[s])
                      /\ \A k \in DOMAIN queue'[s] :
                           \E n \in DOMAIN queue[s] : queue'[s][k] = queue[s][n]
    OBVIOUS
  <2>1. CASE queue'[s] = queue[s]
    BY <1>a, <2>1
  <2>2. CASE queue'[s] = Tail(queue[s]) /\ queue[s] # << >>
    <3>1. /\ Tail(queue[s]) \in Seq(Cid) /\ Len(Tail(queue[s])) = Len(queue[s]) - 1
          /\ \A k \in 1..(Len(queue[s]) - 1) : Tail(queue[s])[k] = queue[s][k + 1]
      BY <1>a, <2>2
    <3>2. \A k \in DOMAIN queue'[s] : k + 1 \in DOMAIN queue[s] /\ queue'[s][k] = queue[s][k + 1]
      BY <1>a, <2>2, <3>1
    <3> QED
      BY <1>a, <2>2, <3>1, <3>2
  <2> QED
    BY <2>1, <2>2 DEF Forward
<1>1. TypeOK'
  <2>1. queue' \in [Slot -> Seq(Cid)]
    BY <1>b DEF Forward
  <2>2. \A s \in Slot : Len(queue'[s]) <= Capacity
    BY <1>a, <1>b, BridgeAssumption DEF IInv, TypeOK
  <2>3. {} \in Snapshot
    BY DEF Snapshot
  <2> QED
    BY <2>1, <2>2, <2>3 DEF IInv, TypeOK, Forward
<1>2. Enumeration'
  BY DEF IInv, Enumeration, NumInterfaces, Forward
<1>3. SnapshotTracks'
  BY SnapshotKept DEF IInv, Forward
<1>4. QueuesOwned'
  <2>1. \A e \in ready_snapshot : e.slot \in Slot
    BY EntryTyped DEF IInv, TypeOK
  <2>2. Unsorted' = Unsorted /\ ready' = ready /\ ready_snapshot' = ready_snapshot /\ vacated' = vacated
    BY DEF Unsorted, Forward
  <2>3. ASSUME ~Unsorted, NEW s \in Slot, NEW k \in DOMAIN queue'[s], NEW c,
               \A n \in DOMAIN queue[s] : queue[s][n] = c
        PROVE  queue'[s][k] = c
    BY <1>b, <2>3
  <2>4. ASSUME ~Unsorted, NEW s \in Slot \ vacated, NEW k \in DOMAIN queue'[s]
        PROVE  queue'[s][k] = ready[s]
    BY <2>3, <2>4 DEF IInv, QueuesOwned
  <2>5. ASSUME ~Unsorted, NEW e \in ready_snapshot, NEW k \in DOMAIN queue'[e.slot]
        PROVE  queue'[e.slot][k] = e.hids_cid
    BY <2>1, <2>3, <2>5 DEF IInv, QueuesOwned
  <2> QED
    BY <2>2, <2>4, <2>5 DEF QueuesOwned
<1>5. LossIsKnown'
  BY LossKept DEF IInv, Forward
<1>6. CopyOwned'
  BY NoCopy DEF Forward
<1>7. QuietAgrees'
  BY AgreementKept DEF IInv, Forward
<1> QED
  BY <1>1, <1>2, <1>3, <1>4, <1>5, <1>6, <1>7 DEF IInv

-------------------------------------------------------------------------------
(***************************************************************************)
(* The invariant                                                           *)
(***************************************************************************)

LEMMA InitIInv == Init => IInv
<1> SUFFICES ASSUME Init PROVE IInv
  OBVIOUS
<1>1. TypeOK
  <2>1. /\ {} \in Snapshot
        /\ NotBuilding \in [request : {"none", "get", "set"}, count : 0..MAX_HID_DEVICES,
                           owners : Interfaces(Owner)]
        /\ << >> \in Interfaces(Owner) /\ << >> \in Interfaces(Owner \cup {Garbled})
    BY NotBuildingTyped, NoInterfaces DEF Snapshot
  <2>2. << >> \in Seq(Cid) /\ Len(<< >>) <= Capacity
    BY EmptySeq, BridgeAssumption
  <2> QED
    BY <2>1, <2>2 DEF Init, TypeOK
<1>2. Enumeration
  BY NotBuildingTyped DEF Init, Enumeration, NumInterfaces
<1>3. SnapshotTracks
  BY DEF Init, SnapshotTracks, SnapshotOf
<1>4. QueuesOwned
  BY EmptySeq DEF Init, QueuesOwned
<1>5. LossIsKnown /\ CopyOwned /\ QuietAgrees
  BY DEF Init, LossIsKnown, CopyOwned, QuietAgrees
<1> QED
  BY <1>1, <1>2, <1>3, <1>4, <1>5 DEF IInv

LEMMA StutterKeeps == IInv /\ UNCHANGED vars => IInv'
<1> SUFFICES ASSUME IInv, UNCHANGED vars PROVE IInv'
  OBVIOUS
<1> USE DEF vars, core1Vars, sharedVars, usbVars, hostVars
<1>1. TypeOK' /\ Enumeration' /\ SnapshotTracks'
  BY DEF IInv, TypeOK, Enumeration, NumInterfaces, SnapshotTracks
<1>2. QueuesOwned' /\ LossIsKnown' /\ CopyOwned'
  BY DEF IInv, QueuesOwned, Unsorted, LossIsKnown, CopyOwned
<1>3. QuietAgrees'
  BY DEF IInv, QuietAgrees, Quiet, Present
<1> QED
  BY <1>1, <1>2, <1>3 DEF IInv

LEMMA NextKeeps == IInv /\ [Next]_vars => IInv'
<1> SUFFICES ASSUME IInv, Next PROVE IInv'
  BY StutterKeeps
<1>1. CASE Core1
  BY <1>1, GainKeeps, LoseKeeps, PushKeeps, FailAttemptKeeps, PublishKeeps, RaiseKeeps DEF Core1
<1>2. CASE MainLoop
  <2>1. CASE \E F \in SUBSET snap : Forward(F)
    <3>1. PICK F : Forward(F)
      BY <2>1
    <3> QED
      BY <3>1, ForwardKeeps
  <2>2. CASE NotSettling \/ NoTransaction
    BY <2>2, GoesOn DEF NotSettling, NoTransaction, Goto
  <2> QED
    BY <1>2, <2>1, <2>2, PollKeeps, ClearKeeps, DisconnectKeeps, NoDisconnectKeeps, SettledKeeps,
       BuildInterfaceKeeps, FinishGetKeeps, FinishSetKeeps, CopySnapshotKeeps DEF MainLoop
<1>3. CASE Host
  BY <1>3, BusResetKeeps, AskConfigurationKeeps, ReadReportDescriptorKeeps DEF Host
<1> QED
  BY <1>1, <1>2, <1>3 DEF Next

\* What holds of the two cores and the host at every moment.
THEOREM BridgeInvariance == Spec => []IInv
<1>1. Init => IInv
  BY InitIInv
<1>2. IInv /\ [Next]_vars => IInv'
  BY NextKeeps
<1> QED
  BY <1>1, <1>2, PTL DEF Spec

-------------------------------------------------------------------------------
(***************************************************************************)
(* What follows                                                            *)
(***************************************************************************)

\* The variables have their types; no descriptor has more interfaces than slots, no
\* queue more reports than it holds (usb_descriptors.c:107-122).
THEOREM BridgeTyped == Spec => []TypeOK
<1>1. IInv => TypeOK
  BY DEF IInv
<1> QED
  BY <1>1, BridgeInvariance, PTL

\* While the host has the interfaces Core 0 forwards by, a queue holds reports of the
\* device behind its interface and of no other (usb_device.c:63,72; usb_hid.c:43-50).
THEOREM RoutingAgrees == Spec => []RoutedWhenAgreed
<1>1. IInv => RoutedWhenAgreed
  BY DEF IInv, CopyOwned, RoutedWhenAgreed, HostHas
<1> QED
  BY <1>1, BridgeInvariance, PTL

\* With no request left to handle, no report leaves through an interface that the host
\* has read as another device's (usb_device.c:53-75, usb_hid.c:43-50).
THEOREM RoutingRight == Spec => []RightInterface
<1>1. ASSUME IInv PROVE RightInterface
  <2> DEFINE K(e) == PositionOf(snap, e) + 1
  <2> SUFFICES ASSUME pc = "forward", core1 = "idle", ~g_usb_reinit_request, host = "done",
                      NEW e \in snap, queue[e.slot] # << >>, K(e) <= Len(seen), seen[K(e)] \in Cid
               PROVE  Head(queue[e.slot]) = seen[K(e)]
    BY DEF RightInterface
  <2>1. /\ Quiet /\ snap = ready_snapshot /\ snap \in Snapshot
        /\ seen \in Interfaces(Owner \cup {Garbled})
    BY <1>1 DEF IInv, TypeOK, QuietAgrees, Quiet
  <2>2. PositionOf(snap, e) \in Nat /\ e.slot \in Slot
    BY <2>1, PositionBelow, EntryTyped
  <2>3. K(e) \in DOMAIN seen /\ K(e) - 1 = PositionOf(snap, e)
    BY <2>1, <2>2, InterfacesAre
  <2>4. seen[K(e)] = ReportDescriptor(snap, Present, K(e) - 1)
    BY <1>1, <2>1, <2>3 DEF IInv, QuietAgrees
  <2>5. seen[K(e)] = At(snap, K(e) - 1).hids_cid
    BY <2>1, <2>2, <2>3, <2>4, DescriptorTyped
  <2>6. seen[K(e)] = e.hids_cid
    BY <2>1, <2>3, <2>5, AtPosition
  <2>7. queue[e.slot] \in Seq(Cid)
    BY <1>1, <2>2 DEF IInv, TypeOK
  <2>8. 1 \in DOMAIN queue[e.slot] /\ Head(queue[e.slot]) = queue[e.slot][1]
    BY <2>7, EmptySeq
  <2>9. queue[e.slot][1] = e.hids_cid
    BY <1>1, <2>8 DEF IInv, CopyOwned
  <2> QED
    BY <2>6, <2>8, <2>9
<1> QED
  BY <1>1, BridgeInvariance, PTL

\* A configuration fits its buffer and its addresses, as long as the endpoints do: a
\* build may have up to 13 slots (usb_descriptors.c:91-95, 136-186).
THEOREM ConfigurationFit ==
  ASSUME MAX_HID_DEVICES <= 13
  PROVE  Spec => []ConfigurationFits
<1>1. ASSUME IInv PROVE ConfigurationFits
  <2> SUFFICES ASSUME NEW c \in {config, opened}
               PROVE  LET I == 0..(Len(c) - 1) IN
                      /\ TotalLength(Len(c)) <= CONFIG_BUF_SIZE
                      /\ \A i \in I : /\ InterfaceNumber(i) \notin CdcInterfaces
                                      /\ EndpointAddress(i) \notin CdcEndpoints
                                      /\ EndpointAddress(i) \in 129..143
                      /\ \A i, j \in I : i # j => /\ InterfaceNumber(i) # InterfaceNumber(j)
                                                  /\ EndpointAddress(i) # EndpointAddress(j)
    BY DEF ConfigurationFits
  <2>1. Len(c) \in Nat /\ Len(c) <= MAX_HID_DEVICES
    BY <1>1, InterfacesAre DEF IInv, TypeOK
  <2> QED
    BY <2>1, DescriptorsAssumption
    DEF TotalLength, CONFIG_BUF_SIZE, TUD_CONFIG_DESC_LEN, TUD_CDC_DESC_LEN, TUD_HID_DESC_LEN,
        InterfaceNumber, EndpointAddress, CdcInterfaces, CdcEndpoints
<1> QED
  BY <1>1, BridgeInvariance, PTL

-------------------------------------------------------------------------------
(***************************************************************************)
(* What Core 0 reads is the feed                                           *)
(***************************************************************************)

LEMMA ClientsAre ==
  ASSUME NEW r \in [Slot -> Cid \cup {NoCid}]
  PROVE  ClientsOf(SnapshotOf(r)) = r
<1> DEFINE S == SnapshotOf(r)
<1>1. ASSUME NEW i \in Slot PROVE ClientsOf(S)[i] = r[i]
  <2>1. CASE r[i] = NoCid
    <3>1. ~\E e \in S : e.slot = i
      BY <2>1 DEF SnapshotOf
    <3> QED
      BY <2>1, <3>1 DEF ClientsOf
  <2>2. CASE r[i] # NoCid
    <3>1. [slot |-> i, hids_cid |-> r[i]] \in S
      BY <2>2 DEF SnapshotOf
    <3>2. \E e \in S : e.slot = i
      BY <3>1
    <3>3. (CHOOSE e \in S : e.slot = i) \in S /\ (CHOOSE e \in S : e.slot = i).slot = i
      BY <3>2
    <3>4. (CHOOSE e \in S : e.slot = i).hids_cid = r[i]
      BY <3>3, SnapshotOfReady
    <3> QED
      BY <3>2, <3>4 DEF ClientsOf
  <2> QED
    BY <2>1, <2>2
<1> QED
  BY <1>1 DEF ClientsOf

ReadyDistinct == \A i, j \in Slot : ready[i] = ready[j] /\ ready[i] # NoCid => i = j

\* Before it publishes, Core 1 has gained or lost one device, or none.
OneChange ==
  core1 = "changed" =>
    \E i \in Slot :
      /\ \A j \in Slot \ {i} : ClientsOf(ready_snapshot)[j] = ready[j]
      /\ NoCid \in {ready[i], ClientsOf(ready_snapshot)[i]} \/ ready[i] = ClientsOf(ready_snapshot)[i]

FeedInv == IInv /\ ReadyDistinct /\ OneChange

LEMMA ReadIsReady == IInv /\ core1 # "changed" => ClientsOf(ready_snapshot) = ready
  BY ClientsAre DEF IInv, SnapshotTracks, TypeOK

LEMMA FeedInvStep == FeedInv /\ [Next]_vars => FeedInv'
<1> SUFFICES ASSUME FeedInv, [Next]_vars PROVE FeedInv'
  OBVIOUS
<1>0. IInv /\ IInv' /\ ready \in [Slot -> Cid \cup {NoCid}] /\ NoCid \notin Cid
  BY NextKeeps, DescriptorsAssumption DEF FeedInv, IInv, TypeOK
<1>1. CASE UNCHANGED <<ready, ready_snapshot>> /\ core1' \in {core1, "copied", "idle"}
  BY <1>0, <1>1 DEF FeedInv, ReadyDistinct, OneChange
<1>2. ASSUME NEW i \in Slot, NEW c \in Cid, Gain(i, c) PROVE FeedInv'
  <2>1. /\ ready[i] = NoCid /\ ready' = [ready EXCEPT ![i] = c]
        /\ \A j \in Slot : ready[j] # c
        /\ core1 = "idle" /\ UNCHANGED ready_snapshot
    BY <1>2 DEF Gain, Present, sharedVars
  <2>2. ClientsOf(ready_snapshot) = ready
    BY <1>0, <2>1, ReadIsReady
  <2>3. ReadyDistinct'
    BY <1>0, <2>1 DEF FeedInv, ReadyDistinct
  <2>4. OneChange'
    BY <1>0, <2>1, <2>2 DEF OneChange
  <2> QED
    BY <1>0, <2>3, <2>4 DEF FeedInv
<1>3. ASSUME NEW i \in Slot, Lose(i) PROVE FeedInv'
  <2>1. /\ ready' = [ready EXCEPT ![i] = NoCid]
        /\ core1 = "idle" /\ UNCHANGED ready_snapshot
    BY <1>3 DEF Lose, sharedVars
  <2>2. ClientsOf(ready_snapshot) = ready
    BY <1>0, <2>1, ReadIsReady
  <2>3. ReadyDistinct'
    BY <1>0, <2>1 DEF FeedInv, ReadyDistinct
  <2>4. OneChange'
    BY <1>0, <2>1, <2>2 DEF OneChange
  <2> QED
    BY <1>0, <2>3, <2>4 DEF FeedInv
<1>4. CASE FailAttempt
  <2>1. core1 = "idle" /\ UNCHANGED <<ready, ready_snapshot>>
    BY <1>4 DEF FailAttempt, sharedVars
  <2>2. ClientsOf(ready_snapshot) = ready
    BY <1>0, <2>1, ReadIsReady
  <2>3. 0 \in Slot
    BY DescriptorsAssumption DEF Slot
  <2> QED
    BY <1>0, <2>1, <2>2, <2>3 DEF FeedInv, ReadyDistinct, OneChange
<1>5. CASE Publish
  BY <1>0, <1>5 DEF FeedInv, ReadyDistinct, OneChange, Publish
<1>6. CASE Raise \/ \E i \in Slot : Push(i)
  BY <1>1, <1>6 DEF Raise, Push, core1Vars
<1>7. CASE MainLoop
  BY <1>1, <1>7
     DEF MainLoop, Poll, Clear, Disconnect, NoDisconnect, Settled, NotSettling, NoTransaction,
         BuildInterface, FinishGet, FinishSet, CopySnapshot, Forward, core1Vars, sharedVars
<1>8. CASE Host
  BY <1>1, <1>8
     DEF Host, BusReset, AskConfiguration, ReadReportDescriptor, core1Vars, sharedVars
<1>9. CASE UNCHANGED vars
  BY <1>1, <1>9 DEF vars, core1Vars, sharedVars
<1> QED
  BY <1>2, <1>3, <1>4, <1>5, <1>6, <1>7, <1>8, <1>9 DEF Next, Core1

LEMMA FeedRests ==
  ASSUME UNCHANGED <<ready_snapshot, g_usb_reinit_request>>,
         core1' = core1 \/ "copied" \notin {core1, core1'}
  PROVE  UNCHANGED Feed!feedVars
<1>1. (core1 = "copied") <=> (core1' = "copied")
  OBVIOUS
<1> QED
  BY <1>1 DEF Feed!feedVars, ClientsOf

LEMMA FeedPublishes ==
  ASSUME FeedInv, Publish
  PROVE  Feed!Next
<1> DEFINE old == ClientsOf(ready_snapshot)
<1>1. /\ core1 = "changed" /\ core1' = "copied" /\ ready_snapshot' = SnapshotOf(ready)
      /\ ready \in [Slot -> Cid \cup {NoCid}]
  BY DEF Publish, FeedInv, IInv, TypeOK
<1>2. ClientsOf(ready_snapshot') = ready
  BY <1>1, ClientsAre
<1>3. Feed!Publish
  <2>1. ready_snapshot' = Feed!SnapshotOf(ready)
    BY <1>1 DEF SnapshotOf, Feed!SnapshotOf
  <2> QED
    BY <1>1, <1>2, <2>1 DEF Feed!Publish
<1>4. old \in [Slot -> {old[i] : i \in Slot}]
  BY DEF ClientsOf
<1>5. PICK i \in Slot :
        /\ \A j \in Slot \ {i} : old[j] = ready[j]
        /\ NoCid \in {ready[i], old[i]} \/ ready[i] = old[i]
  BY <1>1 DEF FeedInv, OneChange
<1> HIDE DEF old
<1>6. ready = [old EXCEPT ![i] = ready[i]]
  BY <1>1, <1>4, <1>5
<1>7. CASE ready[i] = old[i]
  <2>1. ready = old
    BY <1>1, <1>4, <1>5, <1>7
  <2>2. Feed!Republish
    BY <1>2, <1>3, <2>1 DEF Feed!Republish, old
  <2> QED
    BY <2>2 DEF Feed!Next
<1>8. CASE ready[i] = NoCid
  <2>1. Feed!Lose(i)
    BY <1>2, <1>3, <1>6, <1>8 DEF Feed!Lose, old
  <2> QED
    BY <2>1 DEF Feed!Next
<1>9. CASE ready[i] # NoCid /\ old[i] = NoCid
  <2>1. PICK c \in Cid : c = ready[i]
    BY <1>1, <1>9
  <2>2. \A j \in Slot : old[j] # c
    BY <1>5, <1>9, <2>1 DEF FeedInv, ReadyDistinct
  <2>3. Feed!Gain(i, c)
    BY <1>2, <1>3, <1>6, <1>9, <2>1, <2>2 DEF Feed!Gain, old
  <2> QED
    BY <2>3 DEF Feed!Next
<1> QED
  BY <1>5, <1>7, <1>8, <1>9

LEMMA FeedTaken ==
  ASSUME IInv, Clear
  PROVE  [Feed!Next]_(Feed!feedVars)
<1>1. g_usb_reinit_request' = FALSE /\ UNCHANGED <<core1, ready_snapshot>>
  BY DEF Clear
<1>2. CASE core1 = "copied"
  BY <1>1, <1>2 DEF Feed!feedVars, ClientsOf
<1>3. CASE core1 # "copied"
  <2>1. Feed!Consume
    BY <1>1, <1>3 DEF Feed!Consume, ClientsOf
  <2> QED
    BY <2>1 DEF Feed!Next
<1> QED
  BY <1>2, <1>3

LEMMA FeedFollowed ==
  ASSUME FeedInv, [Next]_vars
  PROVE  [Feed!Next]_(Feed!feedVars)
<1>1. CASE \/ \E i \in Slot : (\E c \in Cid : Gain(i, c)) \/ Lose(i) \/ Push(i)
           \/ FailAttempt
  BY <1>1, FeedRests DEF Gain, Lose, Push, FailAttempt, sharedVars, core1Vars
<1>2. CASE Publish
  BY <1>2, FeedPublishes
<1>3. CASE Raise
  BY <1>3 DEF Raise, Feed!feedVars, ClientsOf
<1>4. CASE Clear
  BY <1>4, FeedTaken DEF FeedInv
<1>5. CASE MainLoop /\ ~Clear
  <2>1. UNCHANGED <<core1, ready_snapshot, g_usb_reinit_request>>
    BY <1>5
       DEF MainLoop, Poll, Disconnect, NoDisconnect, Settled, NotSettling, NoTransaction,
           BuildInterface, FinishGet, FinishSet, CopySnapshot, Forward, core1Vars, sharedVars
  <2> QED
    BY <2>1, FeedRests
<1>6. CASE Host
  <2>1. UNCHANGED <<core1, ready_snapshot, g_usb_reinit_request>>
    BY <1>6 DEF Host, BusReset, AskConfiguration, ReadReportDescriptor, core1Vars, sharedVars
  <2> QED
    BY <2>1, FeedRests
<1>7. CASE UNCHANGED vars
  BY <1>7, FeedRests DEF vars, core1Vars, sharedVars
<1> QED
  BY <1>1, <1>2, <1>3, <1>4, <1>5, <1>6, <1>7 DEF Next, Core1

\* The copy of the snapshot and the flag behind it look to Core 0 like the one step they
\* are in module ReadyFeed, the contract module Coordinator is proved to implement.
THEOREM FeedIsAtomic == Spec => PublishesAtOnce
<1>1. Init => FeedInv
  <2> SUFFICES ASSUME Init PROVE FeedInv
    OBVIOUS
  <2>1. ReadyDistinct /\ OneChange
    BY DEF Init, ReadyDistinct, OneChange
  <2> QED
    BY <2>1, InitIInv DEF FeedInv
<1>2. FeedInv /\ [Next]_vars => FeedInv'
  BY FeedInvStep
<1>3. FeedInv /\ [Next]_vars => [Feed!Next]_(Feed!feedVars)
  BY FeedFollowed
<1> QED
  BY <1>1, <1>2, <1>3, PTL DEF Spec, PublishesAtOnce

===============================================================================
