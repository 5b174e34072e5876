------------------------- MODULE CoordinatorProperties -------------------------
(***************************************************************************)
(* What the coordinator of module Coordinator must guarantee.  The         *)
(* properties under "Promises" hold; those under "Claims" are made by the  *)
(* comments and the documentation, and the code does not keep them.        *)
(***************************************************************************)
EXTENDS Coordinator

-------------------------------------------------------------------------------
(***************************************************************************)
(* Promises                                                                *)
(***************************************************************************)

\* What the USB core reads is the READY set of this moment, whatever order
\* pairing, discovery, timeouts and lost links come in: no handler changes the
\* set, or the client behind a READY slot, without publishing.
SnapshotMatchesReady == ready_snapshot = SnapshotOf(slots)

\* While the coordinator believes it is connecting, the slot whose timer and
\* events it handles is really being connected; while it believes it is
\* scanning, there is a slot for what it finds.
ConnectingIsTracked ==
  /\ coord_state = "CONNECTING" =>
       /\ connecting_slot \in Slot
       /\ slots[connecting_slot].state = "CONNECTING"
  /\ coord_state = "SCANNING" => AnyIdle

\* A READY slot is backed by the discovered HID client of its own link: no
\* failed pairing, cancelled attempt or lost link of another device takes the
\* client away and leaves the slot READY.
ReadyHasClient ==
  \A i \in Slot : slots[i].state = "READY" =>
    LET h == slots[i].con_handle
    IN  /\ h \in Handle
        /\ links[h].hid = "connected"
        /\ links[h].cid = slots[i].hids_cid

\* find_slot_by_cid and find_slot_by_con_handle return the first match: there is
\* never a second one.
UnambiguousLookup ==
  \A i, j \in Slot :
    i # j /\ slots[i].state # "IDLE" /\ slots[j].state # "IDLE" =>
      /\ slots[i].con_handle = slots[j].con_handle => slots[i].con_handle = NoHandle
      /\ slots[i].hids_cid = slots[j].hids_cid => slots[i].hids_cid = NoCid

\* The connection timeout cancels whatever connecting_slot names when it fires:
\* that is an attempt still without a link, never a link being paired nor a
\* READY device.
ConnectTimerGuardsAttempt ==
  connection_timer = "connect" /\ connecting_slot # NoSlot =>
    /\ slots[connecting_slot].state = "CONNECTING"
    /\ slots[connecting_slot].con_handle = NoHandle

\* Bonded devices are always sought: as long as a bond is in flash and a slot is
\* idle, the bridge scans or has a connection under way, whatever failed before.
BondedAlwaysSought ==
  running /\ bonded_flash # <<>> /\ AnyIdle => coord_state # "ALL_READY"

\* A slot is only ever claimed for a bonded device or with the window open, also
\* when the advertisement was seen long before and had to be resolved first.
StrangerGate ==
  [][\A i \in Slot :
       slots[i].state = "IDLE" /\ slots'[i].state = "CONNECTING" =>
         pairing_window \/ Bonded(Identity(slots'[i].adv_addr))]_vars

\* The feed of module ReadyFeed, with the client of each READY slot as its ready.
Feed ==
  INSTANCE ReadyFeed WITH
    ready <- [i \in Slot |-> IF slots[i].state = "READY" THEN slots[i].hids_cid
                                                         ELSE NoCid]

\* The coordinator implements the feed the USB core is written against.
ImplementsFeed == Feed!Spec

\* Something is under way on a link that will end the attempt it belongs to.
Attended(h) == Securing(h) \/ links[h].hid = "discovering" \/ links[h].closing \/ ~Up(h)

\* With one slot, every connection attempt has something that will end it: its
\* timeout until the link is up, then the pairing, the discovery or the closing
\* of its own link.
AttemptIsGuarded ==
  \A i \in Slot : slots[i].state = "CONNECTING" =>
    IF slots[i].con_handle = NoHandle
    THEN connection_timer = "connect" /\ connecting_slot = i
    ELSE Attended(slots[i].con_handle)

\* With any number of slots, the attempt of the connecting slot is handed from the new
\* link to pairing, from pairing to discovery and from a failure to the closing of the
\* link without a gap, although the security events are those of any link
\* (ble_coordinator.c:571-617).  An attempt that is no longer the connecting slot's has
\* no such promise: see SecuredSlotIsConnecting.
AttemptHandedOn ==
  [][\A i \in Slot :
       /\ connecting_slot = i
       /\ slots[i].state = "CONNECTING"
       /\ slots[i].con_handle # NoHandle => Attended(slots[i].con_handle)
       /\ slots'[i].state = "CONNECTING"
       /\ slots'[i].con_handle # NoHandle
       => Attended(slots[i].con_handle)']_vars

\* The attempt the coordinator is busy with, before it has a link.
InProgress(i) ==
  /\ coord_state = "CONNECTING"
  /\ connecting_slot = i
  /\ slots[i].state = "CONNECTING"
  /\ slots[i].con_handle = NoHandle
  /\ connection_timer = "connect"

\* With any number of slots, an attempt in progress keeps its timeout and the coordinator's
\* attention until it is answered or given up: no press, LED tick, scan timeout, late
\* lookup or event of a link without a slot takes them away (ble_coordinator.c:214,
\* 226-242).  What does is a device in another slot, by leaving or by becoming READY.
OnlyOtherDevicesDisturb ==
  [][\A i \in Slot :
       InProgress(i) /\ slots'[i] = slots[i] =>
         \/ InProgress(i)'
         \/ \E j \in Slot \ {i} : /\ slots[j].con_handle # NoHandle
                                 /\ slots'[j].state # slots[j].state]_vars

\* With one slot, a connection attempt always ends: the slot becomes READY or
\* idle again, whether the device goes away, stops answering or fails to pair.
AttemptEnds ==
  \A i \in Slot : slots[i].state = "CONNECTING" ~> slots[i].state # "CONNECTING"

\* With the window closed and nobody to reconnect to, the radio stops scanning
\* unless one of the two changes.
ScanStops ==
  ~pairing_window /\ ~has_bonded_device ~>
    ~scanning \/ pairing_window \/ has_bonded_device

\* An address in the table is not looked up again until its entry is freed; without a
\* lookup in the queue nothing will free it.
Unanswered(r) == LookupPending(r) /\ r \notin sm_lookups

\* The dropped result of sm_address_resolution_lookup (ble_coordinator.c:519) is the only
\* way into that state: no answer, overwritten entry, lost link or restart takes an
\* address there, only a new lookup that finds the queue full.
LookupLostOnlyWhenFull ==
  [][\A r \in RpaAddr :
       Unanswered(r)' =>
         \/ Unanswered(r)
         \/ ~LookupPending(r) /\ Cardinality(sm_lookups) = MAX_NR_SM_LOOKUP_ENTRIES]_vars

-------------------------------------------------------------------------------
(***************************************************************************)
(* The inductive invariant behind the promises: how slots, links, clients  *)
(* and attempts hang together between two handlers.                        *)
(***************************************************************************)

\* An idle slot has kept nothing of its last device.
SlotShape ==
  \A i \in Slot : /\ slots[i].state = "IDLE" => slots[i] = IdleSlot
                  /\ slots[i].state # "IDLE" => slots[i].adv_addr # NoAddr

LinkShape ==
  \A h \in Handle :
    /\ links[h].state = "free" => links[h] = FreeLink
    /\ links[h].state # "free" => links[h].addr # NoAddr
    /\ links[h].hid = "none" <=> links[h].cid = NoCid
    /\ links[h].state = "gone" => links[h].cid # NoCid

\* The handle of a slot is that of a link whose end it has not been told, its
\* client that link's client, discovered if the slot is READY.
SlotsHaveLinks ==
  \A i \in Slot :
    LET h == slots[i].con_handle
    IN  /\ h # NoHandle => links[h].state \in {"up", "down"}
        /\ slots[i].hids_cid # NoCid =>
             h # NoHandle /\ links[h].cid = slots[i].hids_cid
        /\ slots[i].state = "READY" =>
             slots[i].hids_cid # NoCid /\ links[h].hid = "connected"

HandlesDistinct ==
  \A i, j \in Slot :
    slots[i].con_handle = slots[j].con_handle /\ slots[i].con_handle # NoHandle => i = j

ClientsDistinct ==
  \A g, h \in Handle : links[g].cid = links[h].cid /\ links[g].cid # NoCid => g = h

\* While the connecting slot has a link, no other attempt is on its way to it.
LinkEndsAttempt ==
  AwaitsConnection /\ slots[connecting_slot].con_handle # NoHandle =>
    outgoing = NoAddr /\ cancelled = NoAddr

\* What every handler finds and leaves, with the promises it implies.
IInv ==
  /\ TypeOK
  /\ SlotShape
  /\ LinkShape
  /\ SlotsHaveLinks
  /\ HandlesDistinct
  /\ ClientsDistinct
  /\ LinkEndsAttempt
  /\ SnapshotMatchesReady
  /\ ConnectingIsTracked

-------------------------------------------------------------------------------
(***************************************************************************)
(* Claims                                                                  *)
(***************************************************************************)

\* The bridge alternates between connecting and scanning, and a connection in
\* progress is not disturbed by a new scan.
InFlightUndisturbed ==
  scanning => \A i \in Slot : slots[i].state # "CONNECTING"

\* The pairing and re-encryption events, which carry no slot, are those of the
\* currently connecting device: a slot that is being secured is that one.
SecuredSlotIsConnecting ==
  \A i \in Slot :
    /\ slots[i].state = "CONNECTING"
    /\ slots[i].con_handle # NoHandle
    /\ Securing(slots[i].con_handle)
    => connecting_slot = i

\* The bridge remembers devices it has paired with: what enters the list is the
\* address of a device that is connected.
RememberedWasConnected ==
  [][\A a \in Addr : running /\ ~Bonded(a) /\ Bonded(a)' =>
       \E h \in Handle : Identity(links[h].addr) = Identity(a)]_vars

\* The devices behind a list of addresses.
Known(list) == {Identity(list[i]) : i \in 1..Len(list)}

\* The list has room for MAX_KNOWN_DEVICES devices: one is forgotten only to
\* make room for that many others, or with its own bond.
EvictedOnlyWhenFull ==
  [][\A a \in Addr : Bonded(a) /\ ~Bonded(a)' /\ bonded_list' # <<>> =>
       Cardinality(Known(bonded_list) \cup Known(bonded_list')) > MAX_KNOWN_DEVICES]_vars

\* Known devices reconnect without re-pairing: a failed pairing may cost the
\* device it was with its bond, and no other.
KnownOutliveFailures ==
  [][\A a \in Addr : Bonded(a) /\ running' /\ bonded_list' = <<>> =>
       \E h \in Handle : Identity(links[h].addr) = Identity(a)]_vars

===============================================================================
