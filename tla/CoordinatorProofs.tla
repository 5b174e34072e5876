--------------------------- MODULE CoordinatorProofs ---------------------------
(***************************************************************************)
(* The promises of module CoordinatorProperties, for any number of slots,  *)
(* links, clients and devices.                                             *)
(***************************************************************************)
EXTENDS CoordinatorTypeProofs

-------------------------------------------------------------------------------
(***************************************************************************)
(* What the shared functions leave                                         *)
(***************************************************************************)

\* A list of links that differs from the links of this state only in pairing
\* and in what the coordinator has asked BTstack to close.
Kept(lk) ==
  /\ lk \in [Handle -> Link]
  /\ \A h \in Handle : /\ lk[h].state = links[h].state
                       /\ lk[h].addr = links[h].addr
                       /\ lk[h].cid = links[h].cid
                       /\ lk[h].hid = links[h].hid
                       /\ links[h].state = "free" => lk[h] = links[h]

\* The links of a set of slots that the step leaves alone still serve them.
LinksServe(S) ==
  \A j \in S :
    LET h == slots[j].con_handle
    IN  h # NoHandle => /\ links'[h].state \in {"up", "down"}
                        /\ slots[j].hids_cid # NoCid =>
                             /\ links'[h].cid = links[h].cid
                             /\ links'[h].hid = links[h].hid

\* The parts of the invariant: slots, links, and the coordinator's own state.
SlotInv == SlotShape /\ SlotsHaveLinks /\ HandlesDistinct
LinkInv == LinkShape /\ ClientsDistinct
CoordInv == LinkEndsAttempt /\ SnapshotMatchesReady /\ ConnectingIsTracked

LEMMA KeptLinks ==
  ASSUME LinkInv, Kept(links')
  PROVE  LinkInv'
  BY DEF LinkInv, LinkShape, ClientsDistinct, Kept

LEMMA KeptSlots ==
  ASSUME TypeOK, SlotInv, Kept(links'), UNCHANGED slots
  PROVE  SlotInv'
  BY DEF SlotInv, SlotShape, SlotsHaveLinks, HandlesDistinct, Kept, TypeOK, HidSlot

LEMMA FreedSlot ==
  ASSUME TypeOK, SlotInv, NEW i \in Slot \cup {NoSlot}, FreeSlot(i),
         LinksServe(Slot \ {i})
  PROVE  SlotInv'
<1>1. \A j \in Slot : slots'[j] = IF j = i THEN IdleSlot ELSE slots[j]
  BY DEF FreeSlot
<1>2. SlotShape'
  BY <1>1 DEF SlotInv, SlotShape, IdleSlot
<1>3. HandlesDistinct'
  BY <1>1 DEF SlotInv, HandlesDistinct, IdleSlot
<1>4. SlotsHaveLinks'
  BY <1>1 DEF SlotInv, SlotsHaveLinks, IdleSlot, LinksServe
<1> QED
  BY <1>2, <1>3, <1>4 DEF SlotInv

LEMMA FreedAttempt ==
  ASSUME TypeOK, LinkEndsAttempt, NEW i \in Slot \cup {NoSlot}, FreeSlot(i),
         UNCHANGED <<outgoing, cancelled>> \/ i = connecting_slot
  PROVE  LinkEndsAttempt'
<1>1. CASE connecting_slot' = NoSlot
  BY <1>1 DEF LinkEndsAttempt, AwaitsConnection, NoSlot, Slot
<1>2. CASE connecting_slot' # NoSlot
  BY <1>2 DEF LinkEndsAttempt, AwaitsConnection, FreeSlot
<1> QED
  BY <1>1, <1>2

LEMMA Rescanned ==
  ASSUME NEW armed, MaybeStartScan(armed)
  PROVE  ConnectingIsTracked'
  BY DEF MaybeStartScan, StartScan, ConnectingIsTracked, AnyIdle

LEMMA Published ==
  ASSUME PublishSnapshot
  PROVE  SnapshotMatchesReady'
  BY DEF PublishSnapshot, SnapshotMatchesReady

LEMMA Begun ==
  ASSUME TypeOK, SlotInv, CoordInv, NEW a \in Addr, BeginConnect(a),
         links' = links, ready_snapshot' = ready_snapshot
  PROVE  SlotInv' /\ CoordInv'
<1>1. PICK i \in Slot :
        /\ slots[i].state = "IDLE"
        /\ slots' = [slots EXCEPT ![i].state = "CONNECTING", ![i].adv_addr = a]
        /\ connecting_slot' = i
        /\ coord_state' = "CONNECTING"
  BY DEF BeginConnect, FirstIdle
<1>2. slots[i] = IdleSlot
  <2>1. slots[i].state = "IDLE"
    BY <1>1
  <2> QED
    BY <2>1 DEF SlotInv, SlotShape
<1> DEFINE new == [IdleSlot EXCEPT !.state = "CONNECTING", !.adv_addr = a]
<1>3. slots' = [slots EXCEPT ![i] = [slots[i] EXCEPT !.state = "CONNECTING", !.adv_addr = a]]
  BY <1>1 DEF TypeOK, HidSlot
<1>4. \A j \in Slot : slots'[j] = IF j = i THEN new ELSE slots[j]
  BY <1>2, <1>3 DEF TypeOK
<1>a. /\ new.state = "CONNECTING"
      /\ new.adv_addr = a
      /\ new.con_handle = NoHandle
      /\ new.hids_cid = NoCid
  BY DEF IdleSlot
<1>b. a # NoAddr
  BY BtStackAssumption
<1> HIDE DEF new
<1>5. SlotShape'
  BY <1>4, <1>a, <1>b DEF SlotInv, SlotShape
<1>6. HandlesDistinct'
  BY <1>4, <1>a DEF SlotInv, HandlesDistinct
<1>7. SlotsHaveLinks'
  BY <1>4, <1>a DEF SlotInv, SlotsHaveLinks
<1>8. LinkEndsAttempt'
  BY <1>1, <1>4, <1>a DEF LinkEndsAttempt
<1>9. SnapshotMatchesReady'
  <2>1. \A j \in Slot : (slots'[j].state = "READY") <=> (slots[j].state = "READY")
    BY <1>1, <1>4, <1>a
  <2>2. \A j \in Slot : slots[j].state = "READY" => slots'[j] = slots[j]
    BY <1>1, <1>4
  <2> QED
    BY <2>1, <2>2 DEF CoordInv, SnapshotMatchesReady, SnapshotOf
<1>10. ConnectingIsTracked'
  BY <1>1, <1>4, <1>a DEF ConnectingIsTracked
<1> QED
  BY <1>5, <1>6, <1>7, <1>8, <1>9, <1>10 DEF SlotInv, CoordInv

LEMMA Failed ==
  ASSUME TypeOK, SlotInv, LinkEndsAttempt, NEW i \in Slot \cup {NoSlot}, NEW armed,
         OnConnectFail(i, armed),
         UNCHANGED <<outgoing, cancelled>> \/ i = connecting_slot,
         LinksServe(Slot \ {i})
  PROVE  SlotInv' /\ CoordInv'
<1>1. FreeSlot(i) /\ PublishSnapshot /\ MaybeStartScan(armed)
  BY DEF OnConnectFail
<1>2. SlotInv'
  BY <1>1, FreedSlot
<1>3. LinkEndsAttempt'
  BY <1>1, FreedAttempt
<1>4. SnapshotMatchesReady' /\ ConnectingIsTracked'
  BY <1>1, Published, Rescanned
<1> QED
  BY <1>2, <1>3, <1>4 DEF CoordInv

\* The other slots keep their links when nothing happens to any link but what
\* Kept allows.
LEMMA OthersKept ==
  ASSUME TypeOK, SlotInv, NEW lk, Kept(lk), links' = lk, NEW i \in Slot \cup {NoSlot}
  PROVE  LinksServe(Slot \ {i})
<1> SUFFICES ASSUME NEW j \in Slot, slots[j].con_handle # NoHandle
             PROVE  LET h == slots[j].con_handle
                    IN  /\ links'[h].state \in {"up", "down"}
                        /\ links'[h].cid = links[h].cid
                        /\ links'[h].hid = links[h].hid
  BY DEF LinksServe
<1>1. slots[j].con_handle \in Handle
  BY DEF TypeOK, HidSlot
<1> QED
  BY <1>1 DEF Kept, SlotInv, SlotsHaveLinks

LEMMA ErrorHandled ==
  ASSUME TypeOK, SlotInv, LinkInv, CoordInv, NEW i \in Slot \cup {NoSlot},
         NEW lk, Kept(lk), HandleConnectionError(i, lk), UNCHANGED <<outgoing, cancelled>>
  PROVE  SlotInv' /\ LinkInv' /\ CoordInv'
<1>1. CASE /\ GapDisconnect(IF i \in Slot THEN slots[i].con_handle ELSE NoHandle, lk)
           /\ UNCHANGED <<coordVars, scanning, publishedVars>>
  <2> DEFINE h == IF i \in Slot THEN slots[i].con_handle ELSE NoHandle
  <2> HIDE DEF h
  <2>1. Kept(links')
    <3>1. CASE h \in Handle /\ lk[h].state = "up"
      <4>1. links' = [lk EXCEPT ![h] = [lk[h] EXCEPT !.closing = TRUE]]
        BY <1>1, <3>1 DEF GapDisconnect, Kept, Link, h
      <4>2. lk \in [Handle -> Link] /\ lk[h] \in Link
        BY <3>1 DEF Kept
      <4>3. /\ links' \in [Handle -> Link]
            /\ links'[h].state = "up"
            /\ links'[h].addr = lk[h].addr
            /\ links'[h].cid = lk[h].cid
            /\ links'[h].hid = lk[h].hid
            /\ \A g \in Handle \ {h} : links'[g] = lk[g]
        BY <3>1, <4>1, <4>2 DEF Link
      <4> QED
        BY <3>1, <4>3 DEF Kept
    <3>2. CASE ~(h \in Handle /\ lk[h].state = "up")
      BY <1>1, <3>2 DEF GapDisconnect, h
    <3> QED
      BY <3>1, <3>2
  <2>2. SlotInv' /\ LinkInv'
    BY <2>1, <1>1, KeptLinks, KeptSlots DEF coordVars
  <2>3. CoordInv'
    BY <1>1 DEF CoordInv, coordVars, publishedVars, LinkEndsAttempt, AwaitsConnection,
                SnapshotMatchesReady, SnapshotOf, ConnectingIsTracked, AnyIdle
  <2> QED
    BY <2>2, <2>3
<1>2. CASE links' = lk /\ OnConnectFail(i, connection_timer)
  <2>1. SlotInv' /\ CoordInv'
    BY <1>2, Failed, OthersKept DEF CoordInv
  <2> QED
    BY <2>1, <1>2, KeptLinks
<1> QED
  BY <1>1, <1>2 DEF HandleConnectionError

LEMMA ServiceSought ==
  ASSUME TypeOK, SlotInv, LinkInv, CoordInv, NEW i \in Slot \cup {NoSlot},
         NEW lk, Kept(lk), ConnectToHidService(i, lk), UNCHANGED <<outgoing, cancelled>>
  PROVE  SlotInv' /\ LinkInv' /\ CoordInv'
<1>1. CASE i \in Slot /\ HidsHostAccepts(slots[i].con_handle, lk)
  <2> DEFINE h == slots[i].con_handle
  <2>1. /\ h \in Handle
        /\ lk[h].state = "up"
        /\ lk[h].cid = NoCid
    BY <1>1 DEF HidsHostAccepts
  <2>2. PICK c \in FreeCids(lk) :
          /\ HidsHostConnect(h, c, lk)
          /\ slots' = [slots EXCEPT ![i].hids_cid = c]
    BY <1>1 DEF ConnectToHidService
  <2>3. c \in Cid /\ c # NoCid /\ \A g \in Handle : lk[g].cid # c
    BY <2>2, BtStackAssumption DEF FreeCids
  <2>4. UNCHANGED <<coord_state, connecting_slot, ready_snapshot>>
    BY <1>1 DEF ConnectToHidService, publishedVars
  <2>5. /\ links'[h].cid = c
        /\ links'[h].hid = "discovering"
        /\ links'[h].state = lk[h].state
        /\ links'[h].addr = lk[h].addr
        /\ \A g \in Handle \ {h} : links'[g] = lk[g]
    <3>1. links' = [lk EXCEPT ![h] = [lk[h] EXCEPT !.cid = c, !.hid = "discovering"]]
      BY <2>1, <2>2 DEF HidsHostConnect, Kept, Link
    <3>2. lk \in [Handle -> Link] /\ lk[h] \in Link
      BY <2>1 DEF Kept
    <3> QED
      BY <2>1, <3>1, <3>2 DEF Link
  <2>6. /\ slots'[i].hids_cid = c
        /\ slots'[i].state = slots[i].state
        /\ slots'[i].con_handle = slots[i].con_handle
        /\ slots'[i].adv_addr = slots[i].adv_addr
        /\ \A j \in Slot \ {i} : slots'[j] = slots[j]
    BY <1>1, <2>2 DEF TypeOK, HidSlot
  <2>7. h # NoHandle /\ slots[i].hids_cid = NoCid /\ slots[i].state = "CONNECTING"
    <3>1. h # NoHandle
      BY <2>1, BtStackAssumption
    <3>2. slots[i].hids_cid = NoCid
      BY <1>1, <2>1 DEF Kept, SlotInv, SlotsHaveLinks
    <3>3. slots[i].state # "READY"
      BY <1>1, <3>2 DEF SlotInv, SlotsHaveLinks
    <3>4. slots[i].state # "IDLE"
      BY <1>1, <3>1 DEF SlotInv, SlotShape, IdleSlot
    <3> QED
      BY <1>1, <3>1, <3>2, <3>3, <3>4 DEF TypeOK, HidSlot
  <2> HIDE DEF h
  <2>8. SlotShape'
    BY <1>1, <2>6, <2>7 DEF SlotInv, SlotShape
  <2>9. HandlesDistinct'
    BY <1>1, <2>6 DEF SlotInv, HandlesDistinct
  <2>10. SlotsHaveLinks'
    <3> SUFFICES ASSUME NEW j \in Slot
                 PROVE  LET g == slots'[j].con_handle
                        IN  /\ g # NoHandle => links'[g].state \in {"up", "down"}
                            /\ slots'[j].hids_cid # NoCid =>
                                 g # NoHandle /\ links'[g].cid = slots'[j].hids_cid
                            /\ slots'[j].state = "READY" =>
                                 slots'[j].hids_cid # NoCid /\ links'[g].hid = "connected"
      BY DEF SlotsHaveLinks
    <3>1. CASE j = i
      BY <3>1, <2>1, <2>5, <2>6, <2>7 DEF h
    <3>2. CASE j # i
      <4>1. slots[j].con_handle # NoHandle => slots[j].con_handle # h
        BY <1>1, <3>2 DEF SlotInv, HandlesDistinct, h
      <4>2. slots[j].con_handle \in Handle \cup {NoHandle}
        BY DEF TypeOK, HidSlot
      <4>3. slots'[j] = slots[j]
        BY <2>6, <3>2
      <4>4. slots[j].con_handle # NoHandle =>
              /\ links'[slots[j].con_handle].state = links[slots[j].con_handle].state
              /\ links'[slots[j].con_handle].cid = links[slots[j].con_handle].cid
              /\ links'[slots[j].con_handle].hid = links[slots[j].con_handle].hid
        BY <2>5, <4>1, <4>2 DEF Kept
      <4> QED
        BY <4>3, <4>4 DEF SlotInv, SlotsHaveLinks
    <3> QED
      BY <3>1, <3>2
  <2>11. LinkShape'
    BY <2>1, <2>3, <2>5 DEF LinkInv, LinkShape, Kept
  <2>12. ClientsDistinct'
    BY <2>1, <2>3, <2>5 DEF LinkInv, ClientsDistinct, Kept
  <2>13. LinkEndsAttempt'
    BY <1>1, <2>4, <2>6 DEF CoordInv, LinkEndsAttempt, AwaitsConnection
  <2>14. SnapshotMatchesReady'
    <3>1. \A j \in Slot : (slots'[j].state = "READY") <=> (slots[j].state = "READY")
      BY <1>1, <2>6
    <3>2. \A j \in Slot : slots[j].state = "READY" => slots'[j] = slots[j]
      BY <1>1, <2>6, <2>7
    <3> QED
      BY <2>4, <3>1, <3>2 DEF CoordInv, SnapshotMatchesReady, SnapshotOf
  <2>15. ConnectingIsTracked'
    BY <1>1, <2>4, <2>6 DEF CoordInv, ConnectingIsTracked, AnyIdle
  <2> QED
    BY <2>8, <2>9, <2>10, <2>11, <2>12, <2>13, <2>14, <2>15 DEF SlotInv, LinkInv, CoordInv
<1>2. CASE ~(i \in Slot /\ HidsHostAccepts(slots[i].con_handle, lk))
  <2>1. links' = lk /\ OnConnectFail(i, connection_timer)
    BY <1>2 DEF ConnectToHidService
  <2>2. SlotInv' /\ CoordInv'
    BY <2>1, Failed, OthersKept DEF CoordInv
  <2> QED
    BY <2>1, <2>2, KeptLinks
<1> QED
  BY <1>1, <1>2

LEMMA ConnectIfBegun ==
  ASSUME TypeOK, SlotInv, LinkInv, CoordInv, NEW a \in Addr, NEW accepted,
         ConnectIf(accepted, a), UNCHANGED <<cancelled, links, ready_snapshot>>
  PROVE  SlotInv' /\ LinkInv' /\ CoordInv'
<1>1. LinkInv'
  BY DEF LinkInv, LinkShape, ClientsDistinct
<1>2. CASE BeginConnect(a)
  BY <1>1, <1>2, Begun
<1>3. CASE UNCHANGED <<coordVars, scanning, outgoing>>
  BY <1>1, <1>3 DEF SlotInv, SlotShape, SlotsHaveLinks, HandlesDistinct, coordVars,
     CoordInv, LinkEndsAttempt, AwaitsConnection, SnapshotMatchesReady, SnapshotOf,
     ConnectingIsTracked, AnyIdle
<1> QED
  BY <1>2, <1>3 DEF ConnectIf

\* Handlers that only decide what the coordinator does next.
LEMMA Decided ==
  ASSUME SlotInv, LinkInv, CoordInv, ConnectingIsTracked',
         UNCHANGED <<slots, links, connecting_slot, outgoing, cancelled, ready_snapshot>>
  PROVE  SlotInv' /\ LinkInv' /\ CoordInv'
  BY DEF SlotInv, SlotShape, SlotsHaveLinks, HandlesDistinct,
     LinkInv, LinkShape, ClientsDistinct,
     CoordInv, LinkEndsAttempt, AwaitsConnection, SnapshotMatchesReady, SnapshotOf

\* Events of a link that concern no slot.
LEMMA KeptCoord ==
  ASSUME CoordInv, UNCHANGED <<coordVars, publishedVars, outgoing, cancelled>>
  PROVE  CoordInv'
  BY DEF CoordInv, coordVars, publishedVars, LinkEndsAttempt, AwaitsConnection,
     SnapshotMatchesReady, SnapshotOf, ConnectingIsTracked, AnyIdle

LEMMA ServedSlots ==
  ASSUME SlotInv, UNCHANGED slots, LinksServe(Slot)
  PROVE  SlotInv'
  BY DEF SlotInv, SlotShape, SlotsHaveLinks, HandlesDistinct, LinksServe

-------------------------------------------------------------------------------
(***************************************************************************)
(* One lemma per handler                                                   *)
(***************************************************************************)

CoreInv == SlotInv /\ LinkInv /\ CoordInv

LEMMA DecidingHandlers ==
  ASSUME TypeOK, CoreInv,
         \/ OnBtstackReady \/ ScanTimeout \/ ButtonPress \/ WindowExpires \/ LedTick
         \/ ConsumeReinitRequest
  PROVE  CoreInv'
<1>1. UNCHANGED <<slots, links, connecting_slot, outgoing, cancelled, ready_snapshot>>
  BY DEF OnBtstackReady, ScanTimeout, ButtonPress, WindowExpires, LedTick,
     ConsumeReinitRequest, publishedVars, coordVars, btVars
<1>2. ConnectingIsTracked'
  <2>1. CASE \E armed : MaybeStartScan(armed)
    BY <2>1, Rescanned
  <2>2. CASE coord_state' = coord_state \/ coord_state' = "ALL_READY"
    BY <1>1, <2>2 DEF CoreInv, CoordInv, ConnectingIsTracked, AnyIdle
  <2>3. CASE ScanTimeout
    <3>1. coord_state' = coord_state \/ coord_state' = "ALL_READY"
      BY <2>3 DEF ScanTimeout, StartScan
    <3> QED
      BY <3>1, <2>2
  <2>4. CASE OnBtstackReady \/ ButtonPress \/ LedTick
    BY <2>1, <2>2, <2>4 DEF OnBtstackReady, ButtonPress, LedTick
  <2>5. CASE WindowExpires \/ ConsumeReinitRequest
    BY <2>2, <2>5 DEF WindowExpires, ConsumeReinitRequest, coordVars
  <2> QED
    BY <2>3, <2>4, <2>5
<1> QED
  BY <1>1, <1>2, Decided DEF CoreInv

LEMMA ConnectingHandlers ==
  ASSUME TypeOK, CoreInv,
         \/ \E a \in Addr, hid \in BOOLEAN : OnAdvertisingReport(a, hid)
         \/ \E r \in RpaAddr : OnRpaResolved(r) \/ OnRpaResolveFailed(r)
  PROVE  CoreInv'
<1>1. UNCHANGED <<cancelled, links, ready_snapshot>>
  BY DEF OnAdvertisingReport, OnRpaResolved, OnRpaResolveFailed, publishedVars
<1>2. CASE \E a \in Addr : \E accepted : ConnectIf(accepted, a)
  BY <1>1, <1>2, ConnectIfBegun DEF CoreInv
<1>3. CASE UNCHANGED <<coordVars, scanning, outgoing>>
  <2>1. SlotInv' /\ LinkInv'
    BY <1>1, <1>3 DEF CoreInv, SlotInv, SlotShape, SlotsHaveLinks, HandlesDistinct,
       LinkInv, LinkShape, ClientsDistinct, coordVars
  <2>2. CoordInv'
    BY <1>1, <1>3 DEF CoreInv, CoordInv, coordVars, LinkEndsAttempt, AwaitsConnection,
       SnapshotMatchesReady, SnapshotOf, ConnectingIsTracked, AnyIdle
  <2> QED
    BY <2>1, <2>2 DEF CoreInv
<1>4. CASE \E a \in Addr, hid \in BOOLEAN : OnAdvertisingReport(a, hid)
  BY <1>2, <1>3, <1>4 DEF OnAdvertisingReport
<1>5. CASE \E r \in RpaAddr : OnRpaResolved(r) \/ OnRpaResolveFailed(r)
  BY <1>2, <1>5, DevicesAssumption DEF OnRpaResolved, OnRpaResolveFailed
<1> QED
  BY <1>4, <1>5

LEMMA ConnectionUp ==
  ASSUME TypeOK, CoreInv, NEW a \in Addr, OnConnectionUp(a)
  PROVE  CoreInv'
<1>1. PICK h \in FreeHandles :
        \/ AwaitsConnection /\ AdoptLink(h, a)
        \/ /\ ~AwaitsConnection
           /\ links' = [links EXCEPT ![h] = NewLink(a)]
           /\ UNCHANGED <<slots, connection_timer>>
  BY DEF OnConnectionUp
<1>2. /\ outgoing' = NoAddr /\ cancelled' = NoAddr
      /\ outgoing # NoAddr \/ cancelled # NoAddr
      /\ UNCHANGED <<coord_state, connecting_slot, ready_snapshot>>
  BY DEF OnConnectionUp, AnswerAttempt, AheadOfNextAttempt, publishedVars
<1>3. h \in Handle /\ links[h].state = "free" /\ links[h] = FreeLink
  BY DEF FreeHandles, CoreInv, LinkInv, LinkShape
<1>4. /\ links'[h].state = "up"
      /\ links'[h].addr = a
      /\ links'[h].cid = NoCid
      /\ links'[h].hid = "none"
      /\ \A g \in Handle \ {h} : links'[g] = links[g]
  BY <1>1, <1>3 DEF AdoptLink, NewLink, FreeLink, TypeOK, BtTypeOK
<1>5. a # NoAddr
  BY BtStackAssumption
<1>6. LinkInv'
  <2>1. LinkShape'
    BY <1>3, <1>4, <1>5 DEF CoreInv, LinkInv, LinkShape
  <2>2. ClientsDistinct'
    BY <1>3, <1>4 DEF CoreInv, LinkInv, ClientsDistinct
  <2> QED
    BY <2>1, <2>2 DEF LinkInv
<1>7. \A j \in Slot : slots[j].con_handle # h
  BY <1>3, BtStackAssumption DEF CoreInv, SlotInv, SlotsHaveLinks
<1>8. LinksServe(Slot)
  <2> SUFFICES ASSUME NEW j \in Slot, slots[j].con_handle # NoHandle
               PROVE  LET g == slots[j].con_handle
                      IN  /\ links'[g].state \in {"up", "down"}
                          /\ links'[g].cid = links[g].cid
                          /\ links'[g].hid = links[g].hid
    BY DEF LinksServe
  <2>1. slots[j].con_handle \in Handle \ {h}
    BY <1>7 DEF TypeOK, HidSlot
  <2> QED
    BY <1>4, <2>1 DEF CoreInv, SlotInv, SlotsHaveLinks
<1>9. CASE ~AwaitsConnection
  <2>1. UNCHANGED slots
    BY <1>1, <1>9
  <2>2. SlotInv'
    BY <2>1, <1>8, ServedSlots DEF CoreInv
  <2>3. CoordInv'
    BY <1>2, <1>9, <2>1 DEF CoreInv, CoordInv, LinkEndsAttempt, AwaitsConnection,
       SnapshotMatchesReady, SnapshotOf, ConnectingIsTracked, AnyIdle
  <2> QED
    BY <1>6, <2>2, <2>3 DEF CoreInv
<1>10. CASE AwaitsConnection
  <2> DEFINE i == connecting_slot
  <2>1. /\ i \in Slot
        /\ slots[i].state = "CONNECTING"
        /\ slots' = [slots EXCEPT ![i].con_handle = h]
    BY <1>1, <1>10 DEF AwaitsConnection, AdoptLink
  <2>2. slots[i].con_handle = NoHandle
    BY <1>2, <1>10 DEF CoreInv, CoordInv, LinkEndsAttempt
  <2>3. slots[i].hids_cid = NoCid
    BY <2>1, <2>2 DEF CoreInv, SlotInv, SlotsHaveLinks
  <2>4. /\ slots'[i].con_handle = h
        /\ slots'[i].state = "CONNECTING"
        /\ slots'[i].hids_cid = NoCid
        /\ slots'[i].adv_addr = slots[i].adv_addr
        /\ \A j \in Slot \ {i} : slots'[j] = slots[j]
    BY <2>1, <2>3 DEF TypeOK, HidSlot
  <2> HIDE DEF i
  <2>5. SlotShape'
    BY <2>1, <2>4 DEF CoreInv, SlotInv, SlotShape
  <2>6. HandlesDistinct'
    BY <1>7, <2>4 DEF CoreInv, SlotInv, HandlesDistinct
  <2>7. SlotsHaveLinks'
    <3>1. ASSUME NEW j \in Slot \ {i}
          PROVE  LET g == slots'[j].con_handle
                 IN  /\ g # NoHandle => links'[g].state \in {"up", "down"}
                     /\ slots'[j].hids_cid # NoCid =>
                          g # NoHandle /\ links'[g].cid = slots'[j].hids_cid
                     /\ slots'[j].state = "READY" =>
                          slots'[j].hids_cid # NoCid /\ links'[g].hid = "connected"
      BY <1>8, <2>4 DEF CoreInv, SlotInv, SlotsHaveLinks, LinksServe
    <3> QED
      BY <1>4, <2>4, <3>1 DEF SlotsHaveLinks
  <2>8. LinkEndsAttempt'
    BY <1>2 DEF LinkEndsAttempt
  <2>9. SnapshotMatchesReady'
    <3>1. \A j \in Slot : (slots'[j].state = "READY") <=> (slots[j].state = "READY")
      BY <2>1, <2>4
    <3>2. \A j \in Slot : slots[j].state = "READY" => slots'[j] = slots[j]
      BY <2>1, <2>4
    <3> QED
      BY <1>2, <3>1, <3>2 DEF CoreInv, CoordInv, SnapshotMatchesReady, SnapshotOf
  <2>10. ConnectingIsTracked'
    BY <1>2, <2>1, <2>4 DEF CoreInv, CoordInv, ConnectingIsTracked, AnyIdle
  <2> QED
    BY <1>6, <2>5, <2>6, <2>7, <2>8, <2>9, <2>10 DEF CoreInv, SlotInv, CoordInv
<1> QED
  BY <1>9, <1>10

LEMMA AttemptsEnded ==
  ASSUME TypeOK, CoreInv,
         (\E a \in Addr : OnConnectionFailed(a)) \/ ConnectionTimeout
  PROVE  CoreInv'
<1>1. UNCHANGED links
  BY DEF OnConnectionFailed, ConnectionTimeout
<1>2. LinkInv'
  BY <1>1 DEF CoreInv, LinkInv, LinkShape, ClientsDistinct
<1>3. CASE OnConnectFail(connecting_slot, "off")
  <2>1. LinksServe(Slot \ {connecting_slot})
    BY <1>1 DEF LinksServe, CoreInv, SlotInv, SlotsHaveLinks
  <2>2. connecting_slot \in Slot \cup {NoSlot}
    BY DEF TypeOK
  <2> QED
    BY <1>2, <1>3, <2>1, <2>2, Failed DEF CoreInv, CoordInv
<1>4. CASE /\ UNCHANGED <<slots, coord_state, connecting_slot, publishedVars>>
           /\ UNCHANGED <<outgoing, cancelled>> \/ ~AwaitsConnection
  <2>1. SlotInv'
    BY <1>1, <1>4 DEF CoreInv, SlotInv, SlotShape, SlotsHaveLinks, HandlesDistinct
  <2>2. CoordInv'
    BY <1>4 DEF CoreInv, CoordInv, publishedVars, LinkEndsAttempt, AwaitsConnection,
       SnapshotMatchesReady, SnapshotOf, ConnectingIsTracked, AnyIdle
  <2> QED
    BY <1>2, <2>1, <2>2 DEF CoreInv
<1>5. CASE \E a \in Addr : OnConnectionFailed(a)
  BY <1>3, <1>4, <1>5 DEF OnConnectionFailed, coordVars
<1>6. CASE ConnectionTimeout
  BY <1>3, <1>4, <1>6 DEF ConnectionTimeout
<1> QED
  BY <1>5, <1>6

\* Pairing events change nothing of a link but its sm.
LEMMA SmKept ==
  ASSUME TypeOK, LinkInv, NEW h \in Handle, links[h].state # "free",
         NEW new \in {"none", "asked", "keyed", "secured"}
  PROVE  Kept([links EXCEPT ![h].sm = new])
<1> DEFINE lk == [links EXCEPT ![h].sm = new]
<1>1. lk = [links EXCEPT ![h] = [links[h] EXCEPT !.sm = new]]
  BY DEF TypeOK, BtTypeOK, Link
<1>2. links[h] \in Link /\ links \in [Handle -> Link]
  BY DEF TypeOK, BtTypeOK
<1> HIDE DEF lk
<1>3. /\ lk \in [Handle -> Link]
      /\ lk[h].state = links[h].state
      /\ lk[h].addr = links[h].addr
      /\ lk[h].cid = links[h].cid
      /\ lk[h].hid = links[h].hid
      /\ \A g \in Handle \ {h} : lk[g] = links[g]
  BY <1>1, <1>2 DEF Link
<1>4. Kept(lk)
  BY <1>3 DEF Kept
<1> QED
  BY <1>4 DEF lk

LEMMA SecuringIsLive ==
  ASSUME LinkInv, NEW h \in Handle, Securing(h)
  PROVE  links[h].state # "free"
  BY DEF LinkInv, LinkShape, Securing, FreeLink

LEMMA SecurityHandlers ==
  ASSUME TypeOK, CoreInv, NEW h \in Handle,
         \/ SecurityRequest(h) \/ OnIdentityCreated(h) \/ SecurityOutcome(h)
         \/ OnSecurityAborted(h)
  PROVE  CoreInv'
<1>1. connecting_slot \in Slot \cup {NoSlot}
  BY DEF TypeOK
<1>2. ASSUME NEW lk, Kept(lk), UNCHANGED <<outgoing, cancelled>>,
             \/ \E status \in {"success", "key missing", "failed"} : PairingComplete(status, lk)
             \/ ConnectToHidService(connecting_slot, lk)
      PROVE  CoreInv'
  BY <1>1, <1>2, ErrorHandled, ServiceSought DEF CoreInv, PairingComplete
<1>3. CASE SecurityRequest(h) \/ OnIdentityCreated(h)
  <2>1. links[h].state # "free"
    BY <1>3, SecuringIsLive DEF SecurityRequest, OnIdentityCreated, Securing, Up, CoreInv
  <2>2. Kept(links')
    BY <1>3, <2>1, SmKept DEF SecurityRequest, OnIdentityCreated, CoreInv
  <2>3. UNCHANGED <<coordVars, publishedVars, outgoing, cancelled>>
    BY <1>3 DEF SecurityRequest, OnIdentityCreated
  <2> QED
    BY <2>2, <2>3, KeptLinks, KeptSlots, KeptCoord DEF CoreInv, coordVars
<1>4. ASSUME NEW status \in {"success", "key missing", "failed"}, OnPairingComplete(h, status)
      PROVE  CoreInv'
  <2>1. links[h].state # "free"
    BY <1>4, SecuringIsLive DEF OnPairingComplete, Securing, CoreInv
  <2> DEFINE lk == [links EXCEPT ![h].sm = IF status = "success" THEN "secured" ELSE "none"]
  <2>2. Kept(lk)
    BY <2>1, SmKept DEF CoreInv
  <2> QED
    BY <1>2, <1>4, <2>2 DEF OnPairingComplete
<1>5. ASSUME NEW secured \in BOOLEAN, OnReencryptionComplete(h, secured)
      PROVE  CoreInv'
  <2>1. links[h].state # "free"
    BY <1>5, SecuringIsLive DEF OnReencryptionComplete, Securing, CoreInv
  <2> DEFINE lk == [links EXCEPT ![h].sm = IF secured THEN "secured" ELSE "none"]
  <2>2. Kept(lk)
    BY <2>1, SmKept DEF CoreInv
  <2> QED
    BY <1>2, <1>5, <2>2 DEF OnReencryptionComplete
<1>6. CASE OnSecurityAborted(h)
  <2>1. links[h].state # "free"
    BY <1>6 DEF OnSecurityAborted
  <2> DEFINE lk == [links EXCEPT ![h].sm = "none"]
  <2>2. Kept(lk)
    BY <2>1, SmKept DEF CoreInv
  <2> QED
    BY <1>2, <1>6, <2>2 DEF OnSecurityAborted
<1> QED
  BY <1>3, <1>4, <1>5, <1>6 DEF SecurityOutcome

LEMMA LinkIsLost ==
  ASSUME TypeOK, CoreInv, NEW h \in Handle, LinkLost(h)
  PROVE  CoreInv'
<1>1. /\ links[h].state = "up"
      /\ links'[h].state = "down"
      /\ links'[h].addr = links[h].addr
      /\ links'[h].cid = links[h].cid
      /\ links'[h].hid = links[h].hid
      /\ \A g \in Handle \ {h} : links'[g] = links[g]
  BY DEF LinkLost, Up, TypeOK, BtTypeOK, Link
<1>2. UNCHANGED <<coordVars, publishedVars, outgoing, cancelled>>
  BY DEF LinkLost
<1>3. LinkInv'
  BY <1>1 DEF CoreInv, LinkInv, LinkShape, ClientsDistinct
<1>4. LinksServe(Slot)
  BY <1>1 DEF LinksServe, CoreInv, SlotInv, SlotsHaveLinks, TypeOK, HidSlot
<1> QED
  BY <1>2, <1>3, <1>4, ServedSlots, KeptCoord DEF CoreInv, coordVars

\* Only one slot is behind a client, and its handle is that of the client's link.
LEMMA ClientsSlot ==
  ASSUME TypeOK, CoreInv, NEW h \in Handle, links[h].cid # NoCid
  PROVE  \A j \in Slot : /\ slots[j].hids_cid = links[h].cid => slots[j].con_handle = h
                         /\ slots[j].con_handle = h /\ slots[j].hids_cid # NoCid =>
                              slots[j].hids_cid = links[h].cid
                         /\ slots[j].state = "IDLE" => slots[j].hids_cid = NoCid
<1> SUFFICES ASSUME NEW j \in Slot
             PROVE  /\ slots[j].hids_cid = links[h].cid => slots[j].con_handle = h
                    /\ slots[j].con_handle = h /\ slots[j].hids_cid # NoCid =>
                         slots[j].hids_cid = links[h].cid
                    /\ slots[j].state = "IDLE" => slots[j].hids_cid = NoCid
  OBVIOUS
<1>1. slots[j].con_handle \in Handle \cup {NoHandle}
  BY DEF TypeOK, HidSlot
<1>2. CASE slots[j].hids_cid = links[h].cid
  <2>1. slots[j].con_handle # NoHandle /\ links[slots[j].con_handle].cid = links[h].cid
    BY <1>2 DEF CoreInv, SlotInv, SlotsHaveLinks
  <2> QED
    BY <1>1, <2>1, <1>2 DEF CoreInv, LinkInv, ClientsDistinct, SlotInv, SlotShape, IdleSlot
<1>3. CASE slots[j].hids_cid # links[h].cid
  BY <1>3 DEF CoreInv, SlotInv, SlotsHaveLinks, SlotShape, IdleSlot
<1> QED
  BY <1>2, <1>3

LEMMA HidServiceConnected ==
  ASSUME TypeOK, CoreInv, NEW h \in Handle, OnHidServiceConnected(h)
  PROVE  CoreInv'
<1>1. /\ links[h].hid = "discovering"
      /\ links'[h].hid = "connected"
      /\ links'[h].state = links[h].state
      /\ links'[h].addr = links[h].addr
      /\ links'[h].cid = links[h].cid
      /\ \A g \in Handle \ {h} : links'[g] = links[g]
  BY DEF OnHidServiceConnected, TypeOK, BtTypeOK, Link
<1>2. links[h].cid # NoCid
  BY <1>1 DEF CoreInv, LinkInv, LinkShape
<1>3. LinkInv'
  <2>1. LinkShape'
    <3>1. links[h].state # "free" /\ links[h].addr # NoAddr
      BY <1>2 DEF CoreInv, LinkInv, LinkShape, FreeLink
    <3> QED
      BY <1>1, <1>2, <3>1 DEF CoreInv, LinkInv, LinkShape
  <2>2. ClientsDistinct'
    BY <1>1 DEF CoreInv, LinkInv, ClientsDistinct
  <2> QED
    BY <2>1, <2>2 DEF LinkInv
<1>4. \A j \in Slot :
        LET g == slots[j].con_handle
        IN  g # NoHandle => /\ links'[g].state \in {"up", "down"}
                            /\ links'[g].cid = links[g].cid
                            /\ links[g].hid = "connected" => links'[g].hid = "connected"
  BY <1>1 DEF CoreInv, SlotInv, SlotsHaveLinks, TypeOK, HidSlot
<1>5. UNCHANGED <<connecting_slot, outgoing, cancelled>>
  BY DEF OnHidServiceConnected
<1>6. CASE UNCHANGED <<slots, coord_state, publishedVars>>
  <2>1. SlotInv'
    BY <1>4, <1>6 DEF CoreInv, SlotInv, SlotShape, SlotsHaveLinks, HandlesDistinct
  <2>2. CoordInv'
    BY <1>5, <1>6 DEF CoreInv, CoordInv, publishedVars, LinkEndsAttempt, AwaitsConnection,
       SnapshotMatchesReady, SnapshotOf, ConnectingIsTracked, AnyIdle
  <2> QED
    BY <1>3, <2>1, <2>2 DEF CoreInv
<1>7. ASSUME NEW i \in Slot, SlotOfCid(i, links[h].cid),
             slots' = [slots EXCEPT ![i].state = "READY"],
             PublishSnapshot, MaybeStartScan(connection_timer)
      PROVE  CoreInv'
  <2>1. slots[i].state # "IDLE" /\ slots[i].hids_cid = links[h].cid
    BY <1>7 DEF SlotOfCid, HasCid
  <2>2. slots[i].con_handle = h
    BY <1>2, <2>1, ClientsSlot
  <2>3. /\ slots'[i].state = "READY"
        /\ slots'[i].con_handle = h
        /\ slots'[i].hids_cid = links[h].cid
        /\ slots'[i].adv_addr = slots[i].adv_addr
        /\ \A j \in Slot \ {i} : slots'[j] = slots[j]
    BY <1>7, <2>1, <2>2 DEF TypeOK, HidSlot
  <2>4. SlotShape'
    BY <2>1, <2>3 DEF CoreInv, SlotInv, SlotShape
  <2>5. HandlesDistinct'
    BY <2>2, <2>3 DEF CoreInv, SlotInv, HandlesDistinct
  <2>6. SlotsHaveLinks'
    <3>1. ASSUME NEW j \in Slot \ {i}
          PROVE  LET g == slots'[j].con_handle
                 IN  /\ g # NoHandle => links'[g].state \in {"up", "down"}
                     /\ slots'[j].hids_cid # NoCid =>
                          g # NoHandle /\ links'[g].cid = slots'[j].hids_cid
                     /\ slots'[j].state = "READY" =>
                          slots'[j].hids_cid # NoCid /\ links'[g].hid = "connected"
      BY <1>4, <2>3 DEF CoreInv, SlotInv, SlotsHaveLinks
    <3>2. h # NoHandle /\ links[h].state \in {"up", "down"}
      BY <2>2, BtStackAssumption DEF CoreInv, SlotInv, SlotsHaveLinks
    <3> QED
      BY <1>1, <1>2, <2>3, <3>1, <3>2 DEF SlotsHaveLinks
  <2>7. LinkEndsAttempt'
    BY <1>5, <2>3 DEF CoreInv, CoordInv, LinkEndsAttempt, AwaitsConnection
  <2>8. SnapshotMatchesReady' /\ ConnectingIsTracked'
    BY <1>7, Published, Rescanned
  <2> QED
    BY <1>3, <2>4, <2>5, <2>6, <2>7, <2>8 DEF CoreInv, SlotInv, CoordInv
<1> QED
  BY <1>6, <1>7 DEF OnHidServiceConnected

LEMMA HidServiceLost ==
  ASSUME TypeOK, CoreInv, NEW h \in Handle,
         OnHidServiceFailed(h) \/ OnHidServiceDisconnected(h)
  PROVE  CoreInv'
<1>1. /\ links[h].cid # NoCid
      /\ links[h].state # "free"
      /\ links'[h].cid = NoCid
      /\ links'[h].hid = "none"
      /\ \A g \in Handle \ {h} : links'[g] = links[g]
      /\ \/ links'[h].state = links[h].state /\ links'[h].addr = links[h].addr
         \/ links[h].state = "gone" /\ links'[h] = FreeLink
      /\ links'[h].state # "gone"
  <2>1. CASE OnHidServiceFailed(h)
    <3>1. links[h].cid # NoCid /\ links[h].state # "free" /\ links[h].state # "gone"
      BY <2>1 DEF OnHidServiceFailed, Quiet, NoLinkDown, CoreInv, LinkInv, LinkShape, FreeLink
    <3>2. links' = [links EXCEPT ![h] = [links[h] EXCEPT !.hid = "none", !.cid = NoCid]]
      BY <2>1 DEF OnHidServiceFailed, TypeOK, BtTypeOK, Link
    <3> QED
      BY <3>1, <3>2 DEF TypeOK, BtTypeOK, Link
  <2>2. CASE OnHidServiceDisconnected(h)
    <3>1. links[h].cid # NoCid /\ links[h].state \in {"down", "gone"}
      BY <2>2 DEF OnHidServiceDisconnected
    <3>2. links' = [links EXCEPT ![h] = IF links[h].state = "gone"
                                         THEN FreeLink
                                         ELSE [links[h] EXCEPT !.cid = NoCid, !.hid = "none"]]
      BY <2>2 DEF OnHidServiceDisconnected, TypeOK, BtTypeOK
    <3>3. /\ FreeLink.cid = NoCid /\ FreeLink.hid = "none" /\ FreeLink.state = "free"
      BY DEF FreeLink
    <3>4. CASE links[h].state = "gone"
      BY <3>1, <3>2, <3>3, <3>4 DEF TypeOK, BtTypeOK
    <3>5. CASE links[h].state = "down"
      <4>1. links' = [links EXCEPT ![h] = [links[h] EXCEPT !.cid = NoCid, !.hid = "none"]]
        BY <3>2, <3>5
      <4> QED
        BY <3>1, <3>5, <4>1 DEF TypeOK, BtTypeOK, Link
    <3> QED
      BY <3>1, <3>4, <3>5
  <2> QED
    BY <2>1, <2>2
<1>2. LinkInv'
  <2>1. LinkShape'
    <3>1. links[h].addr # NoAddr
      BY <1>1 DEF CoreInv, LinkInv, LinkShape
    <3>2. FreeLink.state = "free" /\ FreeLink.hid = "none" /\ FreeLink.cid = NoCid
      BY DEF FreeLink
    <3> QED
      BY <1>1, <3>1, <3>2 DEF CoreInv, LinkInv, LinkShape
  <2>2. ClientsDistinct'
    BY <1>1 DEF CoreInv, LinkInv, ClientsDistinct
  <2> QED
    BY <2>1, <2>2 DEF LinkInv
<1>3. \A j \in Slot : slots[j].hids_cid # links[h].cid => LinksServe({j})
  <2> SUFFICES ASSUME NEW j \in Slot, slots[j].hids_cid # links[h].cid,
                      slots[j].con_handle # NoHandle
               PROVE  LET g == slots[j].con_handle
                      IN  /\ links'[g].state \in {"up", "down"}
                          /\ slots[j].hids_cid # NoCid =>
                               /\ links'[g].cid = links[g].cid
                               /\ links'[g].hid = links[g].hid
    BY DEF LinksServe
  <2>1. slots[j].con_handle \in Handle /\ links[slots[j].con_handle].state \in {"up", "down"}
    BY DEF CoreInv, SlotInv, SlotsHaveLinks, TypeOK, HidSlot
  <2>2. CASE slots[j].con_handle = h
    <3>1. slots[j].hids_cid = NoCid
      BY <1>1, <2>2, ClientsSlot
    <3> QED
      BY <1>1, <2>1, <2>2, <3>1
  <2>3. CASE slots[j].con_handle # h
    BY <1>1, <2>1, <2>3
  <2> QED
    BY <2>2, <2>3
<1>4. UNCHANGED <<outgoing, cancelled>>
  BY DEF OnHidServiceFailed, OnHidServiceDisconnected
<1>5. ASSUME NEW i \in Slot, SlotOfCid(i, links[h].cid), FreeSlot(i),
             PublishSnapshot, MaybeStartScan(connection_timer)
      PROVE  CoreInv'
  <2>1. slots[i].hids_cid = links[h].cid
    BY <1>5 DEF SlotOfCid, HasCid
  <2>2. \A j \in Slot \ {i} : slots[j].hids_cid # links[h].cid
    BY <1>1, <2>1, ClientsSlot, BtStackAssumption DEF CoreInv, SlotInv, HandlesDistinct
  <2>3. LinksServe(Slot \ {i})
    BY <1>3, <2>2 DEF LinksServe
  <2> QED
    BY <1>2, <1>4, <1>5, <2>3, Failed DEF CoreInv, CoordInv, OnConnectFail
<1>6. CASE /\ \A i \in Slot : ~HasCid(i, links[h].cid)
           /\ UNCHANGED <<coordVars, publishedVars, scanning>>
  <2>1. \A j \in Slot : slots[j].hids_cid # links[h].cid
    BY <1>1, <1>6, ClientsSlot DEF HasCid
  <2>2. LinksServe(Slot)
    BY <1>3, <2>1 DEF LinksServe
  <2> QED
    BY <1>2, <1>4, <1>6, <2>2, ServedSlots, KeptCoord DEF CoreInv, coordVars
<1> QED
  BY <1>5, <1>6 DEF OnHidServiceFailed, OnHidServiceDisconnected, OnConnectFail

LEMMA Disconnected ==
  ASSUME TypeOK, CoreInv, NEW h \in Handle, OnDisconnection(h)
  PROVE  CoreInv'
<1>1. /\ links[h].state = "down"
      /\ \A g \in Handle \ {h} : links'[g] = links[g]
      /\ \/ links'[h] = FreeLink
         \/ /\ links[h].cid # NoCid
            /\ links'[h].state = "gone"
            /\ links'[h].addr = links[h].addr
            /\ links'[h].cid = links[h].cid
            /\ links'[h].hid = links[h].hid
  <2>1. links[h].state = "down"
    BY DEF OnDisconnection
  <2>2. links' = [links EXCEPT ![h] = IF links[h].cid = NoCid
                                       THEN FreeLink
                                       ELSE [links[h] EXCEPT !.state = "gone"]]
    BY DEF OnDisconnection, TypeOK, BtTypeOK
  <2>3. CASE links[h].cid = NoCid
    BY <2>1, <2>2, <2>3 DEF TypeOK, BtTypeOK
  <2>4. CASE links[h].cid # NoCid
    <3>1. links' = [links EXCEPT ![h] = [links[h] EXCEPT !.state = "gone"]]
      BY <2>2, <2>4
    <3> QED
      BY <2>1, <2>4, <3>1 DEF TypeOK, BtTypeOK, Link
  <2> QED
    BY <2>3, <2>4
<1>2. LinkInv'
  <2>1. links[h].addr # NoAddr
    BY <1>1 DEF CoreInv, LinkInv, LinkShape
  <2>2. FreeLink.state = "free" /\ FreeLink.hid = "none" /\ FreeLink.cid = NoCid
    BY DEF FreeLink
  <2>3. LinkShape'
    BY <1>1, <2>1, <2>2 DEF CoreInv, LinkInv, LinkShape
  <2>4. ClientsDistinct'
    BY <1>1, <2>2 DEF CoreInv, LinkInv, ClientsDistinct
  <2> QED
    BY <2>3, <2>4 DEF LinkInv
<1>3. \A j \in Slot : slots[j].con_handle # h => LinksServe({j})
  BY <1>1 DEF LinksServe, CoreInv, SlotInv, SlotsHaveLinks, TypeOK, HidSlot
<1>4. UNCHANGED <<outgoing, cancelled>>
  BY DEF OnDisconnection
<1>5. ASSUME NEW i \in Slot, SlotOfHandle(i, h), FreeSlot(i), PublishSnapshot,
             MaybeStartScan("off")
      PROVE  CoreInv'
  <2>1. slots[i].con_handle = h /\ h # NoHandle
    BY <1>5, BtStackAssumption DEF SlotOfHandle, HasHandle
  <2>2. \A j \in Slot \ {i} : slots[j].con_handle # h
    BY <2>1 DEF CoreInv, SlotInv, HandlesDistinct
  <2>3. LinksServe(Slot \ {i})
    BY <1>3, <2>2 DEF LinksServe
  <2> QED
    BY <1>2, <1>4, <1>5, <2>3, Failed DEF CoreInv, CoordInv, OnConnectFail
<1>6. CASE /\ \A i \in Slot : ~HasHandle(i, h)
           /\ UNCHANGED <<coordVars, publishedVars>>
  <2>1. \A j \in Slot : slots[j].con_handle # h
    BY <1>6, BtStackAssumption DEF HasHandle, CoreInv, SlotInv, SlotShape, IdleSlot
  <2>2. LinksServe(Slot)
    BY <1>3, <2>1 DEF LinksServe
  <2> QED
    BY <1>2, <1>4, <1>6, <2>2, ServedSlots, KeptCoord DEF CoreInv, coordVars
<1> QED
  BY <1>5, <1>6 DEF OnDisconnection

\* Nothing is left of any link or slot when the bridge is switched on.
LEMMA Off ==
  ASSUME slots = [i \in Slot |-> IdleSlot], links = [h \in Handle |-> FreeLink],
         coord_state = "ALL_READY", connecting_slot = NoSlot, ready_snapshot = {}
  PROVE  CoreInv
<1>1. \A i \in Slot : slots[i] = IdleSlot
  OBVIOUS
<1>2. \A h \in Handle : links[h] = FreeLink
  OBVIOUS
<1>3. SlotInv
  BY <1>1 DEF SlotInv, SlotShape, SlotsHaveLinks, HandlesDistinct, IdleSlot
<1>4. LinkInv
  BY <1>2 DEF LinkInv, LinkShape, ClientsDistinct, FreeLink
<1>5. LinkEndsAttempt
  BY DEF LinkEndsAttempt, AwaitsConnection, Slot, NoSlot
<1>6. SnapshotMatchesReady
  BY <1>1 DEF SnapshotMatchesReady, SnapshotOf, IdleSlot
<1>7. ConnectingIsTracked
  BY DEF ConnectingIsTracked
<1> QED
  BY <1>3, <1>4, <1>5, <1>6, <1>7 DEF CoreInv, CoordInv

LEMMA PowerCycled ==
  ASSUME PowerCycle
  PROVE  CoreInv'
<1>1. /\ slots' = [i \in Slot |-> IdleSlot]
      /\ links' = [h \in Handle |-> FreeLink]
      /\ coord_state' = "ALL_READY" /\ connecting_slot' = NoSlot /\ ready_snapshot' = {}
  BY DEF PowerCycle
<1>2. \A i \in Slot : slots'[i] = IdleSlot
  BY <1>1
<1>3. \A h \in Handle : /\ links'[h] = FreeLink
                        /\ links'[h].state = "free"
                        /\ links'[h].hid = "none"
                        /\ links'[h].cid = NoCid
  BY <1>1 DEF FreeLink
<1>4. SlotInv'
  BY <1>2 DEF SlotInv, SlotShape, SlotsHaveLinks, HandlesDistinct, IdleSlot
<1>5. LinkInv'
  BY <1>3 DEF LinkInv, LinkShape, ClientsDistinct
<1>6. LinkEndsAttempt'
  BY <1>1 DEF LinkEndsAttempt, AwaitsConnection, Slot, NoSlot
<1>7. SnapshotMatchesReady'
  BY <1>1, <1>2 DEF SnapshotMatchesReady, SnapshotOf, IdleSlot
<1>8. ConnectingIsTracked'
  BY <1>1 DEF ConnectingIsTracked
<1> QED
  BY <1>4, <1>5, <1>6, <1>7, <1>8 DEF CoreInv, CoordInv

-------------------------------------------------------------------------------
(***************************************************************************)
(* The theorems                                                            *)
(***************************************************************************)

LEMMA IInvParts == IInv <=> TypeOK /\ CoreInv
  BY DEF IInv, CoreInv, SlotInv, LinkInv, CoordInv

LEMMA InitIInv == Init => IInv
<1> SUFFICES ASSUME Init PROVE IInv
  OBVIOUS
<1> USE DEF Init, PowerOn
<1>1. CoreInv
  BY Off DEF BtInit
<1>2. BondsTypeOK
  <2>1. bonded_list = <<>> /\ bonded_flash = <<>> /\ has_bonded_device = FALSE
    BY DEF BondsInit
  <2>2. <<>> \in Seq(Addr) /\ Len(<<>>) <= MAX_KNOWN_DEVICES
    BY NoBonds
  <2> QED
    BY <2>1, <2>2 DEF BondsTypeOK
<1>3. RpaTypeOK
  BY RpaLookupsAssumption DEF RpaTypeOK, RpaInit, Entries
<1>4. BtTypeOK
  BY DEF BtTypeOK, BtInit, FreeLink, Link
<1>5. slots \in [Slot -> HidSlot]
  BY DEF IdleSlot, HidSlot
<1>6. TypeOK
  BY <1>2, <1>3, <1>4, <1>5 DEF TypeOK
<1> QED
  BY <1>1, <1>6, IInvParts

LEMMA NextIInv == IInv /\ [Next]_vars => IInv'
<1> SUFFICES ASSUME IInv, [Next]_vars PROVE IInv'
  OBVIOUS
<1>1. TypeOK /\ CoreInv
  BY IInvParts
<1>2. TypeOK'
  BY <1>1, TypeInductive DEF CoreInv, SlotInv, LinkInv
<1>3. CoreInv'
  <2>1. CASE UNCHANGED vars
    BY <1>1, <2>1 DEF vars, coordVars, publishedVars, btVars, CoreInv, SlotInv, SlotShape,
       SlotsHaveLinks, HandlesDistinct, LinkInv, LinkShape, ClientsDistinct, CoordInv,
       LinkEndsAttempt, AwaitsConnection, SnapshotMatchesReady, SnapshotOf,
       ConnectingIsTracked, AnyIdle
  <2>2. CASE \E h \in Handle : \/ SecurityRequest(h) \/ OnIdentityCreated(h)
                               \/ SecurityOutcome(h) \/ OnSecurityAborted(h)
    BY <1>1, <2>2, SecurityHandlers
  <2>3. CASE \E h \in Handle : \/ HidOutcome(h) \/ LinkLost(h)
                               \/ OnHidServiceDisconnected(h) \/ OnDisconnection(h)
    BY <1>1, <2>3, HidServiceConnected, HidServiceLost, LinkIsLost, Disconnected
       DEF HidOutcome
  <2>4. CASE \E a \in Addr : OnConnectionUp(a) \/ OnConnectionFailed(a)
    BY <1>1, <2>4, ConnectionUp, AttemptsEnded
  <2> QED
    BY <1>1, <2>1, <2>2, <2>3, <2>4, DecidingHandlers, ConnectingHandlers, AttemptsEnded,
       PowerCycled DEF Next, LinkEndReported
<1> QED
  BY <1>2, <1>3 DEF IInv, CoreInv, SlotInv, LinkInv, CoordInv

\* The invariant holds throughout every behaviour of the coordinator.
THEOREM Invariance == Spec => []IInv
  BY InitIInv, NextIInv, PTL DEF Spec

\* Every variable keeps to its type: no handler leaves a handle, a client id, an
\* address or a list that the code could not represent.
THEOREM TypeCorrect == Spec => []TypeOK
<1>1. IInv => TypeOK
  BY DEF IInv
<1> QED
  BY <1>1, Invariance, PTL

\* Every handler that changes the READY set publishes it before it returns.
THEOREM SnapshotCorrect == Spec => []SnapshotMatchesReady
<1>1. IInv => SnapshotMatchesReady
  BY DEF IInv
<1> QED
  BY <1>1, Invariance, PTL

\* A slot stays READY only with the discovered client of its own live link.
THEOREM ReadyCorrect == Spec => []ReadyHasClient
<1>1. IInv => ReadyHasClient
  <2> SUFFICES ASSUME IInv, NEW i \in Slot, slots[i].state = "READY"
               PROVE  LET h == slots[i].con_handle
                      IN  /\ h \in Handle
                          /\ links[h].hid = "connected"
                          /\ links[h].cid = slots[i].hids_cid
    BY DEF ReadyHasClient
  <2>1. slots[i].con_handle \in Handle \cup {NoHandle}
    BY DEF IInv, TypeOK, HidSlot
  <2> QED
    BY <2>1 DEF IInv, SlotsHaveLinks
<1> QED
  BY <1>1, Invariance, PTL

\* A first match of find_slot_by_cid or find_slot_by_con_handle is the only one.
THEOREM LookupCorrect == Spec => []UnambiguousLookup
<1>1. IInv => UnambiguousLookup
  <2> SUFFICES ASSUME IInv, NEW i \in Slot, NEW j \in Slot, i # j
               PROVE  /\ slots[i].con_handle = slots[j].con_handle =>
                           slots[i].con_handle = NoHandle
                      /\ slots[i].hids_cid = slots[j].hids_cid => slots[i].hids_cid = NoCid
    BY DEF UnambiguousLookup
  <2>1. slots[i].con_handle = slots[j].con_handle => slots[i].con_handle = NoHandle
    BY DEF IInv, HandlesDistinct
  <2>2. ASSUME slots[i].hids_cid = slots[j].hids_cid, slots[i].hids_cid # NoCid
        PROVE  FALSE
    <3> DEFINE g == slots[i].con_handle
               h == slots[j].con_handle
    <3>1. g \in Handle /\ h \in Handle
      BY <2>2 DEF IInv, SlotsHaveLinks, TypeOK, HidSlot
    <3>2. links[g].cid = links[h].cid /\ links[g].cid # NoCid
      BY <2>2 DEF IInv, SlotsHaveLinks
    <3>3. g = h
      BY <3>1, <3>2 DEF IInv, ClientsDistinct
    <3> QED
      BY <2>1, <3>1, <3>3, BtStackAssumption
  <2> QED
    BY <2>1, <2>2
<1> QED
  BY <1>1, Invariance, PTL

\* A coordinator that believes it is connecting tracks the slot it connects, and
\* one that scans has a slot for what it finds.
THEOREM TrackingCorrect == Spec => []ConnectingIsTracked
<1>1. IInv => ConnectingIsTracked
  BY DEF IInv
<1> QED
  BY <1>1, Invariance, PTL

===============================================================================
