------------------------- MODULE CoordinatorTypeProofs -------------------------
(***************************************************************************)
(* Every step of the coordinator keeps TypeOK, given the two shape         *)
(* invariants that say where addresses are present: an event on a link     *)
(* carries the address of its device.                                      *)
(***************************************************************************)
EXTENDS CoordinatorProperties, TLAPS

LEMMA FreeSlotType ==
  ASSUME TypeOK, NEW i \in Slot \cup {NoSlot}, FreeSlot(i)
  PROVE  /\ slots' \in [Slot -> HidSlot]
         /\ connecting_slot' \in Slot \cup {NoSlot}
  BY DEF TypeOK, FreeSlot, HidSlot, IdleSlot

LEMMA PublishType ==
  ASSUME slots' \in [Slot -> HidSlot], PublishSnapshot
  PROVE  /\ ready_snapshot' \subseteq [slot : Slot, hids_cid : Cid \cup {NoCid}]
         /\ g_usb_reinit_request' \in BOOLEAN
  BY DEF PublishSnapshot, SnapshotOf, HidSlot

LEMMA MaybeStartScanType ==
  ASSUME TypeOK, NEW armed \in {"off", "scan", "connect"}, MaybeStartScan(armed)
  PROVE  /\ coord_state' \in {"SCANNING", "CONNECTING", "ALL_READY"}
         /\ connection_timer' \in {"off", "scan", "connect"}
         /\ scanning' \in BOOLEAN
  BY DEF TypeOK, BtTypeOK, MaybeStartScan, StartScan

LEMMA NoBonds == <<>> \in Seq(Addr) /\ Len(<<>>) <= MAX_KNOWN_DEVICES
  BY MaxKnownAssumption

LEMMA BondsAddType ==
  ASSUME BondsTypeOK, NEW a \in Addr, BondsAdd(a)
  PROVE  /\ bonded_list' \in Seq(Addr)
         /\ Len(bonded_list') <= MAX_KNOWN_DEVICES
         /\ has_bonded_device' \in BOOLEAN
  BY MaxKnownAssumption DEF BondsTypeOK, BondsAdd, Added

LEMMA TrackLookupType ==
  ASSUME RpaTypeOK, NEW r \in RpaAddr, NEW hid \in BOOLEAN, TrackLookup(r, hid), SmAddressResolutionLookup(r)
  PROVE  RpaTypeOK'
  BY RpaLookupsAssumption DEF RpaTypeOK, TrackLookup, SmAddressResolutionLookup, Entries, Lookup

LEMMA BeginConnectType ==
  ASSUME TypeOK, NEW a \in Addr, BeginConnect(a)
  PROVE  /\ slots' \in [Slot -> HidSlot]
         /\ coord_state' \in {"SCANNING", "CONNECTING", "ALL_READY"}
         /\ connecting_slot' \in Slot \cup {NoSlot}
         /\ connection_timer' \in {"off", "scan", "connect"}
         /\ scanning' \in BOOLEAN
         /\ outgoing' \in Addr \cup {NoAddr}
<1>1. PICK i \in Slot :
        /\ slots' = [slots EXCEPT ![i].state = "CONNECTING", ![i].adv_addr = a]
        /\ connecting_slot' = i
  BY DEF BeginConnect
<1>2. slots' \in [Slot -> HidSlot]
  <2>1. slots[i] \in HidSlot
    BY DEF TypeOK
  <2>2. [slots[i] EXCEPT !.state = "CONNECTING", !.adv_addr = a] \in HidSlot
    BY <2>1 DEF HidSlot
  <2>3. slots' = [slots EXCEPT ![i] = [slots[i] EXCEPT !.state = "CONNECTING", !.adv_addr = a]]
    BY <1>1, <2>1 DEF TypeOK, HidSlot
  <2> QED
    BY <2>2, <2>3 DEF TypeOK
<1>3. /\ coord_state' = "CONNECTING"
      /\ connection_timer' = "connect"
      /\ scanning' = FALSE
      /\ GapConnect(a)
  BY DEF BeginConnect
<1> QED
  BY <1>1, <1>2, <1>3 DEF TypeOK, BtTypeOK, GapConnect

LEMMA OnConnectFailType ==
  ASSUME TypeOK, NEW i \in Slot \cup {NoSlot},
         NEW armed \in {"off", "scan", "connect"}, OnConnectFail(i, armed)
  PROVE  /\ slots' \in [Slot -> HidSlot]
         /\ connecting_slot' \in Slot \cup {NoSlot}
         /\ ready_snapshot' \subseteq [slot : Slot, hids_cid : Cid \cup {NoCid}]
         /\ g_usb_reinit_request' \in BOOLEAN
         /\ coord_state' \in {"SCANNING", "CONNECTING", "ALL_READY"}
         /\ connection_timer' \in {"off", "scan", "connect"}
         /\ scanning' \in BOOLEAN
<1>1. FreeSlot(i) /\ PublishSnapshot /\ MaybeStartScan(armed)
  BY DEF OnConnectFail
<1>2. /\ slots' \in [Slot -> HidSlot]
      /\ connecting_slot' \in Slot \cup {NoSlot}
  BY <1>1, FreeSlotType
<1> QED
  BY <1>1, <1>2, PublishType, MaybeStartScanType

CoordTypeOK ==
  /\ slots \in [Slot -> HidSlot]
  /\ coord_state \in {"SCANNING", "CONNECTING", "ALL_READY"}
  /\ connecting_slot \in Slot \cup {NoSlot}
  /\ connection_timer \in {"off", "scan", "connect"}
  /\ scanning \in BOOLEAN

LEMMA ConnectIfType ==
  ASSUME TypeOK, NEW a \in Addr, NEW accepted, ConnectIf(accepted, a)
  PROVE  CoordTypeOK' /\ outgoing' \in Addr \cup {NoAddr}
<1>1. CASE BeginConnect(a)
  BY <1>1, BeginConnectType DEF CoordTypeOK
<1>2. CASE UNCHANGED <<coordVars, scanning, outgoing>>
  BY <1>2 DEF TypeOK, BtTypeOK, CoordTypeOK, coordVars
<1> QED
  BY <1>1, <1>2 DEF ConnectIf

LEMMA ConnectToHidServiceType ==
  ASSUME TypeOK, NEW i \in Slot \cup {NoSlot}, NEW lk \in [Handle -> Link],
         ConnectToHidService(i, lk)
  PROVE  /\ CoordTypeOK'
         /\ links' \in [Handle -> Link]
         /\ ready_snapshot' \subseteq [slot : Slot, hids_cid : Cid \cup {NoCid}]
         /\ g_usb_reinit_request' \in BOOLEAN
<1>1. CASE i \in Slot /\ HidsHostAccepts(slots[i].con_handle, lk)
  <2> DEFINE h == slots[i].con_handle
  <2>1. h \in Handle
    BY <1>1 DEF HidsHostAccepts
  <2>2. PICK c \in Cid : /\ HidsHostConnect(h, c, lk)
                         /\ slots' = [slots EXCEPT ![i].hids_cid = c]
    BY <1>1 DEF ConnectToHidService, FreeCids
  <2>3. /\ UNCHANGED <<coord_state, connecting_slot, connection_timer, scanning>>
        /\ UNCHANGED publishedVars
    BY <1>1 DEF ConnectToHidService
  <2>4. links' \in [Handle -> Link]
    BY <2>1, <2>2 DEF HidsHostConnect, Link
  <2>5. slots' \in [Slot -> HidSlot]
    BY <1>1, <2>2 DEF TypeOK, HidSlot
  <2> QED
    BY <2>3, <2>4, <2>5 DEF TypeOK, BtTypeOK, CoordTypeOK, publishedVars
<1>2. CASE links' = lk /\ OnConnectFail(i, connection_timer)
  BY <1>2, OnConnectFailType DEF CoordTypeOK, TypeOK
<1> QED
  BY <1>1, <1>2 DEF ConnectToHidService

LEMMA HandleConnectionErrorType ==
  ASSUME TypeOK, NEW i \in Slot \cup {NoSlot}, NEW lk \in [Handle -> Link],
         HandleConnectionError(i, lk)
  PROVE  /\ CoordTypeOK'
         /\ links' \in [Handle -> Link]
         /\ ready_snapshot' \subseteq [slot : Slot, hids_cid : Cid \cup {NoCid}]
         /\ g_usb_reinit_request' \in BOOLEAN
<1>1. ASSUME NEW h, GapDisconnect(h, lk), UNCHANGED <<coordVars, scanning, publishedVars>>
      PROVE  /\ CoordTypeOK'
             /\ links' \in [Handle -> Link]
             /\ ready_snapshot' \subseteq [slot : Slot, hids_cid : Cid \cup {NoCid}]
             /\ g_usb_reinit_request' \in BOOLEAN
  <2>1. links' \in [Handle -> Link]
    BY <1>1 DEF GapDisconnect, Link
  <2> QED
    BY <1>1, <2>1 DEF TypeOK, BtTypeOK, CoordTypeOK, coordVars, publishedVars
<1>2. CASE links' = lk /\ OnConnectFail(i, connection_timer)
  BY <1>2, OnConnectFailType DEF CoordTypeOK, TypeOK
<1> QED
  BY <1>1, <1>2 DEF HandleConnectionError

LEMMA PairingCompleteType ==
  ASSUME TypeOK, NEW status \in {"success", "key missing", "failed"},
         NEW lk \in [Handle -> Link], PairingComplete(status, lk)
  PROVE  /\ CoordTypeOK'
         /\ links' \in [Handle -> Link]
         /\ ready_snapshot' \subseteq [slot : Slot, hids_cid : Cid \cup {NoCid}]
         /\ g_usb_reinit_request' \in BOOLEAN
         /\ BondsTypeOK'
<1>0. connecting_slot \in Slot \cup {NoSlot} /\ BondsTypeOK
  BY DEF TypeOK
<1>1. CASE UNCHANGED bondVars /\ ConnectToHidService(connecting_slot, lk)
  BY <1>0, <1>1, ConnectToHidServiceType DEF BondsTypeOK, bondVars
<1>2. CASE BondsForget /\ HandleConnectionError(connecting_slot, lk)
  <2>1. BondsTypeOK'
    BY <1>2, NoBonds DEF BondsTypeOK, BondsForget
  <2> QED
    BY <1>0, <1>2, <2>1, HandleConnectionErrorType
<1>3. CASE UNCHANGED bondVars /\ HandleConnectionError(connecting_slot, lk)
  BY <1>0, <1>3, HandleConnectionErrorType DEF BondsTypeOK, bondVars
<1> QED
  BY <1>1, <1>2, <1>3 DEF PairingComplete

LEMMA TypeInductive == TypeOK /\ SlotShape /\ LinkShape /\ [Next]_vars => TypeOK'
<1> SUFFICES ASSUME TypeOK, SlotShape, LinkShape, [Next]_vars
             PROVE  TypeOK'
  OBVIOUS
<1>0. /\ connecting_slot \in Slot \cup {NoSlot}
      /\ connection_timer \in {"off", "scan", "connect"}
      /\ links \in [Handle -> Link]
      /\ "off" \in {"off", "scan", "connect"}
  BY DEF TypeOK, BtTypeOK
<1> USE DEF TypeOK, BtTypeOK, CoordTypeOK, coordVars, windowVars, publishedVars,
            bondVars, rpaVars
<1>1. CASE OnBtstackReady
  <2>1. MaybeStartScan(connection_timer)
    BY <1>1 DEF OnBtstackReady
  <2>2. BondsTypeOK'
    BY <1>1 DEF OnBtstackReady, BondsLoad, BondsTypeOK
  <2>3. /\ coord_state' \in {"SCANNING", "CONNECTING", "ALL_READY"}
        /\ connection_timer' \in {"off", "scan", "connect"}
        /\ scanning' \in BOOLEAN
    BY <2>1, <1>0, MaybeStartScanType
  <2> QED
    BY <1>1, <2>2, <2>3 DEF OnBtstackReady, RpaTypeOK
<1>2. ASSUME NEW a \in Addr, NEW hid \in BOOLEAN, OnAdvertisingReport(a, hid)
      PROVE  TypeOK'
  <2>1. CASE has_bonded_device /\ a \in RpaAddr
    <3>1. TrackLookup(a, hid) /\ SmAddressResolutionLookup(a)
      BY <1>2, <2>1 DEF OnAdvertisingReport
    <3>2. RpaTypeOK'
      BY <2>1, <3>1, TrackLookupType
    <3> QED
      BY <1>2, <2>1, <3>2 DEF OnAdvertisingReport, BondsTypeOK
  <2>2. CASE ~(has_bonded_device /\ a \in RpaAddr)
    <3>1. PICK accepted : ConnectIf(accepted, a)
      BY <1>2, <2>2 DEF OnAdvertisingReport
    <3>2. CoordTypeOK' /\ outgoing' \in Addr \cup {NoAddr}
      BY <3>1, ConnectIfType
    <3> QED
      BY <1>2, <2>2, <3>2 DEF OnAdvertisingReport, BondsTypeOK, RpaTypeOK
  <2> QED
    BY <2>1, <2>2
<1>3. ASSUME NEW r \in RpaAddr, OnRpaResolved(r) \/ OnRpaResolveFailed(r)
      PROVE  TypeOK'
  <2>1. PICK accepted : ConnectIf(accepted, r)
    BY <1>3 DEF OnRpaResolved, OnRpaResolveFailed
  <2>2. CoordTypeOK' /\ outgoing' \in Addr \cup {NoAddr}
    BY <2>1, ConnectIfType, DevicesAssumption
  <2>3. RpaTypeOK'
    BY <1>3 DEF OnRpaResolved, OnRpaResolveFailed, RpaTypeOK, ClearPending
  <2> QED
    BY <1>3, <2>2, <2>3 DEF OnRpaResolved, OnRpaResolveFailed, BondsTypeOK
<1>4. ASSUME NEW a \in Addr, OnConnectionUp(a)
      PROVE  TypeOK'
  <2>1. outgoing' \in Addr \cup {NoAddr} /\ cancelled' \in Addr \cup {NoAddr}
    BY <1>4 DEF OnConnectionUp, AnswerAttempt
  <2>2. PICK h \in Handle :
          \/ AwaitsConnection /\ AdoptLink(h, a)
          \/ /\ links' = [links EXCEPT ![h] = NewLink(a)]
             /\ UNCHANGED <<slots, connection_timer>>
    BY <1>4 DEF OnConnectionUp, FreeHandles
  <2>3. NewLink(a) \in Link /\ [NewLink(a) EXCEPT !.sm = "asked"] \in Link
    BY DEF NewLink, FreeLink, Link
  <2>4. links' \in [Handle -> Link]
    BY <2>2, <2>3 DEF AdoptLink
  <2>5. slots' \in [Slot -> HidSlot] /\ connection_timer' \in {"off", "scan", "connect"}
    BY <2>2 DEF AdoptLink, AwaitsConnection, HidSlot
  <2> QED
    BY <1>4, <2>1, <2>4, <2>5 DEF OnConnectionUp, BondsTypeOK, RpaTypeOK
<1>5. ASSUME NEW a \in Addr, OnConnectionFailed(a)
      PROVE  TypeOK'
  <2>1. outgoing' \in Addr \cup {NoAddr} /\ cancelled' \in Addr \cup {NoAddr}
    BY <1>5 DEF OnConnectionFailed, AnswerAttempt
  <2>2. CASE OnConnectFail(connecting_slot, "off")
    BY <1>5, <1>0, <2>1, <2>2, OnConnectFailType DEF OnConnectionFailed, BondsTypeOK, RpaTypeOK
  <2>3. CASE UNCHANGED <<coordVars, publishedVars, scanning>>
    BY <1>5, <2>1, <2>3 DEF OnConnectionFailed, BondsTypeOK, RpaTypeOK
  <2> QED
    BY <1>5, <2>2, <2>3 DEF OnConnectionFailed
<1>6. ASSUME NEW h \in Handle, SecurityRequest(h) \/ LinkLost(h)
      PROVE  TypeOK'
  <2>1. links' \in [Handle -> Link]
    BY <1>6 DEF SecurityRequest, LinkLost, Link
  <2> QED
    BY <1>6, <2>1 DEF SecurityRequest, LinkLost, BondsTypeOK, RpaTypeOK
<1>7. ASSUME NEW h \in Handle, OnIdentityCreated(h)
      PROVE  TypeOK'
  <2>1. links' \in [Handle -> Link]
    BY <1>7 DEF OnIdentityCreated, Link
  <2>2. links[h].addr \in Addr
    BY <1>7 DEF OnIdentityCreated, Link, LinkShape, FreeLink
  <2>3. Identity(links[h].addr) \in Addr
    BY <2>2, DevicesAssumption DEF Identity
  <2>4. BondsAdd(Identity(links[h].addr)) /\ UNCHANGED bonded_flash
    BY <1>7 DEF OnIdentityCreated
  <2>5. BondsTypeOK'
    BY <2>3, <2>4, BondsAddType DEF BondsTypeOK
  <2> QED
    BY <1>7, <2>1, <2>5 DEF OnIdentityCreated, RpaTypeOK
<1>8. ASSUME NEW h \in Handle, SecurityOutcome(h) \/ OnSecurityAborted(h)
      PROVE  TypeOK'
  <2>1. PICK sm \in {"none", "secured"} :
          \/ \E status \in {"success", "key missing", "failed"} :
               PairingComplete(status, [links EXCEPT ![h].sm = sm])
          \/ /\ UNCHANGED bondVars
             /\ ConnectToHidService(connecting_slot, [links EXCEPT ![h].sm = sm])
    BY <1>8 DEF SecurityOutcome, OnPairingComplete, OnReencryptionComplete, OnSecurityAborted
  <2>2. [links EXCEPT ![h].sm = sm] \in [Handle -> Link]
    BY DEF Link
  <2>3. /\ CoordTypeOK'
        /\ links' \in [Handle -> Link]
        /\ ready_snapshot' \subseteq [slot : Slot, hids_cid : Cid \cup {NoCid}]
        /\ g_usb_reinit_request' \in BOOLEAN
        /\ BondsTypeOK'
    BY <1>0, <2>1, <2>2, PairingCompleteType, ConnectToHidServiceType DEF BondsTypeOK
  <2>4. UNCHANGED <<windowVars, rpaVars, running, outgoing, cancelled>>
    BY <1>8 DEF SecurityOutcome, OnPairingComplete, OnReencryptionComplete, OnSecurityAborted
  <2> QED
    BY <2>3, <2>4 DEF RpaTypeOK
<1>9. ASSUME NEW h \in Handle, OnHidServiceConnected(h)
      PROVE  TypeOK'
  <2>1. links' \in [Handle -> Link]
    BY <1>9 DEF OnHidServiceConnected, Link
  <2>2. /\ UNCHANGED <<connecting_slot, windowVars, rpaVars, running, outgoing, cancelled>>
    BY <1>9 DEF OnHidServiceConnected
  <2>3. ASSUME NEW i \in Slot, HasCid(i, links[h].cid), BondsAddIfMissing(slots[i].adv_addr),
               BondsSave, slots' = [slots EXCEPT ![i].state = "READY"],
               PublishSnapshot, MaybeStartScan(connection_timer)
        PROVE  TypeOK'
    <3>1. slots' \in [Slot -> HidSlot]
      BY <2>3 DEF HidSlot
    <3>2. slots[i].adv_addr \in Addr
      BY <2>3 DEF HasCid, SlotShape, HidSlot
    <3>3. BondsTypeOK'
      BY <2>3, <3>2, BondsAddType DEF BondsAddIfMissing, BondsSave, BondsTypeOK
    <3> QED
      BY <2>1, <2>2, <2>3, <3>1, <3>3, <1>0, PublishType, MaybeStartScanType DEF RpaTypeOK
  <2>4. CASE UNCHANGED <<slots, coord_state, connection_timer, publishedVars, bondVars, scanning>>
    BY <2>1, <2>2, <2>4 DEF BondsTypeOK, RpaTypeOK
  <2> QED
    BY <1>9, <2>3, <2>4 DEF OnHidServiceConnected, SlotOfCid
<1>10. ASSUME NEW h \in Handle, OnHidServiceFailed(h)
       PROVE  TypeOK'
  <2>1. links' \in [Handle -> Link]
    <3>1. links' = [links EXCEPT ![h] = [links[h] EXCEPT !.hid = "none", !.cid = NoCid]]
      BY <1>10 DEF OnHidServiceFailed
    <3>2. [links[h] EXCEPT !.hid = "none", !.cid = NoCid] \in Link
      BY DEF Link
    <3> QED
      BY <3>1, <3>2
  <2>2. UNCHANGED <<windowVars, bondVars, rpaVars, running, outgoing, cancelled>>
    BY <1>10 DEF OnHidServiceFailed
  <2>3. ASSUME NEW i \in Slot, OnConnectFail(i, connection_timer)
        PROVE  TypeOK'
    BY <2>1, <2>2, <2>3, <1>0, OnConnectFailType DEF BondsTypeOK, RpaTypeOK
  <2>4. CASE UNCHANGED <<coordVars, publishedVars, scanning>>
    BY <2>1, <2>2, <2>4 DEF BondsTypeOK, RpaTypeOK
  <2> QED
    BY <1>10, <2>3, <2>4 DEF OnHidServiceFailed
<1>11. ASSUME NEW h \in Handle, OnHidServiceDisconnected(h) \/ OnDisconnection(h)
       PROVE  TypeOK'
  <2>1. links' \in [Handle -> Link]
    <3>1. CASE OnHidServiceDisconnected(h)
      <4>1. links' = [links EXCEPT ![h] =
                        IF links[h].state = "gone"
                        THEN FreeLink
                        ELSE [links[h] EXCEPT !.cid = NoCid, !.hid = "none"]]
        BY <3>1 DEF OnHidServiceDisconnected
      <4>2. FreeLink \in Link /\ [links[h] EXCEPT !.cid = NoCid, !.hid = "none"] \in Link
        BY DEF Link, FreeLink
      <4> QED
        BY <4>1, <4>2
    <3>2. CASE OnDisconnection(h)
      <4>1. links' = [links EXCEPT ![h] = IF links[h].cid = NoCid
                                          THEN FreeLink
                                          ELSE [links[h] EXCEPT !.state = "gone"]]
        BY <3>2 DEF OnDisconnection
      <4>2. FreeLink \in Link /\ [links[h] EXCEPT !.state = "gone"] \in Link
        BY DEF Link, FreeLink
      <4> QED
        BY <4>1, <4>2
    <3> QED
      BY <1>11, <3>1, <3>2
  <2>2. UNCHANGED <<windowVars, bondVars, running, outgoing, cancelled>>
    BY <1>11 DEF OnHidServiceDisconnected, OnDisconnection
  <2>3. RpaTypeOK'
    BY <1>11 DEF OnHidServiceDisconnected, OnDisconnection, RpaTypeOK, ClearAllPending
  <2>4. CASE UNCHANGED <<coordVars, publishedVars, scanning>>
    BY <2>1, <2>2, <2>3, <2>4 DEF BondsTypeOK
  <2>5. ASSUME NEW i \in Slot, NEW armed \in {"off", "scan", "connect"},
               FreeSlot(i), PublishSnapshot, MaybeStartScan(armed)
        PROVE  TypeOK'
    BY <2>1, <2>2, <2>3, <2>5, FreeSlotType, PublishType, MaybeStartScanType DEF BondsTypeOK
  <2> QED
    BY <1>11, <1>0, <2>4, <2>5 DEF OnHidServiceDisconnected, OnDisconnection
<1>12. CASE ScanTimeout
  BY <1>12 DEF ScanTimeout, StartScan, BondsTypeOK, RpaTypeOK
<1>13. CASE ConnectionTimeout
  <2>1. UNCHANGED <<windowVars, bondVars, rpaVars, running, links>>
    BY <1>13 DEF ConnectionTimeout
  <2>2. CASE GapConnectCancel /\ OnConnectFail(connecting_slot, "off")
    BY <1>0, <2>1, <2>2, OnConnectFailType DEF GapConnectCancel, BondsTypeOK, RpaTypeOK
  <2> QED
    BY <1>13, <2>1, <2>2 DEF ConnectionTimeout, BondsTypeOK, RpaTypeOK
<1>14. CASE ButtonPress \/ LedTick
  <2>1. /\ UNCHANGED <<slots, connecting_slot, publishedVars, bondVars, rpaVars, running,
                       outgoing, cancelled, links>>
        /\ pairing_window' \in BOOLEAN
        /\ pairing_was_active' \in BOOLEAN
    BY <1>14 DEF ButtonPress, LedTick
  <2>2. CASE MaybeStartScan(connection_timer)
    BY <1>0, <2>1, <2>2, MaybeStartScanType DEF BondsTypeOK, RpaTypeOK
  <2>3. CASE UNCHANGED <<coord_state, connection_timer, scanning>>
    BY <2>1, <2>3 DEF BondsTypeOK, RpaTypeOK
  <2> QED
    BY <1>14, <2>2, <2>3 DEF ButtonPress, LedTick
<1>15. CASE WindowExpires \/ ConsumeReinitRequest \/ UNCHANGED vars
  <2>1. UNCHANGED <<coordVars, bondVars, rpaVars, btVars, pairing_was_active>>
    BY <1>15 DEF WindowExpires, ConsumeReinitRequest, vars
  <2>2. UNCHANGED <<running, scanning, outgoing, cancelled, links>>
    BY <2>1 DEF btVars
  <2>3. BondsTypeOK' /\ RpaTypeOK'
    BY <2>1 DEF BondsTypeOK, RpaTypeOK
  <2>4. /\ ready_snapshot' = ready_snapshot
        /\ pairing_window' \in BOOLEAN /\ g_usb_reinit_request' \in BOOLEAN
    BY <1>15 DEF WindowExpires, ConsumeReinitRequest, vars
  <2> QED
    BY <2>1, <2>2, <2>3, <2>4
<1>16. CASE PowerCycle
  <2>1. BondsTypeOK'
    BY <1>16, NoBonds DEF PowerCycle, BondsTypeOK
  <2>2. RpaTypeOK'
    BY <1>16, RpaLookupsAssumption DEF PowerCycle, RpaTypeOK, Entries
  <2>3. slots' \in [Slot -> HidSlot] /\ links' \in [Handle -> Link]
    BY <1>16 DEF PowerCycle, HidSlot, IdleSlot, Link, FreeLink
  <2> QED
    BY <1>16, <2>1, <2>2, <2>3 DEF PowerCycle
<1> QED
  BY <1>1, <1>2, <1>3, <1>4, <1>5, <1>6, <1>7, <1>8, <1>9, <1>10, <1>11, <1>12, <1>13,
     <1>14, <1>15, <1>16 DEF Next, HidOutcome, LinkEndReported

===============================================================================
