----------------------------- MODULE Coordinator -----------------------------
(***************************************************************************)
(* The connection coordinator of the BLE core (ble_coordinator.c) with the *)
(* event handlers that drive it (ble_events.c) and the pairing window that *)
(* indicators.c opens and closes.                                          *)
(*                                                                         *)
(* Core 1 runs one handler at a time, so a handler is one action.  A chain *)
(* of calls inside a handler is a conjunction: each operator below fixes   *)
(* the primed variables its function writes, and one that reads a variable *)
(* an earlier call has written reads it primed.                            *)
(***************************************************************************)
EXTENDS Integers, BleBonds, RpaLookups, BtStack

CONSTANT MAX_HID_DEVICES

ASSUME MaxHidDevicesAssumption == MAX_HID_DEVICES \in Nat \ {0}

Slot == 0..(MAX_HID_DEVICES - 1)
NoSlot == -1

VARIABLES
  slots,
  coord_state,
  connecting_slot,
  connection_timer,     \* which handler the one timer is armed with
  pairing_window,       \* pairing_mode_active(): the end is set and not reached
  pairing_was_active,   \* what the last LED tick saw of it
  ready_snapshot,
  g_usb_reinit_request

coordVars == <<slots, coord_state, connecting_slot, connection_timer>>
windowVars == <<pairing_window, pairing_was_active>>
publishedVars == <<ready_snapshot, g_usb_reinit_request>>

vars == <<coordVars, windowVars, publishedVars, bondVars, rpaVars, btVars>>

HidSlot == [state      : {"IDLE", "CONNECTING", "READY"},
            con_handle : Handle \cup {NoHandle},
            hids_cid   : Cid \cup {NoCid},
            adv_addr   : Addr \cup {NoAddr}]

\* The address of an idle slot is never read, so it is dropped with the rest.
IdleSlot == [state |-> "IDLE", con_handle |-> NoHandle, hids_cid |-> NoCid,
             adv_addr |-> NoAddr]

SnapshotOf(s) ==
  {[slot |-> i, hids_cid |-> s[i].hids_cid] : i \in {j \in Slot : s[j].state = "READY"}}

TypeOK ==
  /\ slots \in [Slot -> HidSlot]
  /\ coord_state \in {"SCANNING", "CONNECTING", "ALL_READY"}
  /\ connecting_slot \in Slot \cup {NoSlot}
  /\ connection_timer \in {"off", "scan", "connect"}
  /\ pairing_window \in BOOLEAN
  /\ pairing_was_active \in BOOLEAN
  /\ ready_snapshot \subseteq [slot : Slot, hids_cid : Cid \cup {NoCid}]
  /\ g_usb_reinit_request \in BOOLEAN
  /\ BondsTypeOK
  /\ RpaTypeOK
  /\ BtTypeOK

\* ble_coordinator_init, over zeroed statics; the flash list survives.
PowerOn ==
  /\ slots = [i \in Slot |-> IdleSlot]
  /\ coord_state = "ALL_READY"
  /\ connecting_slot = NoSlot
  /\ connection_timer = "off"
  /\ pairing_window = FALSE
  /\ pairing_was_active = FALSE
  /\ ready_snapshot = {}
  /\ g_usb_reinit_request = FALSE
  /\ BondsInit
  /\ RpaInit
  /\ BtInit

Init == PowerOn /\ bonded_flash = <<>>

-------------------------------------------------------------------------------
(***************************************************************************)
(* Slot lookups                                                            *)
(***************************************************************************)

FirstIdle(i) == /\ i \in Slot
                /\ slots[i].state = "IDLE"
                /\ \A j \in Slot : j < i => slots[j].state # "IDLE"

HasCid(i, c) == slots[i].state # "IDLE" /\ slots[i].hids_cid = c

\* find_slot_by_cid(c) = i
SlotOfCid(i, c) == /\ i \in Slot
                   /\ HasCid(i, c)
                   /\ \A j \in Slot : j < i => ~HasCid(j, c)

HasHandle(i, h) == slots[i].state # "IDLE" /\ slots[i].con_handle = h

\* find_slot_by_con_handle(h) = i
SlotOfHandle(i, h) == /\ i \in Slot
                      /\ HasHandle(i, h)
                      /\ \A j \in Slot : j < i => ~HasHandle(j, h)

(***************************************************************************)
(* Functions the handlers share                                            *)
(***************************************************************************)

\* Mutant: the READY set is collected before the handler changes the slot.
PublishedEarly ==
  /\ ready_snapshot' = SnapshotOf(slots)
  /\ g_usb_reinit_request' = TRUE

\* Mutant: no request to re-enumerate when the set becomes empty.
PublishedSilently ==
  /\ ready_snapshot' = SnapshotOf(slots')
  /\ g_usb_reinit_request' = (g_usb_reinit_request \/ SnapshotOf(slots') # {})

PublishSnapshot ==
  /\ ready_snapshot' = SnapshotOf(slots')
  /\ g_usb_reinit_request' = TRUE

StartScan ==
  /\ coord_state' = "SCANNING"
  /\ connection_timer' = "scan"
  /\ scanning' = TRUE

\* Mutant: only the pairing window is a reason to scan.
ScanForNewOnly(armed) ==
  IF pairing_window' /\ \E i \in Slot : slots'[i].state = "IDLE"
  THEN StartScan
  ELSE /\ coord_state' = "ALL_READY"
       /\ connection_timer' = armed
       /\ scanning' = FALSE

\* Mutant: gap_stop_scan is forgotten.
ScanLeftOn(armed) ==
  IF (pairing_window' \/ has_bonded_device') /\ \E i \in Slot : slots'[i].state = "IDLE"
  THEN StartScan
  ELSE /\ coord_state' = "ALL_READY"
       /\ connection_timer' = armed
       /\ UNCHANGED scanning

\* coordinator_maybe_start_scan, on the slots, bonds and window of the state
\* the handler has built; armed is what it has left of the timer.
MaybeStartScan(armed) ==
  IF \E i \in Slot : slots'[i].state = "IDLE"
  THEN IF pairing_window' \/ has_bonded_device'
       THEN StartScan
       ELSE /\ scanning' = FALSE
            /\ coord_state' = "ALL_READY"
            /\ connection_timer' = armed
  ELSE /\ coord_state' = "ALL_READY"
       /\ connection_timer' = armed
       /\ UNCHANGED scanning

\* Mutant: the handle and the client id of the slot are left behind.
FreedInStateOnly(i) ==
  /\ slots' = [j \in Slot |-> IF j = i THEN [slots[j] EXCEPT !.state = "IDLE"] ELSE slots[j]]
  /\ connecting_slot' = IF connecting_slot = i THEN NoSlot ELSE connecting_slot

\* Returns slot i to IDLE.  For i = NoSlot, a write before the array, the
\* modelled slots stay as they are.
FreeSlot(i) ==
  /\ slots' = [j \in Slot |-> IF j = i THEN IdleSlot ELSE slots[j]]
  /\ connecting_slot' = IF connecting_slot = i THEN NoSlot ELSE connecting_slot

\* Mutant: the scan policy is not re-evaluated.
FailWithoutRescan(i, armed) ==
  /\ FreeSlot(i)
  /\ PublishSnapshot
  /\ connection_timer' = armed
  /\ UNCHANGED <<coord_state, scanning>>

\* coordinator_on_connect_fail.  The link, if there is one, is left up.
OnConnectFail(i, armed) ==
  /\ FreeSlot(i)
  /\ PublishSnapshot
  /\ MaybeStartScan(armed)

\* Mutant: the timer of the scan is removed and none armed.
BeginConnectUntimed(a) ==
  \E i \in Slot :
    /\ FirstIdle(i)
    /\ slots' = [slots EXCEPT ![i].state = "CONNECTING", ![i].adv_addr = a]
    /\ connecting_slot' = i
    /\ coord_state' = "CONNECTING"
    /\ connection_timer' = "off"
    /\ scanning' = FALSE
    /\ GapConnect(a)

\* coordinator_begin_connect with coordinator_connect.
BeginConnect(a) ==
  \E i \in Slot :
    /\ FirstIdle(i)
    /\ slots' = [slots EXCEPT ![i].state = "CONNECTING", ![i].adv_addr = a]
    /\ connecting_slot' = i
    /\ coord_state' = "CONNECTING"
    /\ connection_timer' = "connect"
    /\ scanning' = FALSE
    /\ GapConnect(a)

\* Mutant: any bond opens the door to every HID device.
AcceptsNewWithBond(hid) == hid /\ (pairing_window \/ has_bonded_device)

\* A device nobody knows is accepted for its HID service while the window is open.
AcceptsNew(hid) == hid /\ pairing_window

AnyIdle == \E i \in Slot : slots[i].state = "IDLE"

\* The three places that connect to an address they have just accepted.
ConnectIf(accepted, a) ==
  IF accepted /\ coord_state = "SCANNING" /\ AnyIdle
  THEN BeginConnect(a)
  ELSE UNCHANGED <<coordVars, scanning, outgoing>>

\* coordinator_connect_to_hid_service(i).  slots[NoSlot] holds the handle of
\* no live link, so the call fails there.
ConnectToHidService(i, lk) ==
  IF i \in Slot /\ HidsHostAccepts(slots[i].con_handle, lk)
  THEN /\ \E c \in FreeCids(lk) : /\ HidsHostConnect(slots[i].con_handle, c, lk)
                                  /\ slots' = [slots EXCEPT ![i].hids_cid = c]
       /\ UNCHANGED <<coord_state, connecting_slot, connection_timer, scanning,
                      publishedVars>>
  ELSE /\ links' = lk
       /\ OnConnectFail(i, connection_timer)

\* coordinator_handle_connection_error(i).  What slots[NoSlot].con_handle reads
\* as decides between the branches there; as a handle it names no live link.
HandleConnectionError(i, lk) ==
  \/ /\ i \in Slot => slots[i].con_handle # NoHandle
     /\ GapDisconnect(IF i \in Slot THEN slots[i].con_handle ELSE NoHandle, lk)
     /\ UNCHANGED <<coordVars, scanning, publishedVars>>
  \/ /\ i \in Slot => slots[i].con_handle = NoHandle
     /\ links' = lk
     /\ OnConnectFail(i, connection_timer)

-------------------------------------------------------------------------------
(***************************************************************************)
(* Event handlers.  Quiet: no callback chain of a lost link is under way.  *)
(***************************************************************************)

Quiet == running /\ NoLinkDown

\* BTSTACK_EVENT_STATE, working: pairing_mode_enter scans, the second
\* coordinator_maybe_start_scan of the handler changes nothing more.
OnBtstackReady ==
  /\ ~running
  /\ running' = TRUE
  /\ BondsLoad
  /\ pairing_window' = TRUE
  /\ UNCHANGED <<slots, connecting_slot, pairing_was_active, publishedVars, rpaVars,
                 outgoing, cancelled, links>>
  /\ MaybeStartScan(connection_timer)

\* GAP_EVENT_ADVERTISING_REPORT of a device that is not connected.
OnAdvertisingReport(a, hid) ==
  /\ Quiet
  /\ scanning
  /\ coord_state = "SCANNING"
  /\ ~LinkedTo(a)
  /\ IF has_bonded_device /\ a \in RpaAddr
     THEN /\ ~LookupPending(a)
          /\ TrackLookup(a, hid)
          /\ SmAddressResolutionLookup(a)
          /\ UNCHANGED <<coordVars, scanning, outgoing>>
     ELSE /\ ConnectIf(\/ has_bonded_device /\ Bonded(a)
                       \/ AcceptsNew(hid), a)
          /\ UNCHANGED rpaVars
  /\ UNCHANGED <<windowVars, publishedVars, bondVars, running, cancelled, links>>

\* SM_EVENT_IDENTITY_RESOLVING_SUCCEEDED
OnRpaResolved(r) ==
  /\ Quiet
  /\ r \in sm_lookups
  /\ sm_lookups' = sm_lookups \ {r}
  /\ ClearPending(r)
  /\ ConnectIf(has_bonded_device /\ Bonded(Identity(r)), r)
  /\ UNCHANGED <<windowVars, publishedVars, bondVars, pending_rpa_lookup_index,
                 running, cancelled, links>>

\* SM_EVENT_IDENTITY_RESOLVING_FAILED
OnRpaResolveFailed(r) ==
  /\ Quiet
  /\ r \in sm_lookups
  /\ sm_lookups' = sm_lookups \ {r}
  /\ ClearPending(r)
  /\ ConnectIf(AcceptsNew(PendingHasHid(r)), r)
  /\ UNCHANGED <<windowVars, publishedVars, bondVars, pending_rpa_lookup_index,
                 running, cancelled, links>>

\* The attempt that a connection complete event answers.  The controller makes
\* one connection at a time, so it answers a cancelled attempt before the next.
AnswerAttempt(a) ==
  /\ a # NoAddr
  /\ IF cancelled # NoAddr
     THEN a = cancelled /\ cancelled' = NoAddr /\ UNCHANGED outgoing
     ELSE a = outgoing /\ outgoing' = NoAddr /\ UNCHANGED cancelled

\* The slot ble_coordinator_on_connection_complete takes the event to be for:
\* the handler does not look at the address.
AwaitsConnection == /\ connecting_slot \in Slot
                    /\ slots[connecting_slot].state = "CONNECTING"

\* Mutant: the timeout of the attempt stays armed.
AdoptedWithTimer(h, a) ==
  /\ UNCHANGED connection_timer
  /\ slots' = [slots EXCEPT ![connecting_slot].con_handle = h]
  /\ links' = [links EXCEPT ![h] = [NewLink(a) EXCEPT !.sm = "asked"]]

\* Mutant: nobody asks for pairing.
AdoptedUnpaired(h, a) ==
  /\ connection_timer' = "off"
  /\ slots' = [slots EXCEPT ![connecting_slot].con_handle = h]
  /\ links' = [links EXCEPT ![h] = NewLink(a)]

\* The connecting slot gets the link, whoever is at its other end, and pairing
\* or re-encryption is requested.
AdoptLink(h, a) ==
  /\ connection_timer' = "off"
  /\ slots' = [slots EXCEPT ![connecting_slot].con_handle = h]
  /\ links' = [links EXCEPT ![h] = [NewLink(a) EXCEPT !.sm = "asked"]]

\* GAP_SUBEVENT_LE_CONNECTION_COMPLETE, success: the link is new, its handle free.
OnConnectionUp(a) ==
  /\ Quiet
  /\ AnswerAttempt(a)
  /\ AheadOfNextAttempt(a)
  /\ \E h \in FreeHandles :
       \/ /\ AwaitsConnection
          /\ AdoptLink(h, a)
       \/ /\ ~AwaitsConnection
          /\ links' = [links EXCEPT ![h] = NewLink(a)]
          /\ UNCHANGED <<slots, connection_timer>>
  /\ UNCHANGED <<coord_state, connecting_slot, windowVars, publishedVars, bondVars,
                 rpaVars, running, scanning>>

\* GAP_SUBEVENT_LE_CONNECTION_COMPLETE, any other status.
OnConnectionFailed(a) ==
  /\ Quiet
  /\ AnswerAttempt(a)
  /\ UNCHANGED <<windowVars, bondVars, rpaVars, running, links>>
  /\ IF AwaitsConnection
     THEN OnConnectFail(connecting_slot, "off")
     ELSE UNCHANGED <<coordVars, publishedVars, scanning>>

\* SM_EVENT_IDENTITY_CREATED: the bond is added in RAM only.
OnIdentityCreated(h) ==
  /\ Quiet
  /\ links[h].sm = "asked"
  /\ links' = [links EXCEPT ![h].sm = "keyed"]
  /\ BondsAdd(Identity(links[h].addr))
  /\ UNCHANGED <<coordVars, windowVars, publishedVars, bonded_flash, rpaVars, running,
                 scanning, outgoing, cancelled>>

\* ble_coordinator_on_pairing_complete(status), whichever link the event is for;
\* lk is what the event leaves of the links.
PairingComplete(status, lk) ==
  CASE status = "success" ->
         /\ UNCHANGED bondVars
         /\ ConnectToHidService(connecting_slot, lk)
    [] status = "key missing" ->
         /\ BondsForget
         /\ HandleConnectionError(connecting_slot, lk)
    [] status = "failed" ->
         /\ UNCHANGED bondVars
         /\ HandleConnectionError(connecting_slot, lk)

\* SM_EVENT_PAIRING_COMPLETE
OnPairingComplete(h, status) ==
  /\ Quiet
  /\ IF status = "success" THEN Securing(h) ELSE links[h].sm = "asked"
  /\ UNCHANGED <<windowVars, rpaVars, running, outgoing, cancelled>>
  /\ PairingComplete(status,
       [links EXCEPT ![h].sm = IF status = "success" THEN "secured" ELSE "none"])

\* SM_EVENT_REENCRYPTION_COMPLETE; the handler drops the status of the event.
OnReencryptionComplete(h, secured) ==
  /\ Quiet
  /\ links[h].sm = "asked"
  /\ UNCHANGED <<windowVars, rpaVars, bondVars, running, outgoing, cancelled>>
  /\ ConnectToHidService(connecting_slot,
       [links EXCEPT ![h].sm = IF secured THEN "secured" ELSE "none"])

\* GATTSERVICE_SUBEVENT_HID_SERVICE_CONNECTED, success
OnHidServiceConnected(h) ==
  /\ Quiet
  /\ links[h].hid = "discovering"
  /\ links' = [links EXCEPT ![h].hid = "connected"]
  /\ UNCHANGED <<connecting_slot, windowVars, rpaVars, running, outgoing, cancelled>>
  /\ \/ \E i \in Slot :
          /\ SlotOfCid(i, links[h].cid)
          /\ BondsAddIfMissing(slots[i].adv_addr)
          /\ BondsSave
          /\ slots' = [slots EXCEPT ![i].state = "READY"]
          /\ PublishSnapshot
          /\ MaybeStartScan(connection_timer)
     \/ /\ \A i \in Slot : ~HasCid(i, links[h].cid)
        /\ UNCHANGED <<slots, coord_state, connection_timer, publishedVars, bondVars,
                       scanning>>

\* GATTSERVICE_SUBEVENT_HID_SERVICE_CONNECTED, any other status: BTstack drops
\* the client.
OnHidServiceFailed(h) ==
  /\ Quiet
  /\ links[h].hid = "discovering"
  /\ links' = [links EXCEPT ![h].hid = "none", ![h].cid = NoCid]
  /\ UNCHANGED <<windowVars, bondVars, rpaVars, running, outgoing, cancelled>>
  /\ \/ \E i \in Slot : /\ SlotOfCid(i, links[h].cid)
                        /\ OnConnectFail(i, connection_timer)
     \/ /\ \A i \in Slot : ~HasCid(i, links[h].cid)
        /\ UNCHANGED <<coordVars, publishedVars, scanning>>

\* The peer asks for security on a link that has none (a Security Request).
SecurityRequest(h) ==
  /\ Quiet
  /\ Up(h)
  /\ links[h].sm = "none"
  /\ links' = [links EXCEPT ![h].sm = "asked"]
  /\ UNCHANGED <<coordVars, windowVars, publishedVars, bondVars, rpaVars, running,
                 scanning, outgoing, cancelled>>

-------------------------------------------------------------------------------
(***************************************************************************)
(* The end of a link.  BTstack reports it to the security manager first,   *)
(* then to the HIDS client and to ble_events.c in either order, and turns  *)
(* to nothing else before all have heard of it.                            *)
(***************************************************************************)

LinkLost(h) ==
  /\ Quiet
  /\ Up(h)
  /\ links' = [links EXCEPT ![h].state = "down"]
  /\ UNCHANGED <<coordVars, windowVars, publishedVars, bondVars, rpaVars, running,
                 scanning, outgoing, cancelled>>

\* The pairing or re-encryption that was running ends with the link.
OnSecurityAborted(h) ==
  /\ links[h].state = "down"
  /\ Securing(h)
  /\ UNCHANGED <<windowVars, rpaVars, running, outgoing, cancelled>>
  /\ LET lk == [links EXCEPT ![h].sm = "none"]
     IN  \/ PairingComplete("failed", lk)
         \/ /\ links[h].sm = "asked"
            /\ UNCHANGED bondVars
            /\ ConnectToHidService(connecting_slot, lk)

\* GATTSERVICE_SUBEVENT_HID_SERVICE_DISCONNECTED
OnHidServiceDisconnected(h) ==
  /\ links[h].state \in {"down", "gone"}
  /\ ~Securing(h)
  /\ links[h].cid # NoCid
  /\ links' = [links EXCEPT ![h] = IF @.state = "gone"
                                   THEN FreeLink
                                   ELSE [@ EXCEPT !.cid = NoCid, !.hid = "none"]]
  /\ UNCHANGED <<windowVars, bondVars, rpaVars, running, outgoing, cancelled>>
  /\ \/ \E i \in Slot : /\ SlotOfCid(i, links[h].cid)
                        /\ FreeSlot(i)
                        /\ PublishSnapshot
                        /\ MaybeStartScan(connection_timer)
     \/ /\ \A i \in Slot : ~HasCid(i, links[h].cid)
        /\ UNCHANGED <<coordVars, publishedVars, scanning>>

\* HCI_EVENT_DISCONNECTION_COMPLETE
OnDisconnection(h) ==
  /\ links[h].state = "down"
  /\ ~Securing(h)
  /\ links' = [links EXCEPT ![h] = IF @.cid = NoCid THEN FreeLink
                                                ELSE [@ EXCEPT !.state = "gone"]]
  /\ UNCHANGED <<windowVars, bondVars, running, outgoing, cancelled>>
  /\ \/ \E i \in Slot : /\ SlotOfHandle(i, h)
                        /\ ClearAllPending
                        /\ FreeSlot(i)
                        /\ PublishSnapshot
                        /\ MaybeStartScan("off")
     \/ /\ \A i \in Slot : ~HasHandle(i, h)
        /\ UNCHANGED <<coordVars, publishedVars, rpaVars, scanning>>

-------------------------------------------------------------------------------
(***************************************************************************)
(* Timers, the button and the LED tick                                     *)
(***************************************************************************)

\* coordinator_scan_timeout
ScanTimeout ==
  /\ NoLinkDown
  /\ connection_timer = "scan"
  /\ \/ /\ coord_state # "SCANNING"
        /\ connection_timer' = "off"
        /\ UNCHANGED <<coord_state, scanning>>
     \/ /\ coord_state = "SCANNING"
        /\ ~pairing_window
        /\ ~has_bonded_device
        /\ connection_timer' = "off"
        /\ scanning' = FALSE
        /\ coord_state' = "ALL_READY"
     \/ /\ coord_state = "SCANNING"
        /\ pairing_window \/ has_bonded_device
        /\ StartScan
  /\ UNCHANGED <<slots, connecting_slot, windowVars, publishedVars, bondVars, rpaVars,
                 running, outgoing, cancelled, links>>

\* coordinator_connection_timeout.  The controller answers a cancel long before
\* the next attempt can time out, so there is never more than one to answer.
ConnectionTimeout ==
  /\ NoLinkDown
  /\ connection_timer = "connect"
  /\ cancelled = NoAddr
  /\ UNCHANGED <<windowVars, bondVars, rpaVars, running, links>>
  /\ IF connecting_slot = NoSlot
     THEN /\ connection_timer' = "off"
          /\ UNCHANGED <<slots, coord_state, connecting_slot, publishedVars, scanning,
                         outgoing, cancelled>>
     ELSE /\ GapConnectCancel
          /\ OnConnectFail(connecting_slot, "off")

\* Mutant: a press scans at once, also while connecting.
PressScansAtOnce ==
  /\ NoLinkDown
  /\ pairing_window' = TRUE
  /\ UNCHANGED <<slots, connecting_slot, pairing_was_active, publishedVars, bondVars,
                 rpaVars, running, outgoing, cancelled, links>>
  /\ MaybeStartScan(connection_timer)

\* A debounced press: pairing_mode_enter
ButtonPress ==
  /\ NoLinkDown
  /\ pairing_window' = TRUE
  /\ UNCHANGED <<slots, connecting_slot, pairing_was_active, publishedVars, bondVars,
                 rpaVars, running, outgoing, cancelled, links>>
  /\ IF coord_state # "CONNECTING"
     THEN MaybeStartScan(connection_timer)
     ELSE UNCHANGED <<coord_state, connection_timer, scanning>>

\* The clock passes pairing_mode_end_ms, 200 LED ticks after the window opened.
WindowExpires ==
  /\ pairing_window
  /\ pairing_was_active
  /\ pairing_window' = FALSE
  /\ UNCHANGED <<coordVars, pairing_was_active, publishedVars, bondVars, rpaVars, btVars>>

\* led_timer_handler, the part that closes the window: pairing_mode_exit on the
\* tick that first finds it expired.
LedTick ==
  /\ NoLinkDown
  /\ pairing_was_active' = pairing_window
  /\ UNCHANGED <<slots, connecting_slot, pairing_window, publishedVars, bondVars, rpaVars,
                 running, outgoing, cancelled, links>>
  /\ IF pairing_was_active /\ ~pairing_window /\ coord_state # "CONNECTING"
     THEN MaybeStartScan(connection_timer)
     ELSE UNCHANGED <<coord_state, connection_timer, scanning>>

\* Core 0 takes the request (usb_device.c).
ConsumeReinitRequest ==
  /\ g_usb_reinit_request
  /\ g_usb_reinit_request' = FALSE
  /\ UNCHANGED <<coordVars, windowVars, ready_snapshot, bondVars, rpaVars, btVars>>

\* Power lost and restored at any moment: only the flash remains.
PowerCycle ==
  /\ running
  /\ slots' = [i \in Slot |-> IdleSlot]
  /\ coord_state' = "ALL_READY"
  /\ connecting_slot' = NoSlot
  /\ connection_timer' = "off"
  /\ pairing_window' = FALSE
  /\ pairing_was_active' = FALSE
  /\ ready_snapshot' = {}
  /\ g_usb_reinit_request' = FALSE
  /\ bonded_list' = <<>>
  /\ has_bonded_device' = FALSE
  /\ UNCHANGED bonded_flash
  /\ pending_rpa_lookups' = [e \in Entries |-> NoLookup]
  /\ pending_rpa_lookup_index' = 0
  /\ sm_lookups' = {}
  /\ running' = FALSE
  /\ scanning' = FALSE
  /\ outgoing' = NoAddr
  /\ cancelled' = NoAddr
  /\ links' = [h \in Handle |-> FreeLink]

-------------------------------------------------------------------------------

SecurityOutcome(h) ==
  \/ \E status \in {"success", "key missing", "failed"} : OnPairingComplete(h, status)
  \/ \E secured \in BOOLEAN : OnReencryptionComplete(h, secured)

HidOutcome(h) == OnHidServiceConnected(h) \/ OnHidServiceFailed(h)

LinkEndReported(h) ==
  \/ OnSecurityAborted(h)
  \/ OnHidServiceDisconnected(h)
  \/ OnDisconnection(h)

Next ==
  \/ OnBtstackReady
  \/ \E a \in Addr, hid \in BOOLEAN : OnAdvertisingReport(a, hid)
  \/ \E r \in RpaAddr : OnRpaResolved(r) \/ OnRpaResolveFailed(r)
  \/ \E a \in Addr : OnConnectionUp(a) \/ OnConnectionFailed(a)
  \/ \E h \in Handle : \/ SecurityRequest(h)
                       \/ OnIdentityCreated(h)
                       \/ SecurityOutcome(h)
                       \/ HidOutcome(h)
                       \/ LinkLost(h)
                       \/ LinkEndReported(h)
  \/ ScanTimeout
  \/ ConnectionTimeout
  \/ ButtonPress
  \/ WindowExpires
  \/ LedTick
  \/ ConsumeReinitRequest
  \/ PowerCycle

Spec == Init /\ [][Next]_vars

(***************************************************************************)
(* Fairness.  The run loop fires every timer that stays armed, BTstack     *)
(* answers every request (its own timeouts bound pairing, discovery and a  *)
(* disconnection) and Core 0 keeps polling.  Strong, because a link that   *)
(* goes down elsewhere delays everything else.  Devices owe nothing: they  *)
(* advertise, answer a connection attempt and stay only if they like, and  *)
(* nobody has to press the button.                                         *)
(***************************************************************************)
CancelAnswered(a) == a = cancelled /\ (OnConnectionUp(a) \/ OnConnectionFailed(a))

LinkClosed(h) == links[h].closing /\ LinkLost(h)

Fairness ==
  /\ WF_vars(OnBtstackReady)
  /\ SF_vars(ScanTimeout)
  /\ SF_vars(ConnectionTimeout)
  /\ SF_vars(LedTick)
  /\ WF_vars(WindowExpires)
  /\ WF_vars(ConsumeReinitRequest)
  /\ \A a \in Addr : SF_vars(CancelAnswered(a))
  /\ \A r \in RpaAddr : SF_vars(OnRpaResolved(r) \/ OnRpaResolveFailed(r))
  /\ \A h \in Handle : /\ SF_vars(SecurityOutcome(h))
                       /\ SF_vars(HidOutcome(h))
                       /\ SF_vars(LinkClosed(h))
                       /\ WF_vars(LinkEndReported(h))

FairSpec == Spec /\ Fairness

===============================================================================
