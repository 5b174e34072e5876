----------------------- MODULE CoordinatorPromiseProofs -----------------------
(***************************************************************************)
(* What the coordinator promises, proved from the invariant of module      *)
(* CoordinatorProofs: when it gives up an attempt, whom it seeks and whom  *)
(* it lets in; which lookups are lost; that its handlers implement the     *)
(* feed of module ReadyFeed; and who may disturb or drop an attempt.       *)
(***************************************************************************)
EXTENDS CoordinatorProofs, FiniteSetTheorems

-------------------------------------------------------------------------------
(***************************************************************************)
(* The timer of an attempt                                                 *)
(***************************************************************************)

LEMMA NoSlotNotSlot == NoSlot \notin Slot
  BY DEF Slot, NoSlot

LEMMA TimerAfterFree ==
  ASSUME TypeOK, ConnectTimerGuardsAttempt, NEW i \in Slot \cup {NoSlot}, FreeSlot(i),
         NEW armed \in {"off", connection_timer}, MaybeStartScan(armed)
  PROVE  ConnectTimerGuardsAttempt'
<1> SUFFICES ASSUME connection_timer' = "connect", connecting_slot' # NoSlot
             PROVE  /\ slots'[connecting_slot'].state = "CONNECTING"
                    /\ slots'[connecting_slot'].con_handle = NoHandle
  BY DEF ConnectTimerGuardsAttempt
<1>1. connection_timer = "connect"
  BY DEF MaybeStartScan, StartScan
<1>2. connecting_slot' = connecting_slot /\ connecting_slot # i /\ connecting_slot \in Slot
  BY DEF FreeSlot, TypeOK
<1>3. slots'[connecting_slot] = slots[connecting_slot]
  BY <1>2 DEF FreeSlot
<1> QED
  BY <1>1, <1>2, <1>3 DEF ConnectTimerGuardsAttempt

\* A slot that keeps its state and its handle keeps its timer.
LEMMA TimerKept ==
  ASSUME TypeOK, ConnectTimerGuardsAttempt,
         connecting_slot' = connecting_slot,
         connection_timer' = connection_timer \/ connection_timer' # "connect",
         connecting_slot # NoSlot /\ connection_timer' = "connect" =>
           /\ slots'[connecting_slot].state = slots[connecting_slot].state
           /\ slots'[connecting_slot].con_handle = slots[connecting_slot].con_handle
  PROVE  ConnectTimerGuardsAttempt'
  BY DEF ConnectTimerGuardsAttempt

LEMMA TimerAfterSecurity ==
  ASSUME TypeOK, CoreInv, ConnectTimerGuardsAttempt, NEW i \in Slot \cup {NoSlot}, NEW lk,
         ConnectToHidService(i, lk) \/ HandleConnectionError(i, lk)
  PROVE  ConnectTimerGuardsAttempt'
<1>1. CASE OnConnectFail(i, connection_timer)
  BY <1>1, TimerAfterFree DEF OnConnectFail
<1>2. CASE UNCHANGED coordVars
  BY <1>2, TimerKept DEF coordVars
<1>3. ASSUME NEW c, i \in Slot, slots' = [slots EXCEPT ![i].hids_cid = c],
             UNCHANGED <<connecting_slot, connection_timer>>
      PROVE  ConnectTimerGuardsAttempt'
  <2>1. connecting_slot # NoSlot =>
          /\ slots'[connecting_slot].state = slots[connecting_slot].state
          /\ slots'[connecting_slot].con_handle = slots[connecting_slot].con_handle
    BY <1>3 DEF TypeOK, HidSlot
  <2> QED
    BY <1>3, <2>1, TimerKept
<1> QED
  BY <1>1, <1>2, <1>3 DEF ConnectToHidService, HandleConnectionError

LEMMA TimerAfterBegin ==
  ASSUME TypeOK, CoreInv, ConnectTimerGuardsAttempt, NEW a \in Addr, NEW accepted,
         ConnectIf(accepted, a)
  PROVE  ConnectTimerGuardsAttempt'
<1>1. CASE BeginConnect(a)
  <2>1. PICK i \in Slot :
          /\ slots[i].state = "IDLE"
          /\ slots' = [slots EXCEPT ![i].state = "CONNECTING", ![i].adv_addr = a]
          /\ connecting_slot' = i
    BY <1>1 DEF BeginConnect, FirstIdle
  <2>2. slots[i].con_handle = NoHandle
    <3>1. slots[i].state = "IDLE"
      BY <2>1
    <3> QED
      BY <3>1 DEF CoreInv, SlotInv, SlotShape, IdleSlot
  <2>3. slots' = [slots EXCEPT ![i] = [slots[i] EXCEPT !.state = "CONNECTING", !.adv_addr = a]]
    BY <2>1 DEF TypeOK, HidSlot
  <2>4. slots'[i].state = "CONNECTING" /\ slots'[i].con_handle = NoHandle
    BY <2>2, <2>3 DEF TypeOK, HidSlot
  <2> QED
    BY <2>1, <2>4 DEF ConnectTimerGuardsAttempt
<1>2. CASE UNCHANGED <<coordVars, scanning, outgoing>>
  BY <1>2, TimerKept DEF coordVars
<1> QED
  BY <1>1, <1>2 DEF ConnectIf

LEMMA TimerAfterReady ==
  ASSUME TypeOK, CoreInv, ConnectTimerGuardsAttempt, NEW h \in Handle,
         OnHidServiceConnected(h)
  PROVE  ConnectTimerGuardsAttempt'
<1>1. CASE UNCHANGED <<slots, connection_timer>>
  BY <1>1, TimerKept DEF OnHidServiceConnected
<1>2. ASSUME NEW i \in Slot, SlotOfCid(i, links[h].cid),
             slots' = [slots EXCEPT ![i].state = "READY"],
             MaybeStartScan(connection_timer)
      PROVE  ConnectTimerGuardsAttempt'
  <2>1. links[h].cid # NoCid
    BY DEF OnHidServiceConnected, CoreInv, LinkInv, LinkShape
  <2>2. slots[i].con_handle # NoHandle
    BY <1>2, <2>1 DEF SlotOfCid, HasCid, CoreInv, SlotInv, SlotsHaveLinks
  <2>3. connection_timer' = "connect" => connection_timer = "connect"
    BY <1>2 DEF MaybeStartScan, StartScan
  <2>4. connection_timer = "connect" => connecting_slot # i
    BY <2>2, NoSlotNotSlot DEF ConnectTimerGuardsAttempt
  <2>5. \A j \in Slot \ {i} : slots'[j] = slots[j]
    BY <1>2 DEF TypeOK
  <2>6. connecting_slot' = connecting_slot
    BY DEF OnHidServiceConnected
  <2> QED
    BY <2>3, <2>4, <2>5, <2>6 DEF ConnectTimerGuardsAttempt, TypeOK
<1> QED
  BY <1>1, <1>2 DEF OnHidServiceConnected

LEMMA TimerInductive ==
  ASSUME TypeOK, CoreInv, ConnectTimerGuardsAttempt, [Next]_vars
  PROVE  ConnectTimerGuardsAttempt'
<1>1. connecting_slot \in Slot \cup {NoSlot}
  BY DEF TypeOK
<1>2. CASE UNCHANGED coordVars
  BY <1>2, TimerKept DEF coordVars
<1>3. CASE \/ OnBtstackReady \/ ScanTimeout \/ ButtonPress \/ WindowExpires \/ LedTick
           \/ ConsumeReinitRequest
  <2>1. /\ UNCHANGED <<slots, connecting_slot>>
        /\ connection_timer' = connection_timer \/ connection_timer' # "connect"
    BY <1>3 DEF OnBtstackReady, ScanTimeout, ButtonPress, WindowExpires, LedTick,
       ConsumeReinitRequest, coordVars, MaybeStartScan, StartScan
  <2> QED
    BY <2>1, TimerKept
<1>4. CASE \/ \E a \in Addr, hid \in BOOLEAN : OnAdvertisingReport(a, hid)
           \/ \E r \in RpaAddr : OnRpaResolved(r) \/ OnRpaResolveFailed(r)
  <2>1. CASE \E a \in Addr : \E accepted : ConnectIf(accepted, a)
    BY <2>1, TimerAfterBegin
  <2> QED
    BY <1>2, <1>4, <2>1, DevicesAssumption
       DEF OnAdvertisingReport, OnRpaResolved, OnRpaResolveFailed
<1>5. CASE \E a \in Addr : OnConnectionUp(a)
  <2>1. CASE connection_timer' = "off"
    BY <2>1 DEF ConnectTimerGuardsAttempt
  <2>2. CASE UNCHANGED <<slots, connection_timer, connecting_slot>>
    BY <2>2, TimerKept
  <2> QED
    BY <1>5, <2>1, <2>2 DEF OnConnectionUp, AdoptLink
<1>6. CASE OnConnectFail(connecting_slot, "off")
  BY <1>1, <1>6, TimerAfterFree DEF OnConnectFail
<1>7. CASE \E h \in Handle : SecurityOutcome(h) \/ OnSecurityAborted(h)
  <2>1. CASE \E lk : \/ ConnectToHidService(connecting_slot, lk)
                     \/ HandleConnectionError(connecting_slot, lk)
    BY <1>1, <2>1, TimerAfterSecurity
  <2> QED
    BY <1>7, <2>1
       DEF SecurityOutcome, OnSecurityAborted, OnPairingComplete, OnReencryptionComplete,
           PairingComplete
<1>8. CASE \E h \in Handle : \/ OnHidServiceFailed(h) \/ OnHidServiceDisconnected(h)
                             \/ OnDisconnection(h)
  <2>1. CASE \E i \in Slot : FreeSlot(i) /\ \E armed \in {"off", connection_timer} :
                                               MaybeStartScan(armed)
    BY <2>1, TimerAfterFree
  <2> QED
    BY <1>2, <1>8, <2>1
       DEF OnHidServiceFailed, OnHidServiceDisconnected, OnDisconnection, OnConnectFail
<1>9. CASE PowerCycle
  BY <1>9 DEF PowerCycle, ConnectTimerGuardsAttempt
<1>10. CASE ConnectionTimeout
  BY <1>6, <1>10 DEF ConnectionTimeout, ConnectTimerGuardsAttempt
<1>11. CASE \E h \in Handle : SecurityRequest(h) \/ OnIdentityCreated(h) \/ LinkLost(h)
  BY <1>2, <1>11 DEF SecurityRequest, OnIdentityCreated, LinkLost
<1>12. CASE \E a \in Addr : OnConnectionFailed(a)
  BY <1>2, <1>6, <1>12 DEF OnConnectionFailed
<1> QED
  BY <1>2, <1>3, <1>4, <1>5, <1>7, <1>8, <1>9, <1>10, <1>11, <1>12, TimerAfterReady
     DEF Next, vars, HidOutcome, LinkEndReported

\* The timeout of a connection attempt only ever finds an attempt without a link.
THEOREM TimerCorrect == Spec => []ConnectTimerGuardsAttempt
<1>1. Init => ConnectTimerGuardsAttempt
  BY DEF Init, PowerOn, ConnectTimerGuardsAttempt
<1>2. IInv /\ ConnectTimerGuardsAttempt /\ [Next]_vars => ConnectTimerGuardsAttempt'
  BY IInvParts, TimerInductive
<1> QED
  BY <1>1, <1>2, Invariance, PTL DEF Spec
-------------------------------------------------------------------------------
(***************************************************************************)
(* Whom the bridge seeks                                                   *)
(***************************************************************************)

\* The flag every scan decision reads covers whatever is listed or stored.
BondsFlagged ==
  running /\ (bonded_flash # <<>> \/ bonded_list # <<>>) => has_bonded_device

LEMMA FlagInductive ==
  ASSUME TypeOK, BondsFlagged, [Next]_vars
  PROVE  BondsFlagged'
<1>1. CASE UNCHANGED <<bondVars, running>>
  BY <1>1 DEF bondVars, BondsFlagged
<1>2. CASE BondsForget
  BY <1>2 DEF BondsForget, BondsFlagged
<1>3. CASE \E h \in Handle : OnIdentityCreated(h)
  BY <1>3 DEF OnIdentityCreated, BondsAdd, BondsFlagged
<1>4. CASE \E h \in Handle : OnHidServiceConnected(h)
  <2>1. CASE UNCHANGED <<bondVars, running>>
    BY <1>1, <2>1
  <2>2. CASE \E a : BondsAddIfMissing(a) /\ BondsSave /\ UNCHANGED running
    BY <2>2 DEF BondsAddIfMissing, BondsAdd, BondsSave, BondsFlagged
  <2> QED
    BY <1>4, <2>1, <2>2 DEF OnHidServiceConnected, bondVars
<1>5. CASE OnBtstackReady
  BY <1>5 DEF OnBtstackReady, BondsLoad, BondsFlagged
<1>6. CASE PowerCycle
  BY <1>6 DEF PowerCycle, BondsFlagged
<1>7. CASE \E h \in Handle : \/ SecurityRequest(h) \/ SecurityOutcome(h) \/ OnHidServiceFailed(h)
                             \/ LinkLost(h) \/ LinkEndReported(h)
  <2>1. UNCHANGED running
    BY <1>7 DEF SecurityRequest, SecurityOutcome, OnHidServiceFailed, LinkLost,
       LinkEndReported, OnPairingComplete, OnReencryptionComplete, OnSecurityAborted,
       OnHidServiceDisconnected, OnDisconnection
  <2>2. UNCHANGED bondVars \/ BondsForget
    BY <1>7 DEF SecurityRequest, SecurityOutcome, OnHidServiceFailed, LinkLost,
       LinkEndReported, OnPairingComplete, OnReencryptionComplete, OnSecurityAborted,
       OnHidServiceDisconnected, OnDisconnection, PairingComplete
  <2> QED
    BY <1>1, <1>2, <2>1, <2>2
<1> QED
  BY <1>1, <1>3, <1>4, <1>5, <1>6, <1>7
     DEF Next, vars, btVars, HidOutcome, OnAdvertisingReport, OnRpaResolved,
         OnRpaResolveFailed, OnConnectionUp, OnConnectionFailed, ScanTimeout,
         ConnectionTimeout, ButtonPress, WindowExpires, LedTick, ConsumeReinitRequest

LEMMA SoughtAfterScan ==
  ASSUME BondsFlagged', NEW armed, MaybeStartScan(armed)
  PROVE  BondedAlwaysSought'
  BY DEF BondsFlagged, BondedAlwaysSought, MaybeStartScan, StartScan, AnyIdle

\* Nothing to do for a handler that frees no slot, adds no bond and does not rest.
LEMMA SoughtKept ==
  ASSUME BondedAlwaysSought,
         coord_state' = coord_state \/ coord_state' # "ALL_READY",
         bonded_flash' = bonded_flash \/ bonded_flash' = <<>>,
         running' => running,
         AnyIdle' => AnyIdle
  PROVE  BondedAlwaysSought'
  BY DEF BondedAlwaysSought

LEMMA SoughtAfterSecurity ==
  ASSUME TypeOK, CoreInv, BondedAlwaysSought, BondsFlagged', NEW lk,
         \/ ConnectToHidService(connecting_slot, lk)
         \/ HandleConnectionError(connecting_slot, lk),
         bonded_flash' = bonded_flash \/ bonded_flash' = <<>>,
         UNCHANGED running
  PROVE  BondedAlwaysSought'
<1>1. CASE OnConnectFail(connecting_slot, connection_timer)
  BY <1>1, SoughtAfterScan DEF OnConnectFail
<1>2. CASE UNCHANGED <<slots, coord_state>>
  BY <1>2, SoughtKept DEF AnyIdle
<1>3. ASSUME NEW c, slots' = [slots EXCEPT ![connecting_slot].hids_cid = c],
             UNCHANGED coord_state
      PROVE  BondedAlwaysSought'
  <2>1. AnyIdle' => AnyIdle
    BY <1>3 DEF AnyIdle, TypeOK, HidSlot
  <2> QED
    BY <1>3, <2>1, SoughtKept
<1> QED
  BY <1>1, <1>2, <1>3 DEF ConnectToHidService, HandleConnectionError, coordVars

LEMMA SoughtInductive ==
  ASSUME TypeOK, CoreInv, BondsFlagged, BondedAlwaysSought, [Next]_vars
  PROVE  BondedAlwaysSought'
<1>1. BondsFlagged'
  BY FlagInductive
<1>2. CASE UNCHANGED <<slots, coord_state, bonded_flash, running>>
  BY <1>2, SoughtKept DEF AnyIdle
<1>3. CASE \E armed : MaybeStartScan(armed)
  BY <1>1, <1>3, SoughtAfterScan
<1>4. CASE ScanTimeout
  <2>1. CASE ~has_bonded_device
    <3>1. running' => bonded_flash' = <<>>
      BY <1>4, <2>1 DEF ScanTimeout, bondVars, BondsFlagged
    <3> QED
      BY <3>1 DEF BondedAlwaysSought
  <2>2. CASE coord_state' = coord_state \/ coord_state' = "SCANNING"
    BY <1>4, <2>2, SoughtKept DEF ScanTimeout, bondVars, AnyIdle
  <2> QED
    BY <1>4, <2>1, <2>2 DEF ScanTimeout, StartScan
<1>5. CASE \/ \E a \in Addr, hid \in BOOLEAN : OnAdvertisingReport(a, hid)
           \/ \E r \in RpaAddr : OnRpaResolved(r) \/ OnRpaResolveFailed(r)
  <2>1. CASE coord_state' = "CONNECTING"
    BY <2>1 DEF BondedAlwaysSought
  <2> QED
    BY <1>2, <1>5, <2>1 DEF OnAdvertisingReport, OnRpaResolved, OnRpaResolveFailed,
       ConnectIf, BeginConnect, coordVars, bondVars
<1>6. CASE \E a \in Addr : OnConnectionUp(a)
  <2>1. AnyIdle' => AnyIdle
    BY <1>6 DEF OnConnectionUp, AdoptLink, AnyIdle, TypeOK, HidSlot
  <2> QED
    BY <1>6, <2>1, SoughtKept DEF OnConnectionUp, bondVars
<1>7. CASE \E h \in Handle : SecurityOutcome(h) \/ OnSecurityAborted(h)
  <2>1. /\ UNCHANGED running
        /\ bonded_flash' = bonded_flash \/ bonded_flash' = <<>>
        /\ \E lk : \/ ConnectToHidService(connecting_slot, lk)
                   \/ HandleConnectionError(connecting_slot, lk)
    BY <1>7 DEF SecurityOutcome, OnSecurityAborted, OnPairingComplete,
       OnReencryptionComplete, PairingComplete, BondsForget, bondVars
  <2> QED
    BY <1>1, <2>1, SoughtAfterSecurity
<1>8. CASE \E h \in Handle : HidOutcome(h) \/ OnHidServiceDisconnected(h) \/ OnDisconnection(h)
  BY <1>2, <1>3, <1>8
     DEF HidOutcome, OnHidServiceConnected, OnHidServiceFailed, OnHidServiceDisconnected,
         OnDisconnection, OnConnectFail, coordVars, bondVars
<1>9. CASE \E h \in Handle : SecurityRequest(h) \/ OnIdentityCreated(h) \/ LinkLost(h)
  BY <1>2, <1>9 DEF SecurityRequest, OnIdentityCreated, LinkLost, coordVars, bondVars
<1>10. CASE \/ OnBtstackReady \/ ButtonPress \/ LedTick \/ ConnectionTimeout
            \/ \E a \in Addr : OnConnectionFailed(a)
  BY <1>2, <1>3, <1>10
     DEF OnBtstackReady, ButtonPress, LedTick, ConnectionTimeout, OnConnectionFailed,
         OnConnectFail, coordVars, bondVars
<1>11. CASE UNCHANGED vars \/ WindowExpires \/ ConsumeReinitRequest
  BY <1>2, <1>11 DEF vars, WindowExpires, ConsumeReinitRequest, coordVars, bondVars, btVars
<1>12. CASE PowerCycle
  BY <1>12 DEF PowerCycle, BondedAlwaysSought
<1> QED
  BY <1>4, <1>5, <1>6, <1>7, <1>8, <1>9, <1>10, <1>11, <1>12 DEF Next, LinkEndReported

\* A stored bond keeps the bridge scanning or connecting while it has a free slot.
THEOREM BondedSought == Spec => []BondedAlwaysSought
<1>1. Init => BondsFlagged /\ BondedAlwaysSought
  BY DEF Init, PowerOn, BtInit, BondsFlagged, BondedAlwaysSought
<1>2. IInv /\ BondsFlagged /\ BondedAlwaysSought /\ [Next]_vars
        => BondsFlagged' /\ BondedAlwaysSought'
  BY IInvParts, FlagInductive, SoughtInductive
<1> QED
  BY <1>1, <1>2, Invariance, PTL DEF Spec
-------------------------------------------------------------------------------
(***************************************************************************)
(* Whom the bridge lets in                                                 *)
(***************************************************************************)

\* What StrangerGate says of one step.
GateStep ==
  \A i \in Slot : slots[i].state = "IDLE" /\ slots'[i].state = "CONNECTING" =>
                    pairing_window \/ Bonded(Identity(slots'[i].adv_addr))

LEMMA GateAtBegin ==
  ASSUME TypeOK, NEW a \in Addr, NEW accepted, ConnectIf(accepted, a),
         accepted => pairing_window \/ Bonded(Identity(a))
  PROVE  GateStep
<1>1. CASE BeginConnect(a) /\ accepted
  <2>1. PICK i \in Slot :
          slots' = [slots EXCEPT ![i].state = "CONNECTING", ![i].adv_addr = a]
    BY <1>1 DEF BeginConnect
  <2>2. slots' = [slots EXCEPT ![i] = [slots[i] EXCEPT !.state = "CONNECTING", !.adv_addr = a]]
    BY <2>1 DEF TypeOK, HidSlot
  <2>3. slots'[i].adv_addr = a /\ \A j \in Slot \ {i} : slots'[j] = slots[j]
    BY <2>2 DEF TypeOK, HidSlot
  <2> QED
    BY <1>1, <2>3 DEF GateStep
<1>2. CASE UNCHANGED coordVars
  BY <1>2 DEF GateStep, coordVars
<1> QED
  BY <1>1, <1>2 DEF ConnectIf

\* Security events claim no slot.
LEMMA NoneClaimedAfterSecurity ==
  ASSUME TypeOK, CoreInv, NEW lk,
         \/ ConnectToHidService(connecting_slot, lk)
         \/ HandleConnectionError(connecting_slot, lk)
  PROVE  GateStep
<1>1. CASE FreeSlot(connecting_slot)
  BY <1>1 DEF FreeSlot, IdleSlot, GateStep
<1>2. CASE UNCHANGED slots
  BY <1>2 DEF GateStep
<1>3. CASE \E c : slots' = [slots EXCEPT ![connecting_slot].hids_cid = c]
  BY <1>3 DEF GateStep, TypeOK, HidSlot
<1> QED
  BY <1>1, <1>2, <1>3 DEF ConnectToHidService, HandleConnectionError, OnConnectFail, coordVars

LEMMA GateKept ==
  ASSUME TypeOK, CoreInv, [Next]_vars
  PROVE  GateStep
<1>1. CASE UNCHANGED slots
  BY <1>1 DEF GateStep
<1>2. CASE \E i : FreeSlot(i)
  BY <1>2 DEF FreeSlot, IdleSlot, GateStep
<1>3. CASE \E a \in Addr, hid \in BOOLEAN : OnAdvertisingReport(a, hid)
  <2>1. PICK a \in Addr, hid \in BOOLEAN : OnAdvertisingReport(a, hid)
    BY <1>3
  <2>2. CASE has_bonded_device /\ a \in RpaAddr
    BY <1>1, <2>1, <2>2 DEF OnAdvertisingReport, coordVars
  <2>3. CASE ~(has_bonded_device /\ a \in RpaAddr)
    <3>1. ConnectIf((has_bonded_device /\ Bonded(a)) \/ AcceptsNew(hid), a)
      BY <2>1, <2>3 DEF OnAdvertisingReport
    <3>2. (has_bonded_device /\ Bonded(a)) \/ AcceptsNew(hid) =>
            pairing_window \/ Bonded(Identity(a))
      BY <2>3 DEF AcceptsNew, Identity
    <3> QED
      BY <3>1, <3>2, GateAtBegin
  <2> QED
    BY <2>2, <2>3
<1>4. CASE \E r \in RpaAddr : OnRpaResolved(r) \/ OnRpaResolveFailed(r)
  <2>1. PICK r \in RpaAddr : OnRpaResolved(r) \/ OnRpaResolveFailed(r)
    BY <1>4
  <2>2. r \in Addr
    BY DevicesAssumption
  <2>3. CASE ConnectIf(has_bonded_device /\ Bonded(Identity(r)), r)
    BY <2>2, <2>3, GateAtBegin
  <2>4. CASE ConnectIf(AcceptsNew(PendingHasHid(r)), r)
    BY <2>2, <2>4, GateAtBegin DEF AcceptsNew
  <2> QED
    BY <2>1, <2>3, <2>4 DEF OnRpaResolved, OnRpaResolveFailed
<1>5. CASE \E a \in Addr : OnConnectionUp(a)
  BY <1>1, <1>5 DEF OnConnectionUp, AdoptLink, GateStep, TypeOK, HidSlot
<1>6. CASE \E h \in Handle : OnHidServiceConnected(h)
  BY <1>1, <1>6 DEF OnHidServiceConnected, GateStep, TypeOK, HidSlot
<1>7. CASE \E h \in Handle : SecurityOutcome(h) \/ OnSecurityAborted(h)
  <2>1. CASE \E lk : \/ ConnectToHidService(connecting_slot, lk)
                     \/ HandleConnectionError(connecting_slot, lk)
    BY <2>1, NoneClaimedAfterSecurity
  <2> QED
    BY <1>7, <2>1
       DEF SecurityOutcome, OnSecurityAborted, OnPairingComplete, OnReencryptionComplete,
           PairingComplete
<1>8. CASE \E h \in Handle : \/ OnHidServiceFailed(h) \/ OnHidServiceDisconnected(h)
                             \/ OnDisconnection(h)
  BY <1>1, <1>2, <1>8
     DEF OnHidServiceFailed, OnHidServiceDisconnected, OnDisconnection, OnConnectFail,
         coordVars
<1>9. CASE ConnectionTimeout \/ \E a \in Addr : OnConnectionFailed(a)
  BY <1>1, <1>2, <1>9 DEF ConnectionTimeout, OnConnectionFailed, OnConnectFail, coordVars
<1>10. CASE PowerCycle
  BY <1>10 DEF PowerCycle, IdleSlot, GateStep
<1>11. CASE \/ UNCHANGED vars \/ OnBtstackReady \/ ScanTimeout \/ ButtonPress \/ WindowExpires
            \/ LedTick \/ ConsumeReinitRequest
            \/ \E h \in Handle : SecurityRequest(h) \/ OnIdentityCreated(h) \/ LinkLost(h)
  BY <1>1, <1>11
     DEF vars, coordVars, OnBtstackReady, ScanTimeout, ButtonPress, WindowExpires, LedTick,
         ConsumeReinitRequest, SecurityRequest, OnIdentityCreated, LinkLost
<1> QED
  BY <1>3, <1>4, <1>5, <1>6, <1>7, <1>8, <1>9, <1>10, <1>11
     DEF Next, HidOutcome, LinkEndReported

\* A slot is claimed for a bonded device, or for one met with the window open.
THEOREM StrangersKeptOut == Spec => StrangerGate
<1>1. IInv /\ [Next]_vars => [GateStep]_vars
  BY IInvParts, GateKept
<1>2. Spec => [][GateStep]_vars
  BY <1>1, Invariance, PTL DEF Spec
<1> QED
  BY <1>2 DEF StrangerGate, GateStep

-------------------------------------------------------------------------------
(***************************************************************************)
(* The table of pending lookups and the queue behind it.  Five things      *)
(* happen to them; the rest of the coordinator leaves them alone.          *)
(***************************************************************************)

SmQueueFits ==
  IsFiniteSet(sm_lookups) /\ Cardinality(sm_lookups) <= MAX_NR_SM_LOOKUP_ENTRIES

\* No address is in the table twice.
LookupsDistinct ==
  \A d, e \in Entries, r \in RpaAddr : PendingAt(d, r) /\ PendingAt(e, r) => d = e

LookupInv == RpaTypeOK /\ SmQueueFits /\ LookupsDistinct

LookupsEmptied == pending_rpa_lookups' = [e \in Entries |-> NoLookup]

LEMMA LookupCases ==
  ASSUME [Next]_vars
  PROVE  \/ UNCHANGED <<pending_rpa_lookups, sm_lookups>>
         \/ \E r \in RpaAddr, hid \in BOOLEAN :
              ~LookupPending(r) /\ TrackLookup(r, hid) /\ SmAddressResolutionLookup(r)
         \/ \E r \in RpaAddr :
              r \in sm_lookups /\ sm_lookups' = sm_lookups \ {r} /\ ClearPending(r)
         \/ LookupsEmptied /\ UNCHANGED sm_lookups
         \/ LookupsEmptied /\ sm_lookups' = {}
<1>1. CASE OnBtstackReady
  BY <1>1 DEF OnBtstackReady, rpaVars
<1>2. ASSUME NEW a \in Addr, NEW hid \in BOOLEAN, OnAdvertisingReport(a, hid)
      PROVE  \/ UNCHANGED <<pending_rpa_lookups, sm_lookups>>
             \/ \E r \in RpaAddr, had \in BOOLEAN :
                  ~LookupPending(r) /\ TrackLookup(r, had) /\ SmAddressResolutionLookup(r)
  BY <1>2 DEF OnAdvertisingReport, rpaVars
<1>3. ASSUME NEW r \in RpaAddr, OnRpaResolved(r) \/ OnRpaResolveFailed(r)
      PROVE  r \in sm_lookups /\ sm_lookups' = sm_lookups \ {r} /\ ClearPending(r)
  BY <1>3 DEF OnRpaResolved, OnRpaResolveFailed
<1>4. ASSUME NEW a \in Addr, OnConnectionUp(a) \/ OnConnectionFailed(a)
      PROVE  UNCHANGED <<pending_rpa_lookups, sm_lookups>>
  BY <1>4 DEF OnConnectionUp, OnConnectionFailed, rpaVars
<1>5. ASSUME NEW h \in Handle, SecurityRequest(h) \/ OnIdentityCreated(h) \/ LinkLost(h)
      PROVE  UNCHANGED <<pending_rpa_lookups, sm_lookups>>
  BY <1>5 DEF SecurityRequest, OnIdentityCreated, LinkLost, rpaVars
<1>6. ASSUME NEW h \in Handle, SecurityOutcome(h) \/ HidOutcome(h)
      PROVE  UNCHANGED <<pending_rpa_lookups, sm_lookups>>
  BY <1>6 DEF SecurityOutcome, HidOutcome, OnPairingComplete, OnReencryptionComplete,
     OnHidServiceConnected, OnHidServiceFailed, rpaVars
<1>7. ASSUME NEW h \in Handle, LinkEndReported(h)
      PROVE  \/ UNCHANGED <<pending_rpa_lookups, sm_lookups>>
             \/ LookupsEmptied /\ UNCHANGED sm_lookups
  BY <1>7 DEF LinkEndReported, OnSecurityAborted, OnHidServiceDisconnected, OnDisconnection,
     ClearAllPending, LookupsEmptied, rpaVars
<1>8. CASE ScanTimeout \/ ConnectionTimeout \/ ButtonPress \/ WindowExpires \/ LedTick
  BY <1>8 DEF ScanTimeout, ConnectionTimeout, ButtonPress, WindowExpires, LedTick, rpaVars
<1>9. CASE ConsumeReinitRequest
  BY <1>9 DEF ConsumeReinitRequest, rpaVars
<1>10. CASE PowerCycle
  BY <1>10 DEF PowerCycle, LookupsEmptied
<1>11. CASE UNCHANGED vars
  BY <1>11 DEF vars, rpaVars
<1> QED
  BY <1>1, <1>2, <1>3, <1>4, <1>5, <1>6, <1>7, <1>8, <1>9, <1>10, <1>11 DEF Next

\* After a lookup is entered: the entries are those there were, less the one overwritten,
\* and the new one.
LEMMA TrackedAt ==
  ASSUME RpaTypeOK, NEW r \in RpaAddr, NEW hid \in BOOLEAN, TrackLookup(r, hid),
         NEW e \in Entries, NEW q \in RpaAddr, PendingAt(e, q)'
  PROVE  IF e = pending_rpa_lookup_index THEN q = r ELSE PendingAt(e, q)
  BY DEF RpaTypeOK, TrackLookup, PendingAt

LEMMA ClearedAt ==
  ASSUME NEW r \in RpaAddr, ClearPending(r),
         NEW e \in Entries, NEW q \in RpaAddr, PendingAt(e, q)'
  PROVE  PendingAt(e, q) /\ q # r
  BY DEF ClearPending, PendingAt

LEMMA EmptiedAt ==
  ASSUME LookupsEmptied, NEW e \in Entries, NEW q \in RpaAddr
  PROVE  ~PendingAt(e, q)'
  BY DEF LookupsEmptied, PendingAt

LEMMA QueueAsked ==
  ASSUME SmQueueFits, NEW r \in RpaAddr, SmAddressResolutionLookup(r)
  PROVE  /\ SmQueueFits'
         /\ sm_lookups \subseteq sm_lookups'
         /\ r \in sm_lookups' \/ Cardinality(sm_lookups) = MAX_NR_SM_LOOKUP_ENTRIES
<1>1. Cardinality(sm_lookups) \in Nat /\ MAX_NR_SM_LOOKUP_ENTRIES \in Nat
  BY FS_CardinalityType, RpaLookupsAssumption DEF SmQueueFits
<1>2. CASE Cardinality(sm_lookups) < MAX_NR_SM_LOOKUP_ENTRIES
  <2>1. sm_lookups' = sm_lookups \cup {r}
    BY <1>2 DEF SmAddressResolutionLookup
  <2>2. /\ IsFiniteSet(sm_lookups \cup {r})
        /\ \/ Cardinality(sm_lookups \cup {r}) = Cardinality(sm_lookups)
           \/ Cardinality(sm_lookups \cup {r}) = Cardinality(sm_lookups) + 1
    BY FS_AddElement DEF SmQueueFits
  <2> QED
    BY <1>1, <1>2, <2>1, <2>2 DEF SmQueueFits
<1>3. CASE ~(Cardinality(sm_lookups) < MAX_NR_SM_LOOKUP_ENTRIES)
  <2>1. sm_lookups' = sm_lookups
    BY <1>3 DEF SmAddressResolutionLookup
  <2> QED
    BY <1>1, <1>3, <2>1 DEF SmQueueFits
<1> QED
  BY <1>2, <1>3

LEMMA QueueShrinks ==
  ASSUME SmQueueFits, NEW Q, Q \subseteq sm_lookups, sm_lookups' = Q
  PROVE  SmQueueFits'
<1>1. IsFiniteSet(Q) /\ Cardinality(Q) <= Cardinality(sm_lookups)
  BY FS_Subset DEF SmQueueFits
<1>2. /\ Cardinality(Q) \in Nat /\ Cardinality(sm_lookups) \in Nat
      /\ MAX_NR_SM_LOOKUP_ENTRIES \in Nat
  BY <1>1, FS_CardinalityType, RpaLookupsAssumption DEF SmQueueFits
<1> QED
  BY <1>1, <1>2 DEF SmQueueFits

LEMMA LookupStep ==
  ASSUME LookupInv, RpaTypeOK', [Next]_vars
  PROVE  LookupInv'
<1>1. CASE UNCHANGED <<pending_rpa_lookups, sm_lookups>>
  BY <1>1 DEF LookupInv, SmQueueFits, LookupsDistinct, PendingAt
<1>2. ASSUME NEW r \in RpaAddr, NEW hid \in BOOLEAN, ~LookupPending(r),
             TrackLookup(r, hid), SmAddressResolutionLookup(r)
      PROVE  LookupInv'
  <2>1. SmQueueFits'
    BY <1>2, QueueAsked DEF LookupInv
  <2>2. LookupsDistinct'
    <3> SUFFICES ASSUME NEW d \in Entries, NEW e \in Entries, NEW q \in RpaAddr,
                        PendingAt(d, q)', PendingAt(e, q)'
                 PROVE  d = e
      BY DEF LookupsDistinct
    <3>1. /\ IF d = pending_rpa_lookup_index THEN q = r ELSE PendingAt(d, q)
          /\ IF e = pending_rpa_lookup_index THEN q = r ELSE PendingAt(e, q)
      BY <1>2, TrackedAt DEF LookupInv
    <3>2. ~PendingAt(d, r) /\ ~PendingAt(e, r)
      BY <1>2 DEF LookupPending
    <3> QED
      BY <3>1, <3>2 DEF LookupInv, LookupsDistinct
  <2> QED
    BY <2>1, <2>2 DEF LookupInv
<1>3. ASSUME NEW r \in RpaAddr, sm_lookups' = sm_lookups \ {r}, ClearPending(r)
      PROVE  LookupInv'
  <2>1. SmQueueFits'
    BY <1>3, QueueShrinks DEF LookupInv
  <2>2. LookupsDistinct'
    BY <1>3, ClearedAt DEF LookupInv, LookupsDistinct
  <2> QED
    BY <2>1, <2>2 DEF LookupInv
<1>4. CASE LookupsEmptied /\ (UNCHANGED sm_lookups \/ sm_lookups' = {})
  <2>1. SmQueueFits'
    BY <1>4, QueueShrinks DEF LookupInv
  <2>2. LookupsDistinct'
    BY <1>4, EmptiedAt DEF LookupsDistinct
  <2> QED
    BY <2>1, <2>2 DEF LookupInv
<1> QED
  BY <1>1, <1>2, <1>3, <1>4, LookupCases

THEOREM LookupInvariance == Spec => []LookupInv
<1>1. Init => LookupInv
  <2> SUFFICES ASSUME Init PROVE LookupInv
    OBVIOUS
  <2>1. RpaTypeOK
    BY RpaLookupsAssumption DEF Init, PowerOn, RpaInit, RpaTypeOK, Entries
  <2>2. SmQueueFits
    BY FS_EmptySet, RpaLookupsAssumption DEF Init, PowerOn, RpaInit, SmQueueFits
  <2>3. LookupsDistinct
    BY DEF Init, PowerOn, RpaInit, LookupsDistinct, PendingAt
  <2> QED
    BY <2>1, <2>2, <2>3 DEF LookupInv
<1>2. LookupInv /\ TypeOK' /\ [Next]_vars => LookupInv'
  BY LookupStep DEF TypeOK
<1> QED
  BY <1>1, <1>2, TypeCorrect, PTL DEF Spec

\* The table never holds an address twice, so that freeing the first entry for it, as
\* get_and_clear_pending_rpa_has_hid_service does, frees them all.
THEOREM LookupsOnce == Spec => []LookupsDistinct
<1>1. LookupInv => LookupsDistinct
  BY DEF LookupInv
<1> QED
  BY <1>1, LookupInvariance, PTL

LEMMA LookupLost ==
  ASSUME LookupInv, [Next]_vars, NEW q \in RpaAddr, Unanswered(q)', ~Unanswered(q)
  PROVE  ~LookupPending(q) /\ Cardinality(sm_lookups) = MAX_NR_SM_LOOKUP_ENTRIES
<1>0. PICK e \in Entries : PendingAt(e, q)'
  BY DEF Unanswered, LookupPending
<1>1. CASE UNCHANGED <<pending_rpa_lookups, sm_lookups>>
  BY <1>1 DEF Unanswered, LookupPending, PendingAt
<1>2. ASSUME NEW r \in RpaAddr, NEW hid \in BOOLEAN, ~LookupPending(r),
             TrackLookup(r, hid), SmAddressResolutionLookup(r)
      PROVE  ~LookupPending(q) /\ Cardinality(sm_lookups) = MAX_NR_SM_LOOKUP_ENTRIES
  <2>1. /\ sm_lookups \subseteq sm_lookups'
        /\ r \in sm_lookups' \/ Cardinality(sm_lookups) = MAX_NR_SM_LOOKUP_ENTRIES
    BY <1>2, QueueAsked DEF LookupInv
  <2>2. q \notin sm_lookups
    BY <2>1 DEF Unanswered
  <2>3. ~LookupPending(q)
    BY <2>2 DEF Unanswered
  <2>4. q = r
    BY <1>0, <1>2, <2>3, TrackedAt DEF LookupInv, LookupPending
  <2> QED
    BY <2>1, <2>3, <2>4 DEF Unanswered
<1>3. ASSUME NEW r \in RpaAddr, sm_lookups' = sm_lookups \ {r}, ClearPending(r)
      PROVE  FALSE
  <2>1. PendingAt(e, q) /\ q # r
    BY <1>0, <1>3, ClearedAt
  <2> QED
    BY <1>3, <2>1 DEF Unanswered, LookupPending
<1>4. CASE LookupsEmptied
  BY <1>0, <1>4, EmptiedAt
<1> QED
  BY <1>1, <1>2, <1>3, <1>4, LookupCases

\* Only a full queue of the security manager leaves an address in the table that nobody
\* will answer, for tables and queues of any size (ble_coordinator.c:372-422, 516-520).
THEOREM LookupsAnswered == Spec => LookupLostOnlyWhenFull
<1>1. LookupInv /\ [Next]_vars =>
        [\A r \in RpaAddr :
           Unanswered(r)' =>
             \/ Unanswered(r)
             \/ ~LookupPending(r) /\ Cardinality(sm_lookups) = MAX_NR_SM_LOOKUP_ENTRIES]_vars
  BY LookupLost
<1> QED
  BY <1>1, LookupInvariance, PTL DEF Spec, LookupLostOnlyWhenFull

-------------------------------------------------------------------------------
(***************************************************************************)
(* The feed: every handler is one step of it, or none.                     *)
(***************************************************************************)

\* The clients of the READY slots, the ready of module ReadyFeed.
ReadyClients == [i \in Slot |-> IF slots[i].state = "READY" THEN slots[i].hids_cid ELSE NoCid]

\* Before BTstack has started there is nothing to publish.
RestsUntilReady ==
  ~running => connection_timer # "connect" /\ \A h \in Handle : links[h].state = "free"

LEMMA RestInductive ==
  ASSUME LinkInv, RestsUntilReady, [Next]_vars
  PROVE  RestsUntilReady'
<1>1. CASE running'
  BY <1>1 DEF RestsUntilReady
<1>2. CASE PowerCycle
  <2>1. \A h \in Handle : links'[h].state = "free"
    BY <1>2 DEF PowerCycle, FreeLink
  <2> QED
    BY <1>2, <2>1 DEF PowerCycle, RestsUntilReady
<1>3. CASE ~running /\ (ScanTimeout \/ ButtonPress \/ WindowExpires \/ LedTick \/ ConsumeReinitRequest)
  <2>1. /\ UNCHANGED links
        /\ connection_timer' \in {connection_timer, "scan", "off"}
    BY <1>3 DEF ScanTimeout, ButtonPress, WindowExpires, LedTick, ConsumeReinitRequest,
       MaybeStartScan, StartScan, coordVars, btVars
  <2> QED
    BY <1>3, <2>1 DEF RestsUntilReady
<1>4. CASE UNCHANGED vars
  BY <1>4 DEF vars, btVars, coordVars, RestsUntilReady
<1>5. CASE ConnectionTimeout
  BY <1>5 DEF ConnectionTimeout, RestsUntilReady
<1>6. CASE \/ \E a \in Addr, hid \in BOOLEAN : OnAdvertisingReport(a, hid)
           \/ \E r \in RpaAddr : OnRpaResolved(r) \/ OnRpaResolveFailed(r)
           \/ \E a \in Addr : OnConnectionUp(a) \/ OnConnectionFailed(a)
  <2>1. running /\ running' = running
    BY <1>6 DEF OnAdvertisingReport, OnRpaResolved, OnRpaResolveFailed, OnConnectionUp,
       OnConnectionFailed, Quiet
  <2> QED
    BY <1>1, <2>1
<1>7. CASE \E h \in Handle : \/ SecurityRequest(h) \/ OnIdentityCreated(h)
                             \/ SecurityOutcome(h) \/ HidOutcome(h) \/ LinkLost(h)
  <2>1. running /\ running' = running
    BY <1>7 DEF SecurityRequest, OnIdentityCreated, SecurityOutcome, OnPairingComplete,
       OnReencryptionComplete, HidOutcome, OnHidServiceConnected, OnHidServiceFailed,
       LinkLost, Quiet
  <2> QED
    BY <1>1, <2>1
<1>8. CASE \E h \in Handle : LinkEndReported(h)
  <2>1. PICK h \in Handle : LinkEndReported(h)
    BY <1>8
  <2>2. links[h].state \in {"down", "gone"} /\ UNCHANGED running
    BY <2>1 DEF LinkEndReported, OnSecurityAborted, OnHidServiceDisconnected, OnDisconnection
  <2> QED
    BY <1>1, <2>2 DEF RestsUntilReady
<1>9. CASE OnBtstackReady
  BY <1>1, <1>9 DEF OnBtstackReady
<1>10. CASE running /\ (ScanTimeout \/ ButtonPress \/ WindowExpires \/ LedTick \/ ConsumeReinitRequest)
  BY <1>1, <1>10 DEF ScanTimeout, ButtonPress, WindowExpires, LedTick, ConsumeReinitRequest,
     btVars
<1> QED
  BY <1>2, <1>3, <1>4, <1>5, <1>6, <1>7, <1>8, <1>9, <1>10 DEF Next

-------------------------------------------------------------------------------
(***************************************************************************)
(* The steps                                                               *)
(***************************************************************************)

LEMMA Stutter ==
  ASSUME UNCHANGED <<running, publishedVars>>, ReadyClients' = ReadyClients
  PROVE  UNCHANGED Feed!feedVars
  BY DEF Feed!feedVars, publishedVars, ReadyClients

\* Slots that agree on who is READY, and on the clients, agree on the feed.
LEMMA SameReady ==
  ASSUME \A i \in Slot :
           \/ slots'[i].state = slots[i].state /\ slots'[i].hids_cid = slots[i].hids_cid
           \/ slots[i].state # "READY" /\ slots'[i].state # "READY"
  PROVE  ReadyClients' = ReadyClients
  BY DEF ReadyClients

LEMMA PublishedFeed ==
  ASSUME SlotInv', PublishSnapshot, running, UNCHANGED running
  PROVE  Feed!Publish
<1>1. \A i \in Slot : slots'[i].state = "READY" => slots'[i].hids_cid # NoCid
  BY DEF SlotInv, SlotsHaveLinks
<1>2. {j \in Slot : ReadyClients'[j] # NoCid} = {j \in Slot : slots'[j].state = "READY"}
  BY <1>1 DEF ReadyClients
<1>3. \A i \in Slot : slots'[i].state = "READY" => ReadyClients'[i] = slots'[i].hids_cid
  BY DEF ReadyClients
<1>4. Feed!SnapshotOf(ReadyClients') = SnapshotOf(slots')
  BY <1>2, <1>3 DEF Feed!SnapshotOf, SnapshotOf
<1> QED
  BY <1>4 DEF Feed!Publish, PublishSnapshot, ReadyClients

LEMMA FreedFeed ==
  ASSUME SlotInv', NEW i \in Slot \cup {NoSlot}, FreeSlot(i), PublishSnapshot,
         running, UNCHANGED running
  PROVE  Feed!Next
<1>1. Feed!Publish
  BY PublishedFeed
<1>2. CASE i \in Slot
  <2>1. ReadyClients' = [ReadyClients EXCEPT ![i] = NoCid]
    BY <1>2 DEF ReadyClients, FreeSlot, IdleSlot
  <2>2. Feed!Lose(i)
    BY <1>1, <2>1 DEF Feed!Lose, ReadyClients
  <2> QED
    BY <1>2, <2>2 DEF Feed!Next
<1>3. CASE i \notin Slot
  <2>1. ReadyClients' = ReadyClients
    BY <1>3 DEF ReadyClients, FreeSlot
  <2>2. Feed!Republish
    BY <1>1, <2>1 DEF Feed!Republish, ReadyClients
  <2> QED
    BY <2>2 DEF Feed!Next
<1> QED
  BY <1>2, <1>3

LEMMA SecurityFeed ==
  ASSUME TypeOK, CoreInv, SlotInv', running, UNCHANGED running, NEW lk, Kept(lk),
         \/ ConnectToHidService(connecting_slot, lk)
         \/ HandleConnectionError(connecting_slot, lk)
  PROVE  [Feed!Next]_(Feed!feedVars)
<1> DEFINE i == connecting_slot
<1>1. CASE FreeSlot(i) /\ PublishSnapshot
  BY <1>1, FreedFeed DEF TypeOK
<1>2. CASE UNCHANGED <<slots, publishedVars>>
  BY <1>2, SameReady, Stutter
<1>3. CASE /\ i \in Slot /\ HidsHostAccepts(slots[i].con_handle, lk)
           /\ \E c : slots' = [slots EXCEPT ![i].hids_cid = c]
           /\ UNCHANGED publishedVars
  <2>1. slots[i].state # "READY"
    <3>1. links[slots[i].con_handle].cid = NoCid
      BY <1>3 DEF HidsHostAccepts, Kept
    <3> QED
      BY <1>3, <3>1 DEF CoreInv, SlotInv, SlotsHaveLinks
  <2>2. /\ slots'[i].state = slots[i].state
        /\ \A j \in Slot \ {i} : slots'[j] = slots[j]
    BY <1>3 DEF TypeOK, HidSlot
  <2> QED
    BY <1>3, <2>1, <2>2, SameReady, Stutter
<1> QED
  BY <1>1, <1>2, <1>3
     DEF ConnectToHidService, HandleConnectionError, OnConnectFail, coordVars

LEMMA ReadyFeedStep ==
  ASSUME TypeOK, CoreInv, SlotInv', NEW h \in Handle, OnHidServiceConnected(h)
  PROVE  [Feed!Next]_(Feed!feedVars)
<1>1. running /\ UNCHANGED running /\ links[h].hid = "discovering"
  BY DEF OnHidServiceConnected, Quiet
<1>2. links[h].cid \in Cid /\ links[h].cid # NoCid
  BY <1>1 DEF CoreInv, LinkInv, LinkShape, TypeOK, BtTypeOK, Link
<1>3. CASE UNCHANGED <<slots, publishedVars>>
  BY <1>1, <1>3, SameReady, Stutter
<1>4. ASSUME NEW i \in Slot, SlotOfCid(i, links[h].cid),
             slots' = [slots EXCEPT ![i].state = "READY"], PublishSnapshot
      PROVE  Feed!Next
  <2>1. slots[i].hids_cid = links[h].cid
    BY <1>4 DEF SlotOfCid, HasCid
  <2>2. slots[i].con_handle = h
    BY <1>2, <2>1, ClientsSlot
  <2>3. slots[i].state # "READY"
    BY <1>1, <2>2 DEF CoreInv, SlotInv, SlotsHaveLinks
  <2>4. /\ slots'[i].state = "READY"
        /\ slots'[i].hids_cid = links[h].cid
        /\ \A j \in Slot \ {i} : slots'[j] = slots[j]
    BY <1>4, <2>1 DEF TypeOK, HidSlot
  <2>5. ReadyClients[i] = NoCid /\ ReadyClients' = [ReadyClients EXCEPT ![i] = links[h].cid]
    BY <2>3, <2>4 DEF ReadyClients
  <2>6. Feed!Publish
    BY <1>1, <1>4, PublishedFeed
  <2>7. PICK c \in Cid : c = links[h].cid
    BY <1>2
  <2>8. \A j \in Slot : ReadyClients[j] # c
    <3> SUFFICES ASSUME NEW j \in Slot, slots[j].state = "READY", slots[j].hids_cid = links[h].cid
                 PROVE  FALSE
      BY <1>2, <2>7 DEF ReadyClients
    <3>1. slots[j].con_handle = h
      BY <1>2, ClientsSlot
    <3> QED
      BY <1>1, <3>1 DEF CoreInv, SlotInv, SlotsHaveLinks
  <2>9. Feed!Gain(i, c)
    BY <2>5, <2>6, <2>7, <2>8 DEF Feed!Gain, ReadyClients
  <2> QED
    BY <2>9 DEF Feed!Next
<1> QED
  BY <1>3, <1>4 DEF OnHidServiceConnected

LEMMA FeedStep ==
  ASSUME TypeOK, CoreInv, RestsUntilReady, SlotInv', [Next]_vars
  PROVE  [Feed!Next]_(Feed!feedVars)
<1>1. connecting_slot \in Slot \cup {NoSlot}
  BY DEF TypeOK
<1>2. CASE UNCHANGED <<running, slots, publishedVars>>
  BY <1>2, SameReady, Stutter
<1>3. CASE OnBtstackReady
  <2>1. ReadyClients' = ReadyClients
    BY <1>3, SameReady DEF OnBtstackReady
  <2>2. Feed!Start
    BY <1>3, <2>1 DEF OnBtstackReady, Feed!Start, publishedVars, ReadyClients
  <2> QED
    BY <2>2 DEF Feed!Next
<1>4. CASE \/ \E a \in Addr, hid \in BOOLEAN : OnAdvertisingReport(a, hid)
           \/ \E r \in RpaAddr : OnRpaResolved(r) \/ OnRpaResolveFailed(r)
  <2>1. UNCHANGED <<running, publishedVars>>
    BY <1>4 DEF OnAdvertisingReport, OnRpaResolved, OnRpaResolveFailed
  <2>2. CASE UNCHANGED slots
    BY <1>2, <2>1, <2>2
  <2>3. CASE \E a \in Addr : BeginConnect(a)
    <3>1. PICK a \in Addr, i \in Slot :
            /\ slots[i].state = "IDLE"
            /\ slots' = [slots EXCEPT ![i].state = "CONNECTING", ![i].adv_addr = a]
      BY <2>3 DEF BeginConnect, FirstIdle
    <3>2. slots' = [slots EXCEPT ![i] = [slots[i] EXCEPT !.state = "CONNECTING", !.adv_addr = a]]
      BY <3>1 DEF TypeOK, HidSlot
    <3>3. slots'[i].state = "CONNECTING" /\ \A j \in Slot \ {i} : slots'[j] = slots[j]
      BY <3>2 DEF TypeOK, HidSlot
    <3>4. slots[i].state # "READY"
      BY <3>1
    <3> QED
      BY <2>1, <3>3, <3>4, SameReady, Stutter
  <2> QED
    BY <1>4, <2>2, <2>3, DevicesAssumption
       DEF OnAdvertisingReport, OnRpaResolved, OnRpaResolveFailed, ConnectIf, coordVars
<1>5. CASE \E a \in Addr : OnConnectionUp(a)
  <2>1. \A i \in Slot : slots'[i].state = slots[i].state /\ slots'[i].hids_cid = slots[i].hids_cid
    BY <1>5 DEF OnConnectionUp, AdoptLink, TypeOK, HidSlot
  <2> QED
    BY <1>5, <2>1, SameReady, Stutter DEF OnConnectionUp
<1>6. CASE \E h \in Handle : SecurityOutcome(h) \/ OnSecurityAborted(h)
  <2>1. PICK h \in Handle : SecurityOutcome(h) \/ OnSecurityAborted(h)
    BY <1>6
  <2>2. links[h].state # "free"
    <3>1. Securing(h) \/ links[h].sm = "asked"
      BY <2>1 DEF SecurityOutcome, OnSecurityAborted, OnPairingComplete,
         OnReencryptionComplete
    <3>2. FreeLink.sm = "none"
      BY DEF FreeLink
    <3> QED
      BY <3>1, <3>2 DEF Securing, CoreInv, LinkInv, LinkShape
  <2>3. PICK new \in {"none", "secured"} :
          \/ ConnectToHidService(connecting_slot, [links EXCEPT ![h].sm = new])
          \/ HandleConnectionError(connecting_slot, [links EXCEPT ![h].sm = new])
    BY <2>1 DEF SecurityOutcome, OnSecurityAborted, OnPairingComplete,
       OnReencryptionComplete, PairingComplete
  <2>4. running /\ UNCHANGED running
    BY <2>1, <2>2 DEF SecurityOutcome, OnSecurityAborted, OnPairingComplete,
       OnReencryptionComplete, RestsUntilReady
  <2>5. Kept([links EXCEPT ![h].sm = new])
    BY <2>2, SmKept DEF CoreInv
  <2> QED
    BY <2>3, <2>4, <2>5, SecurityFeed
<1>7. CASE \E h \in Handle : \/ OnHidServiceFailed(h) \/ OnHidServiceDisconnected(h)
                             \/ OnDisconnection(h)
  <2>1. PICK h \in Handle : \/ OnHidServiceFailed(h) \/ OnHidServiceDisconnected(h)
                            \/ OnDisconnection(h)
    BY <1>7
  <2>2. running /\ UNCHANGED running
    BY <2>1 DEF OnHidServiceFailed, OnHidServiceDisconnected, OnDisconnection, Quiet,
       RestsUntilReady
  <2>3. CASE \E i \in Slot : FreeSlot(i) /\ PublishSnapshot
    BY <2>2, <2>3, FreedFeed
  <2>4. CASE UNCHANGED <<slots, publishedVars>>
    BY <1>2, <2>2, <2>4
  <2> QED
    BY <2>1, <2>3, <2>4
       DEF OnHidServiceFailed, OnHidServiceDisconnected, OnDisconnection, OnConnectFail,
           coordVars
<1>8. CASE ConnectionTimeout \/ \E a \in Addr : OnConnectionFailed(a)
  <2>1. running /\ UNCHANGED running
    BY <1>8 DEF ConnectionTimeout, OnConnectionFailed, Quiet, RestsUntilReady
  <2>2. CASE FreeSlot(connecting_slot) /\ PublishSnapshot
    BY <1>1, <2>1, <2>2, FreedFeed
  <2>3. CASE UNCHANGED <<slots, publishedVars>>
    BY <1>2, <2>1, <2>3
  <2> QED
    BY <1>8, <2>2, <2>3 DEF ConnectionTimeout, OnConnectionFailed, OnConnectFail, coordVars
<1>9. CASE ConsumeReinitRequest
  <2>1. ReadyClients' = ReadyClients
    BY <1>9, SameReady DEF ConsumeReinitRequest, coordVars
  <2>2. Feed!Consume
    BY <1>9, <2>1 DEF ConsumeReinitRequest, Feed!Consume, btVars, ReadyClients
  <2> QED
    BY <2>2 DEF Feed!Next
<1>10. CASE PowerCycle
  <2>1. ReadyClients' = [i \in Slot |-> NoCid]
    BY <1>10 DEF PowerCycle, IdleSlot, ReadyClients
  <2>2. Feed!PowerCycle
    BY <1>10, <2>1 DEF PowerCycle, Feed!PowerCycle, ReadyClients
  <2> QED
    BY <2>2 DEF Feed!Next
<1>11. CASE \/ UNCHANGED vars \/ ScanTimeout \/ ButtonPress \/ WindowExpires \/ LedTick
            \/ \E h \in Handle : SecurityRequest(h) \/ OnIdentityCreated(h) \/ LinkLost(h)
  BY <1>2, <1>11
     DEF vars, coordVars, btVars, ScanTimeout, ButtonPress, WindowExpires, LedTick,
         SecurityRequest, OnIdentityCreated, LinkLost
<1> QED
  BY <1>3, <1>4, <1>5, <1>6, <1>7, <1>8, <1>9, <1>10, <1>11, ReadyFeedStep
     DEF Next, HidOutcome, LinkEndReported

LEMMA FeedInit == Init => Feed!Init
<1> SUFFICES ASSUME Init PROVE Feed!Init
  OBVIOUS
<1>1. ReadyClients = [i \in Slot |-> NoCid]
  BY DEF Init, PowerOn, IdleSlot, ReadyClients
<1> QED
  BY <1>1 DEF Init, PowerOn, BtInit, Feed!Init, ReadyClients

\* The coordinator implements the feed the USB core relies on: the published
\* snapshot follows the READY set one device at a time, and no change of it goes
\* without a request to enumerate again.
THEOREM FeedImplemented == Spec => ImplementsFeed
<1>1. Init => RestsUntilReady
  BY DEF Init, PowerOn, BtInit, FreeLink, RestsUntilReady
<1>2. IInv /\ RestsUntilReady /\ [Next]_vars => RestsUntilReady'
  BY IInvParts, RestInductive DEF CoreInv
<1>3. IInv /\ IInv' /\ RestsUntilReady /\ [Next]_vars => [Feed!Next]_(Feed!feedVars)
  BY IInvParts, FeedStep DEF CoreInv, IInv, SlotInv
<1>4. Spec => Feed!Init /\ [][Feed!Next]_(Feed!feedVars)
  BY FeedInit, <1>1, <1>2, <1>3, Invariance, PTL DEF Spec
<1> QED
  BY <1>4 DEF ImplementsFeed, Feed!Spec

-------------------------------------------------------------------------------
(***************************************************************************)
(* Any number of devices: who may disturb an attempt in progress.          *)
(***************************************************************************)

\* A step after which nobody but slot i can be blamed for what became of its attempt.
Alone(i) ==
  /\ InProgress(i)
  /\ slots'[i] = slots[i]
  /\ \A j \in Slot \ {i} : slots[j].con_handle # NoHandle => slots'[j].state = slots[j].state

LEMMA InProgressKept ==
  ASSUME NEW i \in Slot, Alone(i), UNCHANGED coordVars
  PROVE  InProgress(i)'
  BY DEF Alone, InProgress, coordVars

\* The attempt's own slot is not freed, nor is one that has a link.
LEMMA NoneFreed ==
  ASSUME TypeOK, SlotShape, NEW i \in Slot, Alone(i), NEW j \in Slot, FreeSlot(j),
         j = i \/ (slots[j].con_handle # NoHandle /\ slots[j].state # "IDLE")
  PROVE  FALSE
  BY DEF Alone, InProgress, FreeSlot, IdleSlot

LEMMA SecurityAlone ==
  ASSUME TypeOK, CoreInv, NEW i \in Slot, Alone(i), NEW lk,
         ConnectToHidService(connecting_slot, lk) \/ HandleConnectionError(connecting_slot, lk)
  PROVE  InProgress(i)'
<1>1. connecting_slot = i /\ slots[i].con_handle = NoHandle
  BY DEF Alone, InProgress
<1>2. ~HidsHostAccepts(slots[i].con_handle, lk)
  BY <1>1, BtStackAssumption DEF HidsHostAccepts
<1>3. FreeSlot(i)
  BY <1>1, <1>2 DEF ConnectToHidService, HandleConnectionError, OnConnectFail
<1> QED
  BY <1>3, NoneFreed DEF CoreInv, SlotInv

\* A slot with the client of a link has that link.
LEMMA ClientHasLink ==
  ASSUME TypeOK, CoreInv, NEW h \in Handle, links[h].cid # NoCid,
         NEW j \in Slot, SlotOfCid(j, links[h].cid)
  PROVE  slots[j].con_handle = h /\ h # NoHandle /\ slots[j].state # "IDLE"
<1>1. slots[j].hids_cid = links[h].cid /\ slots[j].state # "IDLE"
  BY DEF SlotOfCid, HasCid
<1>2. /\ slots[j].con_handle # NoHandle
      /\ links[slots[j].con_handle].cid = links[h].cid
  BY <1>1 DEF CoreInv, SlotInv, SlotsHaveLinks
<1>3. slots[j].con_handle \in Handle
  BY <1>2 DEF TypeOK, HidSlot
<1> QED
  BY <1>1, <1>2, <1>3 DEF CoreInv, LinkInv, ClientsDistinct

LEMMA HidAlone ==
  ASSUME TypeOK, CoreInv, NEW i \in Slot, Alone(i), NEW h \in Handle,
         OnHidServiceConnected(h) \/ OnHidServiceFailed(h) \/ OnHidServiceDisconnected(h)
         \/ OnDisconnection(h)
  PROVE  InProgress(i)'
<1>1. links[h].hid = "discovering" => links[h].cid # NoCid
  BY DEF CoreInv, LinkInv, LinkShape
<1>2. CASE OnHidServiceConnected(h)
  <2>1. ASSUME NEW j \in Slot, SlotOfCid(j, links[h].cid),
               slots' = [slots EXCEPT ![j].state = "READY"]
        PROVE  FALSE
    <3>1. slots[j].con_handle = h /\ h # NoHandle /\ links[h].hid = "discovering"
      BY <1>1, <1>2, <2>1, ClientHasLink DEF OnHidServiceConnected
    <3>2. slots[j].state # "READY"
      BY <3>1 DEF CoreInv, SlotInv, SlotsHaveLinks
    <3>3. slots'[j].state = "READY"
      BY <2>1 DEF TypeOK, HidSlot
    <3> QED
      BY <3>1, <3>2, <3>3 DEF Alone, InProgress
  <2> QED
    BY <1>2, <2>1, InProgressKept DEF OnHidServiceConnected, coordVars
<1>3. CASE OnHidServiceFailed(h) \/ OnHidServiceDisconnected(h)
  <2>1. links[h].cid # NoCid
    BY <1>1, <1>3 DEF OnHidServiceFailed, OnHidServiceDisconnected
  <2>2. ASSUME NEW j \in Slot, SlotOfCid(j, links[h].cid), FreeSlot(j) PROVE FALSE
    BY <2>1, <2>2, ClientHasLink, NoneFreed DEF CoreInv, SlotInv
  <2> QED
    BY <1>3, <2>2, InProgressKept
       DEF OnHidServiceFailed, OnHidServiceDisconnected, OnConnectFail
<1>4. CASE OnDisconnection(h)
  <2>1. ASSUME NEW j \in Slot, SlotOfHandle(j, h), FreeSlot(j) PROVE FALSE
    BY <2>1, NoneFreed, BtStackAssumption DEF SlotOfHandle, HasHandle, CoreInv, SlotInv
  <2> QED
    BY <1>4, <2>1, InProgressKept DEF OnDisconnection
<1> QED
  BY <1>2, <1>3, <1>4

LEMMA LeftAlone ==
  ASSUME TypeOK, CoreInv, RestsUntilReady, NEW i \in Slot, Alone(i), [Next]_vars
  PROVE  InProgress(i)'
<1>1. /\ coord_state = "CONNECTING" /\ connection_timer = "connect" /\ connecting_slot = i
      /\ slots[i].state = "CONNECTING" /\ slots[i].con_handle = NoHandle
  BY DEF Alone, InProgress
<1>2. \A armed : ~OnConnectFail(i, armed)
  BY NoneFreed DEF OnConnectFail, CoreInv, SlotInv
<1>3. CASE UNCHANGED vars \/ WindowExpires \/ ConsumeReinitRequest \/ ButtonPress \/ LedTick
  BY <1>1, <1>3, InProgressKept
     DEF vars, WindowExpires, ConsumeReinitRequest, ButtonPress, LedTick, coordVars
<1>4. CASE OnBtstackReady \/ ScanTimeout
  BY <1>1, <1>4 DEF RestsUntilReady, OnBtstackReady, ScanTimeout
<1>5. CASE \/ \E a \in Addr, hid \in BOOLEAN : OnAdvertisingReport(a, hid)
           \/ \E r \in RpaAddr : OnRpaResolved(r) \/ OnRpaResolveFailed(r)
  BY <1>1, <1>5, InProgressKept
     DEF OnAdvertisingReport, OnRpaResolved, OnRpaResolveFailed, ConnectIf, coordVars
<1>6. ASSUME NEW a \in Addr, OnConnectionUp(a) PROVE InProgress(i)'
  <2>1. AwaitsConnection
    BY <1>1 DEF AwaitsConnection
  <2>2. PICK h \in FreeHandles : AdoptLink(h, a)
    BY <1>6, <2>1 DEF OnConnectionUp
  <2>3. h # NoHandle /\ slots'[i].con_handle = h
    BY <1>1, <2>2, BtStackAssumption DEF FreeHandles, AdoptLink, TypeOK, HidSlot
  <2> QED
    BY <1>1, <2>3 DEF Alone
<1>7. CASE ConnectionTimeout \/ \E a \in Addr : OnConnectionFailed(a)
  BY <1>1, <1>2, <1>7 DEF ConnectionTimeout, OnConnectionFailed, AwaitsConnection, Slot, NoSlot
<1>8. CASE \E h \in Handle : SecurityRequest(h) \/ OnIdentityCreated(h) \/ LinkLost(h)
  BY <1>8, InProgressKept DEF SecurityRequest, OnIdentityCreated, LinkLost
<1>9. CASE \E h \in Handle : SecurityOutcome(h) \/ OnSecurityAborted(h)
  BY <1>9, SecurityAlone
     DEF SecurityOutcome, OnSecurityAborted, OnPairingComplete, OnReencryptionComplete,
         PairingComplete
<1>10. CASE \E h \in Handle : HidOutcome(h) \/ OnHidServiceDisconnected(h) \/ OnDisconnection(h)
  BY <1>10, HidAlone DEF HidOutcome
<1>11. CASE PowerCycle
  BY <1>1, <1>11 DEF PowerCycle, IdleSlot, Alone
<1> QED
  BY <1>3, <1>4, <1>5, <1>6, <1>7, <1>8, <1>9, <1>10, <1>11 DEF Next, LinkEndReported

\* What OnlyOtherDevicesDisturb says of a step.
DisturbanceStep ==
  \A i \in Slot :
    InProgress(i) /\ slots'[i] = slots[i] =>
      \/ InProgress(i)'
      \/ \E j \in Slot \ {i} : /\ slots[j].con_handle # NoHandle
                              /\ slots'[j].state # slots[j].state

\* For any number of slots, only a device in another slot, by leaving or by becoming READY,
\* takes the timeout and the coordinator's attention from an attempt in progress
\* (ble_coordinator.c:214, 226-242).
THEOREM AttemptUndisturbed == Spec => OnlyOtherDevicesDisturb
<1>1. Init => RestsUntilReady
  BY DEF Init, PowerOn, BtInit, FreeLink, RestsUntilReady
<1>2. IInv /\ RestsUntilReady /\ [Next]_vars => RestsUntilReady'
  BY IInvParts, RestInductive DEF CoreInv
<1>3. IInv /\ RestsUntilReady /\ [Next]_vars => [DisturbanceStep]_vars
  BY IInvParts, LeftAlone DEF Alone, DisturbanceStep
<1>4. Spec => [][DisturbanceStep]_vars
  BY <1>1, <1>2, <1>3, Invariance, PTL DEF Spec
<1> QED
  BY <1>4 DEF OnlyOtherDevicesDisturb, DisturbanceStep

-------------------------------------------------------------------------------
(***************************************************************************)
(* Any number of devices: the attempt of the connecting slot goes from one *)
(* pair of hands to the next.                                              *)
(***************************************************************************)

\* A slot's link has no client but the slot's own, so that what becomes of the client is
\* told to the slot.
OwnClient(i) ==
  slots[i].state = "CONNECTING" /\ slots[i].con_handle # NoHandle =>
    links[slots[i].con_handle].cid = slots[i].hids_cid

\* What ends a link or brings it on.
Moving(link) ==
  link.sm \in {"asked", "keyed"} \/ link.hid = "discovering" \/ link.closing \/ link.state # "up"

\* The slot the coordinator looks after, with a link, if any, that is moving.
LookedAfter(i) ==
  /\ connecting_slot = i
  /\ slots[i].state = "CONNECTING"
  /\ slots[i].con_handle # NoHandle => Moving(links[slots[i].con_handle])

\* What a step must make of slot i.
HandedOn(i) ==
  slots'[i].state = "CONNECTING" /\ slots'[i].con_handle # NoHandle =>
    /\ links'[slots'[i].con_handle].cid = slots'[i].hids_cid
    /\ LookedAfter(i) => Moving(links'[slots'[i].con_handle])

LEMMA AttendedIs ==
  ASSUME NEW h \in Handle
  PROVE  Attended(h) <=> Moving(links[h])
  BY DEF Attended, Moving, Securing, Up

\* A handler that leaves the slot as it is, the client of its link, and what moves it.
LEMMA HandsKept ==
  ASSUME TypeOK, NEW i \in Slot, OwnClient(i), slots'[i] = slots[i],
         \A h \in Handle : h = slots[i].con_handle =>
           /\ links'[h].cid = links[h].cid
           /\ connecting_slot = i /\ Moving(links[h]) => Moving(links'[h])
  PROVE  HandedOn(i)
<1>1. slots[i].con_handle # NoHandle => slots[i].con_handle \in Handle
  BY DEF TypeOK, HidSlot
<1> QED
  BY <1>1 DEF HandedOn, OwnClient, LookedAfter

LEMMA HandsBegun ==
  ASSUME TypeOK, CoreInv, NEW i \in Slot, OwnClient(i), NEW a \in Addr, BeginConnect(a),
         UNCHANGED links
  PROVE  HandedOn(i)
<1>1. PICK j \in Slot :
        /\ slots[j].state = "IDLE"
        /\ slots' = [slots EXCEPT ![j].state = "CONNECTING", ![j].adv_addr = a]
  BY DEF BeginConnect, FirstIdle
<1>2. CASE i = j
  <2>1. slots[i].con_handle = NoHandle
    <3>1. slots[i].state = "IDLE"
      BY <1>1, <1>2
    <3> QED
      BY <3>1 DEF CoreInv, SlotInv, SlotShape, IdleSlot
  <2>2. slots' = [slots EXCEPT ![i] = [slots[i] EXCEPT !.state = "CONNECTING", !.adv_addr = a]]
    BY <1>1, <1>2 DEF TypeOK, HidSlot
  <2>3. slots'[i].con_handle = NoHandle
    BY <2>1, <2>2 DEF TypeOK, HidSlot
  <2> QED
    BY <2>3 DEF HandedOn
<1>3. CASE i # j
  <2>1. slots'[i] = slots[i]
    BY <1>1, <1>3 DEF TypeOK
  <2> QED
    BY <2>1, HandsKept
<1> QED
  BY <1>2, <1>3

\* A pairing or re-encryption that ends, on whichever link: the connecting slot's attempt
\* goes on to discovery, is given up, or its link is being closed; other slots keep their
\* clients.
LEMMA HandsAfterSecurity ==
  ASSUME TypeOK, CoreInv, NEW i \in Slot, OwnClient(i), NEW lk \in [Handle -> Link],
         \A h \in Handle : lk[h].cid = links[h].cid,
         ConnectToHidService(connecting_slot, lk) \/ HandleConnectionError(connecting_slot, lk)
  PROVE  HandedOn(i)
<1> DEFINE c0 == connecting_slot
           g == slots[c0].con_handle
<1>1. CASE OnConnectFail(c0, connection_timer) /\ links' = lk
  <2>1. FreeSlot(c0)
    BY <1>1 DEF OnConnectFail
  <2>2. CASE i = c0
    BY <2>1, <2>2 DEF FreeSlot, IdleSlot, HandedOn
  <2>3. CASE i # c0
    <3>1. slots'[i] = slots[i]
      BY <2>1, <2>3 DEF FreeSlot
    <3> QED
      BY <1>1, <2>3, <3>1, HandsKept
  <2> QED
    BY <2>2, <2>3
<1>2. ASSUME c0 \in Slot, NEW c \in Cid, HidsHostAccepts(g, lk), HidsHostConnect(g, c, lk),
             slots' = [slots EXCEPT ![c0].hids_cid = c]
      PROVE  HandedOn(i)
  <2>1. g \in Handle /\ g # NoHandle
    BY <1>2, BtStackAssumption DEF HidsHostAccepts
  <2>2. links' = [lk EXCEPT ![g] = [lk[g] EXCEPT !.cid = c, !.hid = "discovering"]]
    BY <1>2, <2>1 DEF HidsHostConnect, Link
  <2>3. CASE i = c0
    <3>1. slots' = [slots EXCEPT ![i] = [slots[i] EXCEPT !.hids_cid = c]]
      BY <1>2, <2>3 DEF TypeOK, HidSlot
    <3>2. slots'[i].con_handle = g /\ slots'[i].hids_cid = c
      BY <2>3, <3>1 DEF TypeOK, HidSlot
    <3>3. links'[g].hid = "discovering" /\ links'[g].cid = c
      BY <2>1, <2>2 DEF Link
    <3> QED
      BY <3>2, <3>3 DEF HandedOn, Moving
  <2>4. CASE i # c0
    <3>1. slots'[i] = slots[i]
      BY <1>2, <2>4 DEF TypeOK
    <3>2. slots[i].con_handle # g
      BY <1>2, <2>1, <2>4 DEF CoreInv, SlotInv, HandlesDistinct
    <3>3. \A h \in Handle \ {g} : links'[h].cid = links[h].cid
      BY <2>1, <2>2
    <3> QED
      BY <2>4, <3>1, <3>2, <3>3, HandsKept
  <2> QED
    BY <2>3, <2>4
<1>3. ASSUME NEW h, c0 \in Slot => h = g, GapDisconnect(h, lk), UNCHANGED coordVars
      PROVE  HandedOn(i)
  <2>1. slots'[i] = slots[i]
    BY <1>3 DEF coordVars
  <2>2. \A f \in Handle : links'[f].cid = lk[f].cid
    <3>1. CASE h \in Handle /\ lk[h].state = "up"
      <4>1. links' = [lk EXCEPT ![h] = [lk[h] EXCEPT !.closing = TRUE]]
        BY <1>3, <3>1 DEF GapDisconnect
      <4> QED
        BY <3>1, <4>1 DEF Link
    <3>2. CASE ~(h \in Handle /\ lk[h].state = "up")
      BY <1>3, <3>2 DEF GapDisconnect
    <3> QED
      BY <3>1, <3>2
  <2>3. ASSUME c0 = i, NEW f \in Handle, f = slots[i].con_handle
        PROVE  Moving(links'[f])
    <3>1. h = f
      BY <1>3, <2>3
    <3>2. CASE lk[f].state = "up"
      <4>1. links' = [lk EXCEPT ![f] = [lk[f] EXCEPT !.closing = TRUE]]
        BY <1>3, <3>1, <3>2 DEF GapDisconnect
      <4>2. links'[f].closing
        BY <4>1 DEF Link
      <4> QED
        BY <4>2 DEF Moving
    <3>3. CASE lk[f].state # "up"
      BY <1>3, <3>1, <3>3 DEF GapDisconnect, Moving
    <3> QED
      BY <3>2, <3>3
  <2> QED
    BY <2>1, <2>2, <2>3, HandsKept
<1> QED
  BY <1>1, <1>2, <1>3 DEF ConnectToHidService, HandleConnectionError, FreeCids

\* Security events change nothing of a link but its pairing.
LEMMA HandsSecurity ==
  ASSUME TypeOK, CoreInv, NEW i \in Slot, OwnClient(i), NEW h \in Handle,
         SecurityOutcome(h) \/ OnSecurityAborted(h)
  PROVE  HandedOn(i)
<1>1. PICK sm \in {"none", "secured"} :
        LET lk == [links EXCEPT ![h].sm = sm]
        IN  \/ ConnectToHidService(connecting_slot, lk)
            \/ HandleConnectionError(connecting_slot, lk)
  BY DEF SecurityOutcome, OnSecurityAborted, OnPairingComplete, OnReencryptionComplete,
         PairingComplete
<1> DEFINE lk == [links EXCEPT ![h].sm = sm]
<1>2. lk = [links EXCEPT ![h] = [links[h] EXCEPT !.sm = sm]]
  BY DEF TypeOK, BtTypeOK, Link
<1>3. lk \in [Handle -> Link] /\ \A g \in Handle : lk[g].cid = links[g].cid
  BY <1>2 DEF TypeOK, BtTypeOK, Link
<1>4. ConnectToHidService(connecting_slot, lk) \/ HandleConnectionError(connecting_slot, lk)
  BY <1>1
<1> HIDE DEF lk
<1> QED
  BY <1>3, <1>4, HandsAfterSecurity

\* The new link is being secured from the start.
LEMMA HandsLinked ==
  ASSUME TypeOK, CoreInv, NEW i \in Slot, OwnClient(i), NEW a \in Addr, OnConnectionUp(a)
  PROVE  HandedOn(i)
<1>1. PICK h \in FreeHandles :
        \/ AwaitsConnection /\ AdoptLink(h, a)
        \/ /\ links' = [links EXCEPT ![h] = NewLink(a)]
           /\ UNCHANGED slots
  BY DEF OnConnectionUp
<1>2. h \in Handle /\ h # NoHandle /\ links[h].state = "free"
  BY <1>1, BtStackAssumption DEF FreeHandles
<1>3. slots[i].con_handle # h
  BY <1>2 DEF CoreInv, SlotInv, SlotsHaveLinks
<1>4. \A g \in Handle \ {h} : links'[g] = links[g]
  BY <1>1 DEF AdoptLink, TypeOK, BtTypeOK
<1>5. CASE slots'[i] = slots[i]
  BY <1>3, <1>4, <1>5, HandsKept
<1>6. CASE AwaitsConnection /\ AdoptLink(h, a) /\ connecting_slot = i
  <2>1. slots' = [slots EXCEPT ![i] = [slots[i] EXCEPT !.con_handle = h]]
    BY <1>6 DEF AdoptLink, TypeOK, HidSlot
  <2>2. links'[h].sm = "asked" /\ links'[h].cid = NoCid
    BY <1>2, <1>6 DEF AdoptLink, TypeOK, BtTypeOK, NewLink, FreeLink
  <2>3. cancelled # NoAddr \/ outgoing # NoAddr
    BY DEF OnConnectionUp, AnswerAttempt
  <2>4. slots[i].con_handle = NoHandle
    BY <1>6, <2>3 DEF CoreInv, CoordInv, LinkEndsAttempt
  <2>5. slots[i].hids_cid = NoCid
    BY <2>4 DEF CoreInv, SlotInv, SlotsHaveLinks
  <2>6. slots'[i].con_handle = h /\ slots'[i].hids_cid = NoCid
    BY <2>1, <2>5 DEF TypeOK, HidSlot
  <2> QED
    BY <2>2, <2>6 DEF HandedOn, Moving
<1> QED
  BY <1>1, <1>5, <1>6 DEF AdoptLink, TypeOK

\* Events about a HID service: the slot they find is freed or READY, and another slot's
\* link is none of theirs.
LEMMA HandsAfterHid ==
  ASSUME TypeOK, CoreInv, NEW i \in Slot, OwnClient(i), NEW h \in Handle,
         OnHidServiceConnected(h) \/ OnHidServiceFailed(h) \/ OnHidServiceDisconnected(h)
         \/ OnDisconnection(h)
  PROVE  HandedOn(i)
<1>1. \A g \in Handle \ {h} : links'[g] = links[g]
  BY DEF OnHidServiceConnected, OnHidServiceFailed, OnHidServiceDisconnected,
         OnDisconnection, TypeOK, BtTypeOK
<1>2. links[h].hid = "discovering" => links[h].cid # NoCid
  BY DEF CoreInv, LinkInv, LinkShape
<1>3. CASE slots'[i].state # "CONNECTING"
  BY <1>3 DEF HandedOn
<1>4. CASE slots'[i].state = "CONNECTING"
  <2>1. slots'[i] = slots[i]
    <3>1. ASSUME NEW j \in Slot, FreeSlot(j) PROVE slots'[i] = slots[i]
      BY <1>4, <3>1 DEF FreeSlot, IdleSlot
    <3>2. ASSUME NEW j \in Slot, slots' = [slots EXCEPT ![j].state = "READY"]
          PROVE  slots'[i] = slots[i]
      <4>1. j # i
        BY <1>4, <3>2 DEF TypeOK, HidSlot
      <4> QED
        BY <3>2, <4>1 DEF TypeOK
    <3> QED
      BY <3>1, <3>2 DEF OnHidServiceConnected, OnHidServiceFailed, OnHidServiceDisconnected,
                        OnDisconnection, OnConnectFail, coordVars
  <2>2. slots[i].con_handle # h
    <3> SUFFICES ASSUME slots[i].con_handle = h PROVE FALSE
      OBVIOUS
    <3>1. h # NoHandle /\ slots[i].state = "CONNECTING"
      BY <1>4, <2>1, BtStackAssumption
    <3>2. links[h].cid = slots[i].hids_cid
      BY <3>1 DEF OwnClient
    <3>3. CASE OnDisconnection(h)
      <4>1. HasHandle(i, h)
        BY <3>1 DEF HasHandle
      <4>2. PICK j \in Slot : SlotOfHandle(j, h) /\ FreeSlot(j)
        BY <3>3, <4>1 DEF OnDisconnection
      <4>3. j = i
        BY <3>1, <4>2 DEF SlotOfHandle, HasHandle, CoreInv, SlotInv, HandlesDistinct
      <4> QED
        BY <1>4, <4>2, <4>3 DEF FreeSlot, IdleSlot
    <3>4. CASE ~OnDisconnection(h)
      <4>1. HasCid(i, links[h].cid) /\ links[h].cid # NoCid
        BY <1>2, <3>1, <3>2, <3>4
           DEF HasCid, OnHidServiceConnected, OnHidServiceFailed, OnHidServiceDisconnected
      <4>2. PICK j \in Slot :
              /\ SlotOfCid(j, links[h].cid)
              /\ FreeSlot(j) \/ slots' = [slots EXCEPT ![j].state = "READY"]
        BY <3>4, <4>1 DEF OnHidServiceConnected, OnHidServiceFailed, OnHidServiceDisconnected,
                          OnConnectFail
      <4>3. j = i
        BY <3>1, <4>1, <4>2, ClientHasLink DEF CoreInv, SlotInv, HandlesDistinct
      <4> QED
        BY <1>4, <4>2, <4>3 DEF FreeSlot, IdleSlot, TypeOK, HidSlot
    <3> QED
      BY <3>3, <3>4
  <2> QED
    BY <1>1, <2>1, <2>2, HandsKept
<1> QED
  BY <1>3, <1>4

LEMMA HandsStep ==
  ASSUME TypeOK, CoreInv, NEW i \in Slot, OwnClient(i), [Next]_vars
  PROVE  HandedOn(i)
<1>1. CASE UNCHANGED <<slots, links>>
  BY <1>1, HandsKept
<1>2. CASE \/ OnBtstackReady \/ ScanTimeout \/ ButtonPress \/ WindowExpires \/ LedTick
           \/ ConsumeReinitRequest \/ UNCHANGED vars
  BY <1>1, <1>2 DEF OnBtstackReady, ScanTimeout, ButtonPress, WindowExpires, LedTick,
                    ConsumeReinitRequest, vars, coordVars, btVars
<1>3. CASE \/ \E a \in Addr, hid \in BOOLEAN : OnAdvertisingReport(a, hid)
           \/ \E r \in RpaAddr : OnRpaResolved(r) \/ OnRpaResolveFailed(r)
  <2>1. UNCHANGED links
    BY <1>3 DEF OnAdvertisingReport, OnRpaResolved, OnRpaResolveFailed
  <2>2. CASE \E a \in Addr : BeginConnect(a)
    BY <2>1, <2>2, HandsBegun
  <2> QED
    BY <1>1, <1>3, <2>1, <2>2, DevicesAssumption
       DEF OnAdvertisingReport, OnRpaResolved, OnRpaResolveFailed, ConnectIf, coordVars
<1>4. CASE \E h \in Handle : SecurityRequest(h) \/ OnIdentityCreated(h) \/ LinkLost(h)
  <2>1. PICK h \in Handle : SecurityRequest(h) \/ OnIdentityCreated(h) \/ LinkLost(h)
    BY <1>4
  <2>2. UNCHANGED slots
    BY <2>1 DEF SecurityRequest, OnIdentityCreated, LinkLost, coordVars
  <2>3. \/ \E sm \in {"asked", "keyed"} : links' = [links EXCEPT ![h] = [links[h] EXCEPT !.sm = sm]]
        \/ links' = [links EXCEPT ![h] = [links[h] EXCEPT !.state = "down"]]
    BY <2>1 DEF SecurityRequest, OnIdentityCreated, LinkLost, TypeOK, BtTypeOK, Link
  <2>4. \A g \in Handle : (Moving(links[g]) => Moving(links'[g])) /\ links'[g].cid = links[g].cid
    BY <2>3 DEF Moving, TypeOK, BtTypeOK, Link
  <2> QED
    BY <2>2, <2>4, HandsKept
<1>5. CASE ConnectionTimeout \/ \E a \in Addr : OnConnectionFailed(a)
  <2>1. UNCHANGED links
    BY <1>5 DEF ConnectionTimeout, OnConnectionFailed
  <2>2. slots'[i] \in {slots[i], IdleSlot}
    BY <1>5 DEF ConnectionTimeout, OnConnectionFailed, OnConnectFail, FreeSlot, coordVars
  <2>3. CASE slots'[i] = IdleSlot
    BY <2>3 DEF HandedOn, IdleSlot
  <2> QED
    BY <2>1, <2>2, <2>3, HandsKept
<1>6. CASE PowerCycle
  BY <1>6 DEF PowerCycle, IdleSlot, HandedOn
<1> QED
  BY <1>2, <1>3, <1>4, <1>5, <1>6, HandsLinked, HandsSecurity, HandsAfterHid
     DEF Next, HidOutcome, LinkEndReported

\* What AttemptHandedOn says of a step.
HandsOnStep ==
  \A i \in Slot :
    /\ connecting_slot = i
    /\ slots[i].state = "CONNECTING"
    /\ slots[i].con_handle # NoHandle => Attended(slots[i].con_handle)
    /\ slots'[i].state = "CONNECTING"
    /\ slots'[i].con_handle # NoHandle
    => Attended(slots[i].con_handle)'

\* For any number of slots, the attempt of the connecting slot is handed from its new link to
\* pairing, to discovery and to the closing of the link without a gap, whichever link a
\* security event was for (ble_coordinator.c:571-617).
THEOREM AttemptNotDropped == Spec => AttemptHandedOn
<1> DEFINE AllOwnClient == \A i \in Slot : OwnClient(i)
<1>1. Init => AllOwnClient
  BY DEF Init, PowerOn, IdleSlot, OwnClient
<1>2. IInv /\ AllOwnClient /\ [Next]_vars => \A i \in Slot : HandedOn(i)
  BY IInvParts, HandsStep
<1>3. (\A i \in Slot : HandedOn(i)) => AllOwnClient'
  BY DEF HandedOn, OwnClient
<1>4. IInv /\ IInv' /\ AllOwnClient /\ [Next]_vars => [HandsOnStep]_vars
  <2> SUFFICES ASSUME IInv, IInv', AllOwnClient, [Next]_vars
               PROVE  HandsOnStep
    OBVIOUS
  <2>1. \A i \in Slot : /\ slots[i].con_handle # NoHandle => slots[i].con_handle \in Handle
                        /\ slots'[i].con_handle # NoHandle => slots'[i].con_handle \in Handle
    BY DEF IInv, TypeOK, HidSlot
  <2> SUFFICES ASSUME NEW i \in Slot, LookedAfter(i), slots'[i].state = "CONNECTING",
                      slots'[i].con_handle # NoHandle
               PROVE  Attended(slots[i].con_handle)'
    BY <2>1, AttendedIs DEF HandsOnStep, LookedAfter
  <2>2. Moving(links'[slots'[i].con_handle])
    BY <1>2 DEF HandedOn
  <2> QED
    BY <2>1, <2>2 DEF Attended, Moving, Securing, Up
<1>5. Spec => [][HandsOnStep]_vars
  <2> HIDE DEF AllOwnClient
  <2> QED
    BY <1>1, <1>2, <1>3, <1>4, Invariance, PTL DEF Spec
<1> QED
  BY <1>5 DEF AttemptHandedOn, HandsOnStep

===============================================================================
