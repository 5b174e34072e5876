------------------------------ MODULE ReadyFeed ------------------------------
(***************************************************************************)
(* What the BLE core promises the USB core through hid_bridge.h, and all   *)
(* the USB core may rely on: the published snapshot is the READY set, it   *)
(* changes by one device at a time, and every publication raises           *)
(* g_usb_reinit_request.  Module Coordinator implements it.                *)
(***************************************************************************)
CONSTANTS
  Slot,   \* physical slots 0 .. MAX_HID_DEVICES-1
  Cid,    \* HIDS client ids
  NoCid   \* 0

VARIABLES
  running,               \* the BLE core has started BTstack
  ready,                 \* per slot, the HIDS client of its READY device, NoCid if none
  ready_snapshot,        \* the storage behind hid_bridge_get_ready_snapshot
  g_usb_reinit_request

feedVars == <<running, ready, ready_snapshot, g_usb_reinit_request>>

\* The compact arrays of usb_ready_snapshot_t as a set: slot order gives the
\* positions, the number of elements the count.
SnapshotOf(r) == {[slot |-> i, hids_cid |-> r[i]] : i \in {j \in Slot : r[j] # NoCid}}

Init ==
  /\ running = FALSE
  /\ ready = [i \in Slot |-> NoCid]
  /\ ready_snapshot = {}
  /\ g_usb_reinit_request = FALSE

Start ==
  /\ running' = TRUE
  /\ UNCHANGED <<ready, ready_snapshot, g_usb_reinit_request>>

Publish ==
  /\ running
  /\ UNCHANGED running
  /\ ready_snapshot' = SnapshotOf(ready')
  /\ g_usb_reinit_request' = TRUE

\* A device is READY once, with a client no other READY device has.
Gain(i, c) ==
  /\ ready[i] = NoCid
  /\ \A j \in Slot : ready[j] # c
  /\ ready' = [ready EXCEPT ![i] = c]
  /\ Publish

Lose(i) ==
  /\ ready' = [ready EXCEPT ![i] = NoCid]
  /\ Publish

\* A failed connection attempt publishes the set it leaves unchanged.
Republish ==
  /\ UNCHANGED ready
  /\ Publish

Consume ==
  /\ g_usb_reinit_request' = FALSE
  /\ UNCHANGED <<running, ready, ready_snapshot>>

PowerCycle ==
  /\ running' = FALSE
  /\ ready' = [i \in Slot |-> NoCid]
  /\ ready_snapshot' = {}
  /\ g_usb_reinit_request' = FALSE

Next ==
  \/ Start
  \/ \E i \in Slot, c \in Cid : Gain(i, c)
  \/ \E i \in Slot : Lose(i)
  \/ Republish
  \/ Consume
  \/ PowerCycle

Spec == Init /\ [][Next]_feedVars

===============================================================================
