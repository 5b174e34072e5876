-------------------------------- MODULE Bridge --------------------------------
(***************************************************************************)
(* The two cores and the PC.  Core 1 publishes the READY set, raises the   *)
(* request flag and pushes reports.  Core 0 goes round its main loop       *)
(* (usb_device.c, usb_hid.c): it takes the request, disconnects and        *)
(* reconnects, answers the host's requests with descriptors of the         *)
(* snapshot of that moment, and forwards reports by the snapshot of that   *)
(* moment.                                                                 *)
(*                                                                         *)
(* Fine grain where the cores meet: the copy of the snapshot, the flag's   *)
(* test and its reset, and each read of the snapshot are steps of their    *)
(* own.  A report is reduced to the client it comes from.                  *)
(***************************************************************************)
EXTENDS UsbDescriptors

CONSTANT Capacity   \* reports per queue

ASSUME BridgeAssumption == Capacity \in Nat \ {0}

VARIABLES
  core1,                  \* where Core 1 is: "idle", "changed", "copied"
  ready,                  \* per slot, the client of its READY device
  vacated,                \* slots freed since the request was last taken
  ready_snapshot, g_usb_reinit_request, queue,      \* shared
  pc,                     \* where Core 0 is in its loop
  usb_reinit_state,       \* "IDLE" or "WAIT_STABILIZATION"
  snap,                   \* usb_hid_task's copy of the snapshot
  building,               \* the configuration descriptor being put together
  attached,               \* TinyUSB: the pull-up is on
  mounted,                \* TinyUSB: tud_mounted, a configuration is set
  opened,                 \* TinyUSB: owners of the report lengths of the open interfaces
  host,                   \* "gone", "reset", "read", "set", "done"
  config,                 \* host: owners of the report lengths it has read
  seen                    \* host: owners of the report descriptors it has read

core1Vars == <<core1, ready, vacated>>
sharedVars == <<ready_snapshot, g_usb_reinit_request, queue>>
usbVars == <<attached, mounted, opened>>
hostVars == <<host, config, seen>>
vars == <<core1Vars, sharedVars, pc, usb_reinit_state, snap, building, usbVars, hostVars>>

SnapshotOf(r) == {[slot |-> i, hids_cid |-> r[i]] : i \in {j \in Slot : r[j] # NoCid}}
Snapshot == {S \in SUBSET [slot : Slot, hids_cid : Cid] :
               \A d, e \in S : d.slot = e.slot => d = e}
Interfaces(O) == UNION {[1..n -> O] : n \in 0..MAX_HID_DEVICES}

\* Clients whose report descriptor BTstack stores: a lost client's is gone at once.
Present == {ready[i] : i \in Slot}

NotBuilding == [request |-> "none", count |-> 0, owners |-> << >>]

TypeOK ==
  /\ core1 \in {"idle", "changed", "copied"}
  /\ ready \in [Slot -> Cid \cup {NoCid}]
  /\ vacated \subseteq Slot
  /\ ready_snapshot \in Snapshot
  /\ g_usb_reinit_request \in BOOLEAN
  /\ queue \in [Slot -> Seq(Cid)]
  /\ \A s \in Slot : Len(queue[s]) <= Capacity
  /\ pc \in {"poll", "clear", "act", "settle", "usb", "build", "hid", "forward"}
  /\ usb_reinit_state \in {"IDLE", "WAIT_STABILIZATION"}
  /\ snap \in Snapshot
  /\ building \in [request : {"none", "get", "set"}, count : 0..MAX_HID_DEVICES,
                   owners : Interfaces(Owner)]
  /\ attached \in BOOLEAN
  /\ mounted \in BOOLEAN
  /\ opened \in Interfaces(Owner)
  /\ host \in {"gone", "reset", "read", "set", "done"}
  /\ config \in Interfaces(Owner)
  /\ seen \in Interfaces(Owner \cup {Garbled})

Init ==
  /\ core1 = "idle"
  /\ ready = [i \in Slot |-> NoCid]
  /\ vacated = {}
  /\ ready_snapshot = {}
  /\ g_usb_reinit_request = FALSE
  /\ queue = [s \in Slot |-> << >>]
  /\ pc = "poll"
  /\ usb_reinit_state = "IDLE"
  /\ snap = {}
  /\ building = NotBuilding
  /\ attached = TRUE
  /\ mounted = FALSE
  /\ opened = << >>
  /\ host = "gone"
  /\ config = << >>
  /\ seen = << >>

-------------------------------------------------------------------------------
(***************************************************************************)
(* Core 1                                                                  *)
(***************************************************************************)

core0Vars == <<pc, usb_reinit_state, snap, building>>
outsideCore1 == <<core0Vars, usbVars, hostVars>>

\* A handler makes slot i READY with client c.  Connecting and discovering takes a
\* slot longer than a pass of Core 0's loop, so the loss of the slot's last device
\* has been noticed by then.
Gain(i, c) ==
  /\ core1 = "idle"
  /\ ready[i] = NoCid
  /\ i \notin vacated
  /\ c \notin Present
  /\ ready' = [ready EXCEPT ![i] = c]
  /\ core1' = "changed"
  /\ UNCHANGED <<vacated, sharedVars, outsideCore1>>

\* A READY device is lost.
Lose(i) ==
  /\ core1 = "idle"
  /\ ready[i] # NoCid
  /\ ready' = [ready EXCEPT ![i] = NoCid]
  /\ vacated' = vacated \cup {i}
  /\ core1' = "changed"
  /\ UNCHANGED <<sharedVars, outsideCore1>>

\* A connection attempt fails: coordinator_on_connect_fail publishes all the same.
FailAttempt ==
  /\ core1 = "idle"
  /\ core1' = "changed"
  /\ UNCHANGED <<ready, vacated, sharedVars, outsideCore1>>

\* Mutant: the flag is left to the next change.
PublishUnannounced ==
  /\ core1 = "changed"
  /\ ready_snapshot' = SnapshotOf(ready)
  /\ core1' = "idle"
  /\ UNCHANGED <<ready, vacated, g_usb_reinit_request, queue, outsideCore1>>

\* coordinator_publish_snapshot: the copy under the spinlock, ...
Publish ==
  /\ core1 = "changed"
  /\ ready_snapshot' = SnapshotOf(ready)
  /\ core1' = "copied"
  /\ UNCHANGED <<ready, vacated, g_usb_reinit_request, queue, outsideCore1>>

\* ... and the flag behind it.
Raise ==
  /\ core1 = "copied"
  /\ g_usb_reinit_request' = TRUE
  /\ core1' = "idle"
  /\ UNCHANGED <<ready, vacated, ready_snapshot, queue, outsideCore1>>

\* coordinator_handle_hid_report of a READY slot; a full queue drops the report.
Push(i) ==
  /\ core1 = "idle"
  /\ ready[i] # NoCid
  /\ Len(queue[i]) < Capacity
  /\ queue' = [queue EXCEPT ![i] = Append(queue[i], ready[i])]
  /\ UNCHANGED <<core1Vars, ready_snapshot, g_usb_reinit_request, outsideCore1>>

-------------------------------------------------------------------------------
(***************************************************************************)
(* Core 0's main loop                                                      *)
(***************************************************************************)

outsideCore0 == <<core1, ready, ready_snapshot, hostVars>>

Goto(label) == pc' = label

\* The delay is looked at if it runs.
Settle == IF usb_reinit_state = "IDLE" THEN "usb" ELSE "settle"

\* The request flag is tested ...
Poll ==
  /\ pc = "poll"
  /\ Goto(IF g_usb_reinit_request THEN "clear" ELSE Settle)
  /\ UNCHANGED <<core1Vars, sharedVars, usb_reinit_state, snap, building, usbVars, hostVars>>

\* ... and reset.
Clear ==
  /\ pc = "clear"
  /\ g_usb_reinit_request' = FALSE
  /\ vacated' = {}
  /\ Goto("act")
  /\ UNCHANGED <<core1, ready, ready_snapshot, queue, usb_reinit_state, snap, building, usbVars,
                 hostVars>>

\* Mutant: the old reports are kept.
KeepAndConnect ==
  /\ UNCHANGED queue
  /\ attached' = TRUE

\* report_queue_clear_all, tud_connect: no news to a host that sees the device.
ClearAndConnect ==
  /\ queue' = [s \in Slot |-> << >>]
  /\ attached' = TRUE

\* Mutant: the device is cleared but stays on the bus.
DisconnectInPlace ==
  /\ pc = "act"
  /\ usb_reinit_state = "IDLE"
  /\ mounted
  /\ usb_reinit_state' = "WAIT_STABILIZATION"
  /\ Goto("usb")
  /\ UNCHANGED <<core1Vars, sharedVars, snap, building, usbVars, hostVars>>

\* A request that finds a configuration set disconnects: the host loses the device.
\* tud_mounted stays true until the bus is reset.
Disconnect ==
  /\ pc = "act"
  /\ usb_reinit_state = "IDLE"
  /\ mounted
  /\ attached' = FALSE
  /\ host' = "gone"
  /\ config' = << >>
  /\ seen' = << >>
  /\ usb_reinit_state' = "WAIT_STABILIZATION"
  /\ Goto("usb")
  /\ UNCHANGED <<core1Vars, sharedVars, snap, building, mounted, opened>>

\* A request that finds none connects; one that finds the delay running does nothing.
NoDisconnect ==
  /\ pc = "act"
  /\ usb_reinit_state = "IDLE" => ~mounted
  /\ IF usb_reinit_state = "IDLE" THEN ClearAndConnect ELSE UNCHANGED <<queue, attached>>
  /\ Goto(Settle)
  /\ UNCHANGED <<core1Vars, ready_snapshot, g_usb_reinit_request, usb_reinit_state, snap,
                 building, mounted, opened, hostVars>>

\* Mutant: the device is not connected again.
SettledApart ==
  /\ pc = "settle"
  /\ usb_reinit_state' = "IDLE"
  /\ queue' = [s \in Slot |-> << >>]
  /\ Goto("usb")
  /\ UNCHANGED <<core1Vars, ready_snapshot, g_usb_reinit_request, snap, building, usbVars, hostVars>>

\* The stabilisation delay is over.
Settled ==
  /\ pc = "settle"
  /\ usb_reinit_state' = "IDLE"
  /\ ClearAndConnect
  /\ Goto("usb")
  /\ UNCHANGED <<core1Vars, ready_snapshot, g_usb_reinit_request, snap, building, mounted,
                 opened, hostVars>>

\* It is not over.
NotSettling ==
  /\ pc = "settle"
  /\ Goto("usb")
  /\ UNCHANGED <<core1Vars, sharedVars, usb_reinit_state, snap, building, usbVars, hostVars>>

-------------------------------------------------------------------------------
(***************************************************************************)
(* tud_task: at most one transaction of the host.  The host takes          *)
(* milliseconds, Core 1 microseconds between a change of the READY set and *)
(* the flag: no transaction begins in between.  The configuration callback *)
(* reads the snapshot many times and runs against Core 1; the two reads of *)
(* the report descriptor callback are one step.                            *)
(***************************************************************************)

Transaction == pc = "usb" /\ core1 = "idle"

NoTransaction ==
  /\ pc = "usb"
  /\ Goto("hid")
  /\ UNCHANGED <<core1Vars, sharedVars, usb_reinit_state, snap, building, usbVars, hostVars>>

\* The host finds a device, or starts over with one, however far it has enumerated it:
\* a bus reset.
BusReset ==
  /\ Transaction
  /\ attached
  /\ host' = "reset"
  /\ config' = << >>
  /\ seen' = << >>
  /\ mounted' = FALSE
  /\ opened' = << >>
  /\ Goto("hid")
  /\ UNCHANGED <<core1Vars, sharedVars, usb_reinit_state, snap, building, attached>>

\* GET_DESCRIPTOR and SET_CONFIGURATION both call tud_descriptor_configuration_cb,
\* which begins with the number of interfaces.
AskConfiguration(request) ==
  /\ Transaction
  /\ attached
  /\ \/ host = "reset" /\ request = "get"
     \/ host = "read" /\ request = "set"
  /\ building' = [request |-> request, count |-> Cardinality(ready_snapshot), owners |-> << >>]
  /\ Goto("build")
  /\ UNCHANGED <<core1Vars, sharedVars, usb_reinit_state, snap, usbVars, hostVars>>

\* Mutant: the interface for an empty READY set is always added.
NumInterfacesWithFallback == building.count + 1

\* num_ifs: without a READY device there is one interface all the same.
NumInterfaces == IF building.count = 0 THEN 1 ELSE building.count

Built == Len(building.owners) = NumInterfaces

\* One interface of the loop: its length is that of the descriptor now at its position.
BuildInterface ==
  /\ pc = "build"
  /\ ~Built
  /\ LET i == Len(building.owners)
         owner == IF i < building.count THEN ReportDescriptor(ready_snapshot, Present, i)
                  ELSE Fallback
     IN building' = [building EXCEPT !.owners = Append(@, owner)]
  /\ UNCHANGED <<core1Vars, sharedVars, pc, usb_reinit_state, snap, usbVars, hostVars>>

\* The host has the descriptor.
FinishGet ==
  /\ pc = "build"
  /\ Built
  /\ building.request = "get"
  /\ host' = "read"
  /\ config' = building.owners
  /\ building' = NotBuilding
  /\ Goto("hid")
  /\ UNCHANGED <<core1Vars, sharedVars, usb_reinit_state, snap, usbVars, seen>>

\* TinyUSB has opened the interfaces it describes.
FinishSet ==
  /\ pc = "build"
  /\ Built
  /\ building.request = "set"
  /\ host' = "set"
  /\ mounted' = TRUE
  /\ opened' = building.owners
  /\ building' = NotBuilding
  /\ Goto("hid")
  /\ UNCHANGED <<core1Vars, sharedVars, usb_reinit_state, snap, attached, config, seen>>

\* What a host gets that expects k's length, from a TinyUSB that sends opened[k]'s.
Received(k, owner) ==
  IF k <= Len(opened) /\ config[k] = owner /\ opened[k] = owner THEN owner ELSE Garbled

\* The next GET_REPORT_DESCRIPTOR: tud_hid_descriptor_report_cb
ReadReportDescriptor ==
  /\ Transaction
  /\ attached
  /\ host = "set"
  /\ LET k == Len(seen) + 1 IN
     /\ seen' = Append(seen, Received(k, ReportDescriptor(ready_snapshot, Present, k - 1)))
     /\ IF k = Len(config)
        THEN host' = "done" /\ config' = << >>
        ELSE UNCHANGED <<host, config>>
  /\ Goto("hid")
  /\ UNCHANGED <<core1Vars, sharedVars, usb_reinit_state, snap, building, usbVars>>

-------------------------------------------------------------------------------
(***************************************************************************)
(* usb_hid_task                                                            *)
(***************************************************************************)

\* Its copy of the snapshot.
CopySnapshot ==
  /\ pc = "hid"
  /\ snap' = ready_snapshot
  /\ Goto("forward")
  /\ UNCHANGED <<core1Vars, sharedVars, usb_reinit_state, building, usbVars, hostVars>>

\* tud_hid_n_ready can be true: the interface at this position is open.
Open(e) == mounted /\ PositionOf(snap, e) < Len(opened)

\* send_hid_report at each position; those of F have a report that TinyUSB takes.  One
\* taken while the bus is gone does not arrive.
Forward(F) ==
  /\ pc = "forward"
  /\ \A e \in F : Open(e) /\ queue[e.slot] # << >>
  /\ queue' = [s \in Slot |-> IF \E e \in F : e.slot = s THEN Tail(queue[s]) ELSE queue[s]]
  /\ snap' = {}
  /\ Goto("poll")
  /\ UNCHANGED <<core1Vars, ready_snapshot, g_usb_reinit_request, usb_reinit_state, building,
                 usbVars, hostVars>>

-------------------------------------------------------------------------------

Core1 ==
  \/ \E i \in Slot : (\E c \in Cid : Gain(i, c)) \/ Lose(i) \/ Push(i)
  \/ FailAttempt
  \/ Publish
  \/ Raise

MainLoop ==
  \/ Poll \/ Clear \/ Disconnect \/ NoDisconnect \/ Settled \/ NotSettling
  \/ NoTransaction \/ BuildInterface \/ FinishGet \/ FinishSet
  \/ CopySnapshot \/ \E F \in SUBSET snap : Forward(F)

Host == BusReset \/ AskConfiguration("get") \/ AskConfiguration("set") \/ ReadReportDescriptor

Next == Core1 \/ MainLoop \/ Host

Spec == Init /\ [][Next]_vars

(***************************************************************************)
(* Fairness: neither core blocks, the delay ends, and a host that sees the *)
(* device enumerates it to the end: it does not start over for ever.  It   *)
(* need not reset it afterwards, and nothing is assumed of the devices.    *)
(***************************************************************************)
Enumerates ==
  \/ host = "gone" /\ BusReset
  \/ AskConfiguration("get")
  \/ AskConfiguration("set")
  \/ ReadReportDescriptor

StartsOver == host \in {"reset", "read", "set"} /\ BusReset

Fairness ==
  /\ WF_vars(MainLoop)
  /\ WF_vars(Publish \/ Raise)
  /\ SF_vars(Settled)
  /\ SF_vars(Enumerates)
  /\ <>[][~StartsOver]_vars

FairSpec == Spec /\ Fairness

-------------------------------------------------------------------------------
(***************************************************************************)
(* Properties                                                              *)
(***************************************************************************)

\* The host has read, whole, the interfaces of S.
HostHas(S) == host = "done" /\ seen = InterfacesOf(S)

\* While the host has the interfaces of the snapshot Core 0 forwards by, whatever is
\* in a queue comes from the device behind its interface: nothing of the device that
\* had the slot before is left (usb_device.c:63,72; usb_hid.c:43-50).
RoutedWhenAgreed ==
  pc = "forward" /\ HostHas(snap) =>
    \A e \in snap : \A k \in DOMAIN queue[e.slot] : queue[e.slot][k] = e.hids_cid

\* With no request left to handle, no report leaves through the interface the host took
\* for another device's, although the host read lengths, configuration and descriptors
\* from different snapshots and the positions shift when a device goes: whatever
\* changed after SET_CONFIGURATION finds the device mounted and takes it off the bus
\* (usb_device.c:53-75, usb_hid.c:43-50, usb_descriptors.c:78-89).
RightInterface ==
  /\ pc = "forward"
  /\ core1 = "idle"
  /\ ~g_usb_reinit_request
  /\ attached
  /\ host = "done"
  => \A e \in snap :
       LET k == PositionOf(snap, e) + 1 IN
       /\ Open(e)
       /\ queue[e.slot] # << >>
       /\ k <= Len(seen)
       /\ seen[k] \in Cid
       => Head(queue[e.slot]) = seen[k]

\* Whatever Core 1 publishes while the callback runs, the configuration it returns
\* has between one and MAX_HID_DEVICES interfaces, fits its buffer, and gives its
\* interfaces numbers and endpoints of their own, apart from the log console's
\* (usb_descriptors.c:107-186).
ConfigurationFits ==
  \A c \in {config, opened} : c # << >> =>
    LET I == 0..(Len(c) - 1) IN
    /\ TotalLength(Len(c)) <= CONFIG_BUF_SIZE
    /\ \A i \in I : /\ InterfaceNumber(i) \notin CdcInterfaces
                    /\ EndpointAddress(i) \notin CdcEndpoints
                    /\ EndpointAddress(i) \in 129..143
    /\ \A i, j \in I : i # j => /\ InterfaceNumber(i) # InterfaceNumber(j)
                                /\ EndpointAddress(i) # EndpointAddress(j)

\* The READY set published while the bus is disconnected gets to the host, unless
\* Core 1 publishes again before (usb_device.c:69-75).
DisconnectedCatchesUp ==
  usb_reinit_state = "WAIT_STABILIZATION" ~>
    HostHas(ready_snapshot) \/ core1 # "idle" \/ g_usb_reinit_request

\* The clients of a snapshot, by slot.
ClientsOf(S) ==
  [i \in Slot |-> IF \E e \in S : e.slot = i THEN (CHOOSE e \in S : e.slot = i).hids_cid
                                          ELSE NoCid]

Feed ==
  INSTANCE ReadyFeed WITH
    running <- TRUE,
    ready <- ClientsOf(ready_snapshot),
    g_usb_reinit_request <- g_usb_reinit_request \/ core1 = "copied"

\* Copy and flag are two steps and Core 0 may test and clear the flag between any two,
\* yet what it reads is the feed of module ReadyFeed, where a change, its publication
\* and its request are one: the copy comes first (ble_coordinator.c:177-193,
\* usb_device.c:52-56).
PublishesAtOnce == [][Feed!Next]_(Feed!feedVars)

(***************************************************************************)
(* Why they hold: an inductive invariant                                   *)
(***************************************************************************)

\* Where the enumeration is.
Enumeration ==
  /\ usb_reinit_state = "WAIT_STABILIZATION" => ~attached /\ host = "gone"
  /\ host \in {"set", "done"} => mounted
  /\ host \in {"gone", "reset", "read"} => seen = << >>
  /\ host \in {"read", "set"} => config # << >>
  /\ host = "set" => Len(seen) < Len(config)
  /\ pc # "build" => building = NotBuilding
  /\ building.request = "get" => host = "reset"
  /\ building.request = "set" => host = "read"
  /\ Len(building.owners) <= NumInterfaces

\* Core 1 changes one slot, then publishes; a slot it has freed stays free.
SnapshotTracks ==
  /\ core1 # "changed" => ready_snapshot = SnapshotOf(ready)
  /\ \A e \in ready_snapshot : ready[e.slot] \in {e.hids_cid, NoCid}
  /\ \A i \in vacated : ready[i] = NoCid

\* Between the request taken and the queues cleared, anything may be in them.
Unsorted == pc = "act" \/ usb_reinit_state = "WAIT_STABILIZATION"

\* Otherwise reports come from the device of their slot and of the snapshot.
QueuesOwned ==
  ~Unsorted =>
    /\ \A s \in Slot \ vacated : \A k \in DOMAIN queue[s] : queue[s][k] = ready[s]
    /\ \A e \in ready_snapshot : \A k \in DOMAIN queue[e.slot] : queue[e.slot][k] = e.hids_cid

\* A device the snapshot still shows, whose loss an earlier request has covered: no
\* host has the interfaces by then.
LossIsKnown ==
  host = "done" /\ pc # "act" =>
    \A e \in ready_snapshot : ready[e.slot] = NoCid => e.slot \in vacated

\* Core 0 forwards by a copy whose slots still are what they were, or freed.
CopyOwned ==
  host = "done" /\ pc = "forward" =>
    \A e \in snap :
      /\ ready[e.slot] = e.hids_cid \/ (ready[e.slot] = NoCid /\ e.slot \in vacated)
      /\ \A k \in DOMAIN queue[e.slot] : queue[e.slot][k] = e.hids_cid

\* Nothing has changed that no request tells.
Quiet == core1 = "idle" /\ ~g_usb_reinit_request /\ pc # "act"

\* Then the host's descriptors and Core 0's copy are those of the snapshot.
QuietAgrees ==
  Quiet =>
    /\ host \in {"set", "done"} =>
         \A k \in DOMAIN seen :
           seen[k] \in Cid => seen[k] = ReportDescriptor(ready_snapshot, Present, k - 1)
    /\ pc = "forward" => snap = ready_snapshot

IInv ==
  TypeOK /\ Enumeration /\ SnapshotTracks /\ QueuesOwned /\ LossIsKnown /\ CopyOwned
         /\ QuietAgrees

(***************************************************************************)
(* A claim the code does not meet                                          *)
(***************************************************************************)

\* hid_bridge.h:37-39: the request makes Core 0 re-enumerate and the PC re-read, so that
\* once Core 1 rests, the PC has the READY set.  A request taken before the host's
\* SET_CONFIGURATION only calls tud_connect on a connected device (usb_device.c:61-64),
\* and the host goes on with what it has read.
HostCatchesUp ==
  <>[](core1 = "idle" /\ ~g_usb_reinit_request) => []<>HostHas(ready_snapshot)

===============================================================================
