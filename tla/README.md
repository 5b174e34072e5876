# Verification of the BLE to USB HID bridge

TLA+ models of the Raspberry Pi Pico W firmware in this repository, TLC runs
that check them on small instances, and TLAPS proofs that carry the central
safety properties to any number of slots, links, devices, clients and bonds.

## 1. The system

The firmware runs on two cores. **Core 1** runs BTstack's run loop and everything
in `src/src/ble`: it scans, connects, pairs, discovers the HID service and receives
reports. **Core 0** runs `usb_device_main`: TinyUSB, the forwarding of reports and
the log console. They share the READY snapshot and a request flag (`bridge.c`),
one report queue per slot (`report_queue.c`) and the log ring (`log_console.c`).

| component | state | operations | interacts with |
|---|---|---|---|
| coordinator (`ble_coordinator.c`) | `slots[]`, `coord_state`, `connecting_slot`, one timer, `pairing_mode_end_ms`, `pending_rpa_lookups` | one handler per BTstack event, two timer handlers, pairing enter/exit | calls BTstack, bonds, publishes the snapshot, pushes reports |
| event handlers (`ble_events.c`) | none | dispatch; bonds an identity when it is created | calls the coordinator and the bonds |
| bonds (`ble_bonds.c`) | list and flag in RAM, tag in flash | load, save, find, add (FIFO), clear, forget | called by the two above |
| indicators (`indicators.c`) | debounce state, last seen window | LED tick, button poll | opens and closes the pairing window |
| snapshot (`bridge.c`) | snapshot under a spinlock, `g_usb_reinit_request` | publish, get | written by Core 1, read by both |
| report queues (`report_queue.c`) | a ring per slot under a spinlock | push, peek, advance, clear | Core 1 pushes, Core 0 takes and clears |
| USB device (`usb_device.c`) | re-enumeration state, its start time | main loop | takes the request, clears queues, drives TinyUSB |
| USB HID (`usb_hid.c`) | none | forwards one report per interface and loop | snapshot, queues, TinyUSB |
| USB descriptors (`usb_descriptors.c`) | descriptor buffer | callbacks of the host's requests | snapshot, HID descriptor storage |
| log console (`log_console.c`) | ring under a spinlock, staging buffer | push, pop, stage, flush, reset | written by Core 1, drained by Core 0 |
| boot (`main.c`, `ble_host.c`) | none | initialisation in order | all |

What makes each correct:

- *coordinator*: the snapshot is the READY set; a READY slot has its own live
  client; events find the slot they are about; every attempt ends; bonded devices
  are sought as long as there is room; strangers only inside the window;
- *bonds*: the list stays within its capacity and remembers what was paired,
  across power cycles;
- *snapshot, USB device, descriptors*: what the host has enumerated becomes, and
  then stays, the READY set; a report leaves only through its device's interface;
- *queues, log*: FIFO, bounded, nothing lost but what the full policy drops.

What is hard: BTstack's answers come in orders nobody tests (an attempt that
succeeds while it is being cancelled, a link lost during pairing or discovery,
two devices at once with one timer and one `connecting_slot`); the security events
carry no slot; results of calls are dropped; power fails anywhere; and the two
cores act on copies of state the other is changing. `PROJECT.json` lists each such
hazard with its line and the properties aimed at it.

## 2. Modules

| module | models | kind |
|---|---|---|
| `Devices` | the addresses devices use, which of them are resolvable private addresses (RPAs) and the identity behind each | external |
| `BtStack` | scanner, outgoing connection, links with their pairing and HIDS client, as the handlers can observe them | external |
| `BleBonds` | `ble_bonds.c` | operators over `bonded_list`, `has_bonded_device`, `bonded_flash` |
| `RpaLookups` | `pending_rpa_lookups` and BTstack's lookup queue | operators over the table |
| `Coordinator` | `ble_coordinator.c`, the dispatch of `ble_events.c`, the window part of `indicators.c` | state machine |
| `ReadyFeed` | what `hid_bridge.h` promises Core 0 | abstract specification |
| `CoordinatorProperties` | promises, inductive invariant, refinement, claims | properties |
| `CoordinatorTypeProofs`, `CoordinatorProofs` | the inductive invariant | theorems |
| `CoordinatorPromiseProofs` | the promises that rest on it, and the refinement | theorems |
| `ReportFifo` | what `report_queue.h` promises the two cores | abstract specification |
| `ReportQueue` | `report_queue.c`, its one writer (`coordinator_handle_hid_report`) and its one reader (`usb_hid.c`) | state machine, properties |
| `ReportQueueProofs` | proofs | theorems |
| `UsbDescriptors` | `usb_descriptors.c` and the accessor of `ble_host.c`, as functions of the snapshot | operators |
| `Bridge` | `usb_device.c`, `usb_hid.c`, the publication in `bridge.c` and `coordinator_publish_snapshot`, and the PC: both cores composed with `UsbDescriptors` | state machine, properties |
| `BridgeProofs` | proofs | theorems |
| `LossyFifo` | what `log_console.h` promises | abstract specification |
| `LogConsole` | `log_console.c` and the lines of `usb_device.c` that drain it | state machine, properties |
| `Remainders` | what `%` does to counters that wrap | lemmas |
| `LogConsoleProofs` | proofs | theorems |
| `Indicators` | `indicators.c` and the clock of `pairing_mode_*` in `ble_coordinator.c` | state machine, properties |
| `IndicatorsProofs` | proofs | theorems |
| `MCCoordinator`, `MCRotation`, `MCBridge`, `MCPeripherals` | constants for TLC | instances |

The modules meet at what the cores share. `Coordinator` implements `ReadyFeed`, in
which one step changes the READY set, publishes it and raises the request. `Bridge`
takes the same feed apart, because Core 0 can look in between: the change, the copy
under the lock and the flag are three steps there, and every handler of `Coordinator`
is one such triple or none; that the triple is one step of the feed for whoever reads the
snapshot is `PublishesAtOnce`. `ReportQueue` has the steps of one queue operation;
`Bridge` has the queues whole and asks whose reports are in them.

### How Coordinator corresponds to the code

Core 1 handles one event at a time, so **a handler is one action**, with every
call it makes. A C function called from several handlers is an operator that fixes
the primed variables the function writes; one that reads what an earlier call of
the same handler wrote reads it primed (`MaybeStartScan` reads `slots'`, as
`coordinator_maybe_start_scan` runs after the slot was changed).

| code | model |
|---|---|
| `slots[i]` | `slots[i]`: `state`, `con_handle`, `hids_cid`, `adv_addr`; the address type is a function of the address |
| `connection_timer` and its handler | `connection_timer`: `"off"`, `"scan"`, `"connect"` |
| `pairing_mode_active()` | `pairing_window`; the passing of `pairing_mode_end_ms` is `WindowExpires` |
| `pairing_was_active` in `led_timer_handler` | `pairing_was_active` |
| `ready_snapshot` | a set of (slot, client) pairs; slot order gives the compact positions |
| links, pairings, HIDS clients | `links[h]`: `state`, `addr`, `sm`, `cid`, `hid`, `closing` |
| `gap_connect`, `gap_connect_cancel` | `outgoing`, `cancelled` (an attempt given up and not yet answered) |
| loss of power | `PowerCycle`: all but `bonded_flash` returns to its initial value |

A lost link is reported as BTstack does it: first to the security manager (which
ends a running pairing), then to the HIDS client and to `ble_events.c` in either
order. `LinkLost` starts such a chain, and no other handler runs before it ends.

`slots[-1]` is accessed by the pairing handlers when `connecting_slot` is -1. The
write falls on memory before the array; the model assumes that it changes none of
the modelled variables and that the handle read there names no live link.

Assumptions about the world, all in `BtStack` or in the guards of the actions:
the controller makes one connection at a time and answers a cancelled attempt
before a later one can time out; a cancelled attempt that *succeeds* all the same does
so before the next attempt begins (below); a device that is connected does not advertise; a peer may ask for security on a link that has
none; BTstack reports identity creation at most once per pairing; a pairing that
has created its identity fails only with the link; one write of the flash tag is
atomic; the window stays open for many LED ticks, so the tick sees it before it
expires (`ExpiryIsNoticed` of `Indicators`, with the clock; ends within one LED tick of
its wrap are excepted).

The assumption about the late success is `AheadOfNextAttempt` in `BtStack`, a guard of
`OnConnectionUp` that `ble_coordinator.c:571-585` does not have: the code would take such
a link for the next attempt's. The reason is that the controller has made the link before
it completes the cancel. A next attempt begun by an advertisement therefore comes after
the link's event, because the scan that reports the advertisement is started behind the
cancel. A next attempt begun by the answer to a lookup (lines 631, 645) needs no new scan
report; but its lookup would have been asked for before the cancelled attempt began, and
have been out for the three seconds of that attempt's timeout, where a lookup takes
milliseconds. `LinkEndsAttempt`, and with it the inductive invariant, rests on this
assumption: without it a slot's handle could be overwritten. A late *failure* is not
restricted: it does reach the next attempt (finding 3).

Abstracted: report contents, logging, connection parameters, the descriptor
lengths in the snapshot, address types, `gap_delete_bonding` (which lookups
resolve is left open in the model), the exact appearance values that count as a
HID advertisement (an advertisement has the service or not).

### How ReportQueue corresponds to the code

Here the grain is finer, because two cores meet: **a critical section is one
action**, and the other core may run between any two. Core 1 only pushes. Core 0
goes round its loop: `at` is where it is, `turn` the slot its loop variable stands
for, `rpt` the copy on its stack. `Peek`, `Transmit` and `Advance` are the three
steps of `send_hid_report`; TinyUSB may refuse (`NotNow`) and a slot may be missing
from the snapshot (`Skip`) at any time. `StartClear` and `ClearSlot` are
`report_queue_clear_all`, which locks once per slot. `sent` (what TinyUSB accepted
last) and `push_ok` (the result of a push) make the outcome visible to the abstract
queue. That a clear request comes only from the re-enumeration is left open, so the
model has every clear the code has. `Oversized` are the reports longer than the 64
bytes of the endpoint, which TinyUSB never takes; the queue stores up to 512.

### How Bridge corresponds to the code

Core 1 is reduced to its feed: `Gain`, `Lose` or `FailAttempt` is a handler that
changes the READY set (or publishes it unchanged), `Publish` the copy under the
spinlock, `Raise` the flag behind it, `Push` a report of a READY slot. `core1` says
where it is. Core 0 has a program counter:

| `pc` | code | actions |
|---|---|---|
| `poll`, `clear` | `if (g_usb_reinit_request)`, `= false` | `Poll`, `Clear` |
| `act` | the rest of that block | `Disconnect`, `NoDisconnect` |
| `settle` | the stabilisation delay | `Settled`, `NotSettling` |
| `usb`, `build` | `tud_task` and the configuration callback, one interface of its loop at a time | `NoTransaction`, the host's actions, `BuildInterface`, `FinishGet`, `FinishSet` |
| `hid`, `forward` | `usb_hid_task`: copy of the snapshot, one report per position | `CopySnapshot`, `Forward` |

The host is external: `host` is how far it has enumerated, `config` and `opened` whose
report lengths it and TinyUSB have read, `seen` whose report descriptors. A
descriptor is reduced to its owner; one cut to another one's length is `Garbled`.
`Present` are the clients whose descriptor BTstack still stores: a lost client's is
gone at once, before the snapshot says so, and the callback falls back.

Assumptions of this module, each in a guard:

- no transaction of the host *begins* between a change of the READY set and its flag
  (microseconds on Core 1, against milliseconds of USB). The configuration callback of
  one that has begun does run against Core 1, interface by interface. The report
  descriptor's callback reads the snapshot and the descriptor of one slot in one step,
  in which Core 1 is not between a change and its flag;
- a client BTstack still stores is not the one of a new device (`Gain`): `FeedImplemented`
  proves of `Coordinator` that a client that becomes READY is in no other slot;
- a slot gets a new device only after Core 0 has taken the request of the loss of
  the last one (a pass of its loop, against a connection and a discovery). `vacated`
  holds the slots for which that has not happened. This is a matter of time that no
  code enforces;
- the host reads each report descriptor once and in order, and may reset the bus
  whenever it likes, also in the middle of an enumeration. A suspended bus is one on which nothing is taken. Power is not
  lost here (see `Coordinator`).

### How LogConsole and Indicators correspond to the code

`LogPush` is `log_console_push`; `LogStage` is `log_console_pop` with
`log_console_cdc_load`, which share no state with Core 1 after the pop; `LogFlush(n)` is
`log_console_cdc_flush` when the endpoint takes `n` bytes in all; `LogReset` is
`log_console_cdc_reset`, allowed at any time. The counters are taken modulo `WORD`.
A message's text is its length after `\n` has become `\r\n`.

In `Indicators` a step of the clock is a millisecond, and the run loop lets no due timer
wait. The pin and the number of READY devices are arbitrary at every look.
`led_cycle_start_ms` is 0, the time of `indicators_init`. `since_press` and `raw_age` are
histories that only the properties read; so are `shown`, `dark` and `flashes`, what somebody who
watches the LED has seen: the count it is showing, for how long it has been off, how
often it has flashed since the last pause.

## 3. Properties and runs

Promises, in `CoordinatorProperties`:

- `SnapshotMatchesReady`, `ReadyHasClient`, `UnambiguousLookup`,
  `ConnectingIsTracked`, `ConnectTimerGuardsAttempt`, `BondedAlwaysSought`:
  safety invariants, for any number of slots;
- `StrangerGate`: a slot is claimed only for a bonded device or inside the window;
- `LookupLostOnlyWhenFull`: an address comes to wait for a lookup BTstack does not have
  (`Unanswered`) only at an advertisement that finds BTstack's queue full;
- `OnlyOtherDevicesDisturb`: while the coordinator waits for a link, no press, LED tick,
  scan timeout, late lookup or event of a link without a slot takes the timer and its
  attention away, only a device in another slot that leaves or becomes READY (this is
  how far "Don't disturb a connection in progress" goes, see the first finding);
- `ImplementsFeed`: refinement of `ReadyFeed`, with the READY clients as `ready`;
- `AttemptHandedOn`: for any number of slots, the attempt of the connecting slot is handed
  from its new link to pairing, to discovery and, on a failure, to the closing of the
  link, so that something is always under way on the link that will end the attempt;
- `AttemptIsGuarded`, `AttemptEnds`: with one slot, every attempt has something
  that ends it, and does end; `ScanStops`: a scan without purpose stops.

In `ReportQueue`:

- `PeekedIsOldest`: from peek to advance, Core 0's copy is the oldest report;
- `ImplementsFifo`: refinement of `ReportFifo`; the ring is read as a sequence from
  `head` to `tail`, with one place kept free;
- `NobodyStarves`: a slot's queue runs empty or is sent from, again and again, or has
  an oversized report in front.

In `Bridge`:

- `RoutedWhenAgreed`: while the host has the interfaces Core 0 forwards by, whatever
  is queued for a slot comes from its present device;
- `RightInterface`: with no request left, no report leaves through the interface the
  host took for another device's, although it has read lengths, configuration and
  descriptors from different snapshots and positions shift when a device goes;
- `ConfigurationFits`: whatever Core 1 publishes during the callback, the descriptor
  fits its buffer, and numbers and endpoints are distinct and not the console's;
- `DisconnectedCatchesUp`: what is published while the bus is disconnected reaches the
  host, unless Core 1 publishes again;
- `PublishesAtOnce`: the copy and the flag are two steps, with Core 0 testing and
  clearing in between, and still each publication is one step of `ReadyFeed`, with the
  flag counted as set from the copy on;
- `IInv`: what makes the first two hold (section 5).

In `LogConsole`: `ImplementsLossyFifo` (whole messages, in order, once, whatever the
wrapped counters are) and `LogDrains` (a message gets out of the way of the next).

In `Indicators`: `WindowNeedsPress` and `PressOpensWindow` (the window is open for ten
seconds after each request and never otherwise, across the wrap of the clock),
`Debounced` (a bounce is never confirmed, a level that lasts is), `LedFlashesCount`
(between two pauses the LED, sampled by its ticks, flashes once per READY device, but for
the period in which the count or the mode changes or the clock wraps), and
`ExpiryIsNoticed` (what expires by
itself was seen open by an LED tick, which then stops the scan: this is the assumption
under which `Coordinator` lets a window expire). `WindowNeedsPress` and `ExpiryIsNoticed` except ends
within one LED tick of the wrap, `PressOpensWindow` presses whose end falls on or behind it.

| run | instance | shows |
|---|---|---|
| `two_slots` | 2 slots, 2 devices of fixed address, 2 links, 2 clients, list of 1 | the six invariants, types, `IInv`, `ImplementsFeed`, `OnlyOtherDevicesDisturb`, `AttemptHandedOn` (1.4 million states) |
| `liveness` | 1 slot, 1 device, 2 links, 1 client, fair | `AttemptIsGuarded`, `AttemptEnds`, `ScanStops` (5 thousand states) |
| `rotation` | 1 slot, one device with an identity and 2 RPAs, table and lookup queue of 1, list of 2 | `LookupLostOnlyWhenFull`, `StrangerGate` (780 thousand states) |
| `bridge` | 2 slots, 2 clients that take any slot, queues of 1, fair | types, `RoutedWhenAgreed`, `RightInterface`, `ConfigurationFits`, `IInv`, `DisconnectedCatchesUp`, `PublishesAtOnce` (524 thousand states) |
| `peripherals` | queues: 2 slots, rings of 3, 2 reports of which one is oversized; log: ring of 3, messages of 1 and 2 pieces, counters modulo 6; indicators: clock modulo 27, window 8, poll 3, debounce 4, tick 2; fair | types, `PeekedIsOldest`, `ImplementsFifo`, `NobodyStarves`; `ImplementsLossyFifo`, `LogDrains`; `WindowNeedsPress`, `PressOpensWindow`, `Debounced`, `LedFlashesCount`, `ExpiryIsNoticed` (132 thousand states) |
| `in_flight`, `secured`, `remembered`, `forgotten` | as `two_slots` | one claim each, violated |
| `evicted` | as `rotation` | `EvictedOnlyWhenFull`, violated |
| `stale` | as `bridge` | `HostCatchesUp`, violated |
| `steady` | as `peripherals` | `SteadyWhenForwarding`, violated |

`peripherals` runs one of three parts that share nothing; the others rest, so that
the state spaces add up and do not multiply. The indicators are split once more: the
number of devices reaches nothing but the LED, and a press nothing but the window, so the
button is pressed with no device READY, and devices come and go with the start's window
alone, which opens at any moment. The theorems of section 5 are about `Indicators` without
the split.

**Bounds.** Two slots are the value the firmware is built with (`MAX_HID_DEVICES`
2), and two devices, links and clients are what it takes for every pair of slots
to interfere. A bonded list of one makes eviction and the full list happen at
once; the proofs cover any length. In `rotation` the table of one entry wraps with
the second address, the lookup queue of one is full with the first, and the list of two holds an identity and one RPA. Every
state space is complete: what counts in the code wraps in the model too. The `liveness` run has two handles so
that a link left behind without a slot and a new one can exist together.
Symmetry exchanges devices, handles and clients, which the code only compares
for equality; runs with a liveness property use none.

A ring of three entries holds two reports: order is visible, the third push finds
the ring full, and both indices wrap. The firmware's 32 entries add nothing but
states; the proofs cover every depth, 1 included.

In `bridge` two slots are what it takes for a position to shift (the device of slot 0
goes, slot 1's moves up), and two clients for a slot to change hands. A queue of one
report shows whose reports it holds; the proofs cover any capacity. `WORD` = 6 with
a ring of 3 wraps the counters at every second lap of the ring, and 2^32 is a
multiple of 32 as 6 is of 3. The indicators' scaled times keep the order of the
real ones (poll < debounce, tick < window < clock) but not their divisibility, so that
polls, ticks and ends meet at every phase. A lap of 27 holds two periods of the LED's pattern
for two devices (12) and three for one (8), so that pauses to count between exist for both,
and a tick, of 2, meets every phase of it on successive laps.

**Fairness** (`Fairness` in `Coordinator`): the run loop fires an armed timer,
Core 0 polls, and BTstack answers each request, because pairing (30 s in the
security manager), GATT queries and disconnections have timeouts of their own. It
is strong where a link going down elsewhere can delay the step. Nothing is assumed
of devices or of the user: they may never advertise, answer, or press. In
`ReportQueue` Core 0's loop never stops, because it never blocks, and
`NobodyStarves` is conditional on its environment: a device stays in the snapshot
often enough, and TinyUSB takes a report of each that fits again and again because
the host polls every interface. In `Bridge` neither core blocks (`MainLoop`,
`Publish`, `Raise`), the stabilisation delay ends (`Settled`, strong, because the test of
the clock that finds it over recurs with the loop), and a host that sees the device
enumerates it to the end (`Enumerates`, strong, because a transaction needs `tud_task` to be
running) and does not start over for ever (`StartsOver`); it need not reset a device it has
enumerated, and nothing makes Core 1 change or rest. `LogDrains` assumes a terminal that opens the port again and again
and then takes bytes; `Indicators` has no liveness.

**With two slots `AttemptIsGuarded` fails**, and so does `AttemptEnds`: see the
first finding below. That is why the two are checked with one slot. What holds with any
number is `AttemptHandedOn`: an attempt that keeps the coordinator's attention is never
left without a continuation, and one that loses it loses it to another device
(`OnlyOtherDevicesDisturb`).

## 4. Findings

Each is a violation run with the quoted claim in `PROJECT.json`.

1. `in_flight`: a disconnection of one device removes the timer of another
   device's attempt and restarts the scan; the slot of that attempt can stay
   `SLOT_CONNECTING` for ever.
2. `secured`: pairing and re-encryption events are applied to `connecting_slot`,
   which need not be the slot of their link.
3. `remembered`: the late *failure* of a cancelled attempt is taken for the next
   attempt's and frees that one's slot while its connection is still being made; the
   following `gap_connect` is refused and its status dropped; the connection that then comes
   up is adopted by the slot of the refused one, and the wrong address is bonded.
4. `evicted`: rotating addresses of one device fill the bonded list.
5. `forgotten`: one device's key mismatch forgets all devices.
6. `stale`: a request that Core 0 takes while the host is between reading the
   configuration and setting it only clears the queues and calls `tud_connect` on a
   device that is connected. The host keeps an interface cut from two snapshots, and
   no request is left that would make it read again.
7. `steady`: `docs/troubleshooting.md:9` describes a steady LED where `indicators.c:83-91` and
   `src/README.md:58` blink the count. The other rows of that table are off as well: a scan for a
   bonded device with the window closed shows a steady LED.

Observed while modelling, without a run of its own:

- a device that was paired and whose discovery fails, or whose link or power is lost before
  it ends, is listed in RAM but not in flash, because `ble_bonds_save` only runs after a
  successful discovery (`ble_coordinator.c:667`, `ble_events.c:115`): the security manager
  keeps a bond that the bridge does not seek after the next power-on, where
  `src/README.md:62-63` says that the Pico stores the devices it is to reconnect to;
- a window whose end falls within one LED tick before the wrap of the 32-bit clock
  can be missed by the tick and then stays open for a lap, and a press in the ten
  seconds before the wrap opens none (`ble_coordinator.c:207`); `WindowNeedsPress` and
  `PressOpensWindow` except just these;
- `log_console_cdc_reset` discards the staged message also when none of it has been
  sent, where `log_console.h:45` speaks of a partially-sent one; `LossyFifo` allows it;
- a report of more than 64 bytes is never taken and never dropped: it blocks its
  slot until the next re-enumeration (`NobodyStarves` excepts it);
- between a publication and the disconnection that follows, a pass of `usb_hid_task`
  can send one report per position through the interface of the device that was
  there before (`RightInterface` starts when no request is left).

## 5. Proofs

`CoordinatorProofs` proves, for every value of the constants, `Spec => []IInv`
(`Invariance`) and from it `TypeCorrect`, `SnapshotCorrect`, `ReadyCorrect`,
`LookupCorrect` and `TrackingCorrect`. The only assumptions are the named ones of
the modules: sizes are positive, RPAs are addresses and their identities are not
RPAs, and `NoAddr`, `NoHandle`, `NoCid` are not addresses, handles or clients.

The promises are not inductive by themselves: that an event finds one slot only
depends on what the links look like. `IInv` adds the missing relations:

- `SlotShape`, `LinkShape`: an idle slot and a free link have kept nothing;
- `SlotsHaveLinks`: a slot's handle is that of a link whose end it has not been
  told, its client is that link's client, and discovered if the slot is READY;
- `HandlesDistinct`, `ClientsDistinct`: no handle in two slots, no client on two
  links;
- `LinkEndsAttempt`: while the connecting slot has a link, no attempt is
  unanswered. Without it a connection event could overwrite the handle of a slot
  that already has one, and the first link would be lost to both lookups.

The proof goes along the calls: `CoordinatorTypeProofs` has a lemma for the type of
what each shared function writes and concludes `TypeInductive`;
`CoordinatorProofs` has a lemma for what each shared function leaves of the rest
(`Begun`, `Failed`, `ErrorHandled`, `ServiceSought`...), one per handler, and
`NextIInv` collects them. `LinksServe(S)` states what a step must leave of the links
for the slots of `S`; `Kept(lk)` that a list of links differs from the present ones
in pairing state only.

`CoordinatorPromiseProofs` proves what rests on that invariant. First, when attempts are
given up, whom the bridge seeks and whom it lets in:

- `TimerCorrect` (`ConnectTimerGuardsAttempt`, inductive next to `IInv`): the READY
  slot and the one with a link are never the slot of an armed connection timeout,
  because a slot with a client has a handle and `AdoptLink` disarms the timer;
- `BondedSought` (`BondedAlwaysSought`): needs `BondsFlagged`, that the flag covers
  what is listed or stored. It is about flash, not the flag: an identity created
  on a link without a slot raises the flag while the coordinator rests;
- `StrangersKeptOut` (`StrangerGate`): an action property; the one lemma with content
  is `GateAtBegin`, the other steps claim no slot.

Then, what becomes of resolvable addresses (`LookupInv`: the types of table and
queue, and that no address is in the table twice, `LookupsOnce`):

- `LookupsAnswered` (`LookupLostOnlyWhenFull`), for tables and queues of any size: a tracked
  address is in the queue from the same handler on unless the queue was full, and the
  answer that takes an address out of the queue takes it out of the table. The second
  half needs `LookupsOnce`, because the code frees the first entry it finds.

`FeedImplemented` is the refinement: initial states map to initial states and every
handler to one step of `ReadyFeed` or a stutter. It needs `IInv` (before and after the
step: a READY slot has a client, and one connected client makes one slot READY, a
client no other slot has) and `RestsUntilReady` (no publication before BTstack has
started: no links and no armed connection timeout until then).

`AttemptUndisturbed` (`OnlyOtherDevicesDisturb`) says for any number of slots that only an
event of another device with a link takes the timeout and the coordinator's attention from
an attempt that waits for its own: a security event of another link, applied to the
connecting slot, at worst gives that slot's attempt up (`SecurityAlone`), and a freed or READY slot had a link (`HidAlone`).

`AttemptNotDropped` (`AttemptHandedOn`) is what holds of the attempt from then on, for any number of
slots. The invariant needed next to `IInv` is `OwnClient`, that the link of a connecting slot has no
client but that slot's own, so that a failed discovery is told to the slot and closes its link.
The security events are those of any link and are applied to the connecting slot: whose ever
they are, they start discovery on that slot's link or close it (`HandsSecurity`). `LinkEndsAttempt` excludes that a connection event
replaces the link. One lemma per kind of handler (`HandsLinked`, `HandsBegun`, `HandsAfterHid` ...)
is collected in `HandsStep`.

`ReportQueueProofs` proves, for any depth and number of slots, `QueueTypeCorrect`
and `PeekCorrect` (together they are inductive: a push writes the place at `tail`,
which is never `head` of a queue that is not empty) and the refinement
`FifoImplemented`. The argument is about `Ring(d, h, t)`, the sequence read from
index `h` to index `t`: `RingPush`, `RingAdvance`, `RingHead`, `RingEmpty` and
`RingFull` say what a wrapping index does to it, and `FifoPush`, `FifoDrop`,
`FifoHandOver`, `FifoClear` and `FifoStutter` apply them action by action.

`BridgeProofs` proves `BridgeInvariance` (`Spec => []IInv`), for any number of slots and
clients and any capacity, and from it `BridgeTyped`, `RoutingAgrees`, `RoutingRight` and,
for up to 13 slots (the endpoint numbers USB has left), `ConfigurationFit`. Neither of
the routing promises is inductive; the conjuncts of `IInv` follow a report from its
device to its interface:

- `SnapshotTracks`: the snapshot differs from the READY set only in the slot Core 1 is
  about to publish, and only by a device that is gone;
- `QueuesOwned`: but for the time between a taken request and the clearing, a queue
  holds reports of its slot's device, and of the one the snapshot shows;
- `LossIsKnown`, `CopyOwned`: what Core 0 forwards by, the snapshot or its copy, may show
  a lost device, but no other one has the slot by then;
- `Enumeration`: what the host has read so far goes with how far it is, and nothing is
  read while the bus is disconnected;
- `QuietAgrees`: when nothing has changed that no request tells, every descriptor the
  host holds is either not a device's or that of the present snapshot. This is where
  `Disconnect` counts: a change after SET_CONFIGURATION finds the device mounted, and
  the host forgets.

A position is the number of READY slots below, so the proofs about `At(S, p)` need
that positions are injective and, by counting, that each below the cardinality is
taken (`PositionInjective`, `AtIsMember`). There is a lemma per action.

`FeedIsAtomic` (`PublishesAtOnce`) says that `Bridge`'s three steps are a fair account of the one
step `Coordinator` was proved to make. Read through `ClientsOf`, a snapshot is a function from slots
to clients; `OneChange` says that between a change and its copy the snapshot is one device
away from `ready`, and `ReadyDistinct` that no client is in two slots, so that the copy is a
gain, a loss or nothing. Core 0's clearing of the flag is the feed's consumption of the
request, but for one that falls between the copy and the flag: that changes nothing,
because the flag is raised right after it.

`LogConsoleProofs` proves `LogTyped` and the refinement `LossyFifoImplemented`, for any ring
size and any word that is a multiple of it. The first lemmas, in `Remainders`, are about remainders
(`RemainderUnique`, `RemaindersDiffer`, `SmallMultiple`); from them, `Apart` of two counters
goes up with the head and down with the tail (`ApartAfterHead`, `ApartAfterTail`), a
place survives the wrap (`SpotWraps`, where the multiple is needed), and no two
waiting messages share a place (`SpotsDiffer`). `RingAppend` and `RingTail` say what that
means for the sequence of waiting messages. The strengthening `HoldsMessages` says
that waiting places and a pending staging buffer hold messages.

`IndicatorsProofs` proves the properties of `Indicators` for clocks, timers and durations of
any length, under `IndicatorsAssumption` (a tick is shorter than the window, the window and a
tick are shorter than the clock, and so are debounce and poll; no pulse or gap of the LED is
shorter than a tick, and its pause is at least two). `LaterIs` and `ElapsedIs` replace
the remainders by the two cases of a clock that wraps at most once. Then:

- `WindowAskedFor`, `RequestHonoured` and `ExpiryNoticed` follow from `WindowInv`
  (`WindowInvariance`): the end is as far off as the press is young (`EndFollowsPress`,
  `EndIsKept`); a window no tick has seen outlasts the next tick (`UnseenWindowLasts`); and an end
  that has passed was seen and is less than a tick old (`StaleEndIsFresh`). The last two are
  what `WindowNeedsPress` is really about: they say that between two ticks the clock cannot
  run past an end unseen, which is true except within one tick of the wrap
  (`EndAwayFromWrap`);
- `ButtonDebounced` follows from `ButtonInv`: the wrapped difference is the true age of the level
  (`AgeIsElapsed`), and an unconfirmed level cannot settle before the next poll
  (`UnconfirmedIsYoung`);
- `LedFlashesShown` (`LedFlashesCount`) follows from `PatternInv`: at phase
  `q` of the period the LED is lit or not (`Lit`), and what has been seen agrees with the phase (`Seen`).
  Within the pulses the count is that of the pulses begun and the LED has been off for
  less than a pause; within the pause the count is complete until the pause is noticed,
  and then starts afresh. `TickFollowed` is the step from one tick's phase to the next, and `PhaseOfNext`
  says what that phase is.

**Only model-checked**: liveness (`AttemptEnds`, `ScanStops`, `NobodyStarves`,
`DisconnectedCatchesUp`, `LogDrains`), which TLAPS cannot prove. So is
`AttemptIsGuarded`, which holds for one slot only. Every other invariant, action property
and refinement of a passing run is stated by a theorem, `ConfigurationFits` for the up to 13 slots
that USB has endpoints for.

## 6. What is left

The plan was: the coordinator and its feed, the report queues, the USB loop with the
host, the composition of both cores, the log, the indicators, the descriptors. All of
it is built. What could follow: a composition of `Coordinator` itself, in the place of
its feed, with `Bridge`, whose states multiply beyond TLC's reach at two slots: `FeedImplemented`
and `FeedIsAtomic` are the two halves of that argument.

## 7. Not modelled

- `main.c` and the initialisation in `ble_host.c`: a straight line of calls before the
  first event; its result is the `Init` of the modules.
- The bytes of descriptors, reports and messages, connection parameters, address
  types and the exact advertisement formats: no property depends on them.
- TinyUSB sending from the pointer a callback returned while BTstack refills that
  storage for another device (`usb_descriptors.c:83`): the packets and the storage are
  outside the repository. It is listed as a hazard without a property.
- The confirmation of pairing requests (it only answers BTstack), GET_REPORT and
  SET_REPORT (they change nothing), the mount, suspend and resume callbacks (they log).
- `device_profile.gatt`, `CMakeLists.txt`, the SDK import and third-party code beyond
  what the handlers observe of it. Loss of power is in `Coordinator` only: nothing of
  the other modules survives it.
