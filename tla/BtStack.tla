------------------------------- MODULE BtStack -------------------------------
(***************************************************************************)
(* The part of BTstack and of the controller the coordinator talks to: the *)
(* scanner, the outgoing connection, the live links with their pairing and *)
(* HID-service client.  It is external code, modelled from the calls in    *)
(* ble_coordinator.c and from the events ble_events.c dispatches.          *)
(*                                                                         *)
(* Calls are operators over the primed variables.  Every asynchronous      *)
(* answer is a step of module Coordinator, because BTstack delivers it by  *)
(* calling a handler of the coordinator in the same step.                  *)
(***************************************************************************)
EXTENDS Devices

CONSTANTS
  NoAddr,
  Handle,      \* connection handles; as many as MAX_NR_HCI_CONNECTIONS
  NoHandle,    \* HCI_CON_HANDLE_INVALID
  Cid,         \* HIDS client ids; as many as MAX_NR_HIDS_HOSTS
  NoCid        \* 0

ASSUME BtStackAssumption ==
  /\ NoAddr \notin Addr
  /\ NoHandle \notin Handle
  /\ NoCid \notin Cid

VARIABLES
  running,     \* HCI_STATE_WORKING has been reported
  scanning,    \* gap_start_scan is in force
  outgoing,    \* the address gap_connect is trying to reach
  cancelled,   \* an attempt gap_connect_cancel gave up, not yet answered
  links        \* per handle: the link, its pairing and its HIDS client

btVars == <<running, scanning, outgoing, cancelled, links>>

(***************************************************************************)
(* state    "down" the link was lost and DISCONNECTION_COMPLETE is still   *)
(*          due, "gone" only the HIDS client's event is                    *)
(* sm       "asked": pairing or re-encryption runs, "keyed": the same,     *)
(*          after SM_EVENT_IDENTITY_CREATED                                *)
(* hid      state of the HIDS client whose id is cid                       *)
(* closing  gap_disconnect was called                                      *)
(***************************************************************************)
Link == [state   : {"free", "up", "down", "gone"},
         addr    : Addr \cup {NoAddr},
         sm      : {"none", "asked", "keyed", "secured"},
         cid     : Cid \cup {NoCid},
         hid     : {"none", "discovering", "connected"},
         closing : BOOLEAN]

FreeLink == [state |-> "free", addr |-> NoAddr, sm |-> "none",
             cid |-> NoCid, hid |-> "none", closing |-> FALSE]

NewLink(a) == [FreeLink EXCEPT !.state = "up", !.addr = a]

BtTypeOK ==
  /\ running \in BOOLEAN
  /\ scanning \in BOOLEAN
  /\ outgoing \in Addr \cup {NoAddr}
  /\ cancelled \in Addr \cup {NoAddr}
  /\ links \in [Handle -> Link]

BtInit ==
  /\ running = FALSE
  /\ scanning = FALSE
  /\ outgoing = NoAddr
  /\ cancelled = NoAddr
  /\ links = [h \in Handle |-> FreeLink]

Up(h) == h \in Handle /\ links[h].state = "up"

\* A live link to the device that uses address a, under whatever address.
LinkedTo(a) ==
  \E h \in Handle : links[h].state # "free" /\ Identity(links[h].addr) = Identity(a)

\* A pairing or re-encryption is running on the link.
Securing(h) == links[h].sm \in {"asked", "keyed"}

\* One callback chain reports a lost link to everyone before BTstack turns to
\* the next event.
NoLinkDown == \A h \in Handle : links[h].state \in {"free", "up"}

FreeHandles == {h \in Handle : links[h].state = "free"}

FreeCids(lk) == Cid \ {lk[h].cid : h \in Handle}

\* gap_connect: one attempt at a time, and none to an address whose last attempt
\* is unanswered; the caller drops the refusal.
GapConnect(a) ==
  outgoing' = IF outgoing = NoAddr /\ cancelled # a THEN a ELSE outgoing

\* gap_connect_cancel: the answer to the attempt is still to come.
GapConnectCancel ==
  /\ cancelled' = outgoing
  /\ outgoing' = NoAddr

\* A cancelled attempt that succeeds all the same does so before the next one begins.  The
\* controller has made that link before it completes the cancel, and so before the scan
\* behind it reports what the next attempt would be for.  Nor is that one begun by a late
\* lookup answer: the lookup would be older than the cancelled attempt and have waited
\* all its CONNECTION_TIMEOUT_MS, 3 s.  A failure comes after the cancel, at any time.
AheadOfNextAttempt(a) == a = cancelled => outgoing = NoAddr

\* gap_disconnect(handle), on the links lk the event has left.
GapDisconnect(h, lk) ==
  links' = IF h \in Handle /\ lk[h].state = "up" THEN [lk EXCEPT ![h].closing = TRUE]
                                                 ELSE lk

\* hids_host_connect(handle) succeeds on a live link without a client of its
\* own while the pool of clients lasts.
HidsHostAccepts(h, lk) ==
  /\ h \in Handle
  /\ lk[h].state = "up"
  /\ lk[h].cid = NoCid
  /\ FreeCids(lk) # {}

HidsHostConnect(h, c, lk) ==
  links' = [lk EXCEPT ![h].cid = c, ![h].hid = "discovering"]

===============================================================================
