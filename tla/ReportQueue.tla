----------------------------- MODULE ReportQueue -----------------------------
(***************************************************************************)
(* The report queues (report_queue.c) between Core 1, which pushes what    *)
(* ble_coordinator_on_hid_report receives, and Core 0, which forwards one  *)
(* report per READY slot and pass of its main loop (usb_hid.c) and clears  *)
(* the queues when it re-enumerates (usb_device.c).                        *)
(*                                                                         *)
(* A critical section is one action; between two of them the other core    *)
(* may run.                                                                *)
(***************************************************************************)
EXTENDS Integers

CONSTANTS
  MAX_HID_DEVICES,
  REPORT_QUEUE_DEPTH,
  Report,      \* hid_report_t values
  Oversized,   \* those longer than CFG_TUD_HID_EP_BUFSIZE, which TinyUSB never takes
  NoReport     \* a zeroed or unused hid_report_t

ASSUME QueueAssumption ==
  /\ MAX_HID_DEVICES \in Nat \ {0}
  /\ REPORT_QUEUE_DEPTH \in Nat \ {0}
  /\ NoReport \notin Report
  /\ Oversized \subseteq Report

Slot == 0..(MAX_HID_DEVICES - 1)
NoSlot == -1
Index == 0..(REPORT_QUEUE_DEPTH - 1)

VARIABLES
  data, head, tail,   \* the rings
  push_ok,            \* what the last report_queue_push has returned
  at,                 \* where Core 0 is
  turn,               \* its loop variable, the slot it is about
  rpt,                \* its copy of the report it has peeked
  sent                \* per slot, the report TinyUSB accepted last

queueVars == <<data, head, tail>>
coreVars == <<at, turn, rpt, sent>>
vars == <<queueVars, push_ok, coreVars>>

TypeOK ==
  /\ data \in [Slot -> [Index -> Report \cup {NoReport}]]
  /\ head \in [Slot -> Index]
  /\ tail \in [Slot -> Index]
  /\ push_ok \in BOOLEAN
  /\ at \in {"main", "clear", "task", "peeked", "sent"}
  /\ turn \in Slot
  /\ rpt \in Report \cup {NoReport}
  /\ sent \in [Slot -> Report \cup {NoReport}]

Init ==
  /\ data = [s \in Slot |-> [i \in Index |-> NoReport]]
  /\ head = [s \in Slot |-> 0]
  /\ tail = [s \in Slot |-> 0]
  /\ push_ok = FALSE
  /\ at = "main"
  /\ turn = 0
  /\ rpt = NoReport
  /\ sent = [s \in Slot |-> NoReport]

\* Mutant: the wrap is forgotten.
AfterUnwrapped(i) == i + 1

After(i) == (i + 1) % REPORT_QUEUE_DEPTH

Empty(s) == head[s] = tail[s]
Full(s) == After(tail[s]) = head[s]

-------------------------------------------------------------------------------
(***************************************************************************)
(* Core 1                                                                  *)
(***************************************************************************)

\* Mutant: a full queue makes room by dropping its oldest report.
PushOverOldest(s, r) ==
  /\ data' = [data EXCEPT ![s][tail[s]] = r]
  /\ tail' = [tail EXCEPT ![s] = After(tail[s])]
  /\ head' = IF Full(s) THEN [head EXCEPT ![s] = After(head[s])] ELSE head
  /\ push_ok' = TRUE
  /\ UNCHANGED coreVars

\* Mutant: one report too many fits.
PushUnchecked(s, r) ==
  /\ data' = [data EXCEPT ![s][tail[s]] = r]
  /\ tail' = [tail EXCEPT ![s] = After(tail[s])]
  /\ push_ok' = TRUE
  /\ UNCHANGED <<head, coreVars>>

\* report_queue_push, for a report of a READY slot; the caller drops the result.
Push(s, r) ==
  /\ push_ok' = ~Full(s)
  /\ IF Full(s)
     THEN UNCHANGED queueVars
     ELSE /\ data' = [data EXCEPT ![s][tail[s]] = r]
          /\ tail' = [tail EXCEPT ![s] = After(tail[s])]
          /\ UNCHANGED head
  /\ UNCHANGED coreVars

-------------------------------------------------------------------------------
(***************************************************************************)
(* Core 0                                                                  *)
(***************************************************************************)

\* Mutant: the task returns when it has sent one report.
OneReportPerTask(next) ==
  IF turn + 1 \in Slot /\ at # "sent"
  THEN at' = next /\ turn' = turn + 1
  ELSE at' = "main" /\ turn' = 0

\* The next value of the loop variable, or the end of the loop.
Onwards(next) ==
  IF turn + 1 \in Slot
  THEN at' = next /\ turn' = turn + 1
  ELSE at' = "main" /\ turn' = 0

\* The main loop re-enumerates: report_queue_clear_all.
StartClear ==
  /\ at = "main"
  /\ at' = "clear"
  /\ UNCHANGED <<queueVars, push_ok, turn, rpt, sent>>

\* report_queue_clear(turn): each slot has a critical section of its own.
ClearSlot ==
  /\ at = "clear"
  /\ head' = [head EXCEPT ![turn] = 0]
  /\ tail' = [tail EXCEPT ![turn] = 0]
  /\ Onwards("clear")
  /\ UNCHANGED <<data, push_ok, rpt, sent>>

\* usb_hid_task begins with the first position of the snapshot.
StartTask ==
  /\ at = "main"
  /\ at' = "task"
  /\ UNCHANGED <<queueVars, push_ok, turn, rpt, sent>>

\* The slot is not in the snapshot, or its queue is empty.
Skip ==
  /\ at = "task"
  /\ Onwards("task")
  /\ UNCHANGED <<queueVars, push_ok, rpt, sent>>

\* send_hid_report: report_queue_peek, a copy.
Peek ==
  /\ at = "task"
  /\ ~Empty(turn)
  /\ rpt' = data[turn][head[turn]]
  /\ at' = "peeked"
  /\ UNCHANGED <<queueVars, push_ok, turn, sent>>

\* The bus is suspended, the endpoint busy, or TinyUSB refuses the report.
NotNow ==
  /\ at = "peeked"
  /\ rpt' = NoReport
  /\ Onwards("task")
  /\ UNCHANGED <<queueVars, push_ok, sent>>

\* tud_hid_n_report accepts the copy, if it fits the endpoint's buffer.
Transmit ==
  /\ at = "peeked"
  /\ rpt \notin Oversized
  /\ sent' = [sent EXCEPT ![turn] = rpt]
  /\ at' = "sent"
  /\ UNCHANGED <<queueVars, push_ok, turn, rpt>>

\* report_queue_advance
Advance ==
  /\ at = "sent"
  /\ head' = IF Empty(turn) THEN head ELSE [head EXCEPT ![turn] = After(head[turn])]
  /\ rpt' = NoReport
  /\ Onwards("task")
  /\ UNCHANGED <<data, tail, push_ok, sent>>

-------------------------------------------------------------------------------

Core0 ==
  \/ StartClear \/ ClearSlot \/ StartTask \/ Skip \/ Peek \/ NotNow \/ Transmit \/ Advance

Next == Core0 \/ \E s \in Slot, r \in Report : Push(s, r)

Spec == Init /\ [][Next]_vars

(***************************************************************************)
(* Fairness: Core 0's loop never blocks.  The devices stay in the snapshot *)
(* and the host keeps polling, so that TinyUSB accepts a report that fits  *)
(* of each again and again.                                                *)
(***************************************************************************)
Fairness ==
  /\ WF_vars(Core0)
  /\ \A s \in Slot : SF_vars(turn = s /\ Peek) /\ SF_vars(turn = s /\ Transmit)

FairSpec == Spec /\ Fairness

-------------------------------------------------------------------------------
(***************************************************************************)
(* Properties                                                              *)
(***************************************************************************)

\* What report_queue_advance is about to drop is the report Core 0 has peeked and
\* handed over, whatever Core 1 pushed meanwhile.
PeekedIsOldest ==
  at \in {"peeked", "sent"} => ~Empty(turn) /\ data[turn][head[turn]] = rpt

\* The ring as a sequence, oldest report first.
Count(s) == (tail[s] - head[s] + REPORT_QUEUE_DEPTH) % REPORT_QUEUE_DEPTH
Queued(s) == [k \in 1..Count(s) |-> data[s][(head[s] + k - 1) % REPORT_QUEUE_DEPTH]]

\* The queue of module ReportFifo: a ring of REPORT_QUEUE_DEPTH keeps one place free.
SlotQueues ==
  INSTANCE ReportFifo WITH
    Capacity <- REPORT_QUEUE_DEPTH - 1,
    queue <- [s \in Slot |-> Queued(s)],
    sending <- IF at = "sent" THEN turn ELSE NoSlot

\* Order is kept, nothing is sent twice or skipped, only what finds the queue full
\* is dropped, and report_queue_push says so.
ImplementsFifo == SlotQueues!Spec

\* No device starves another: as long as the host takes reports, each queue runs
\* empty or is sent from again and again, however busy the other device is.  Only an
\* oversized report of its own stops a queue, until the next re-enumeration.
NobodyStarves ==
  \A s \in Slot : \/ []<>Empty(s)
                  \/ []<>(at = "sent" /\ turn = s)
                  \/ <>[](~Empty(s) /\ data[s][head[s]] \in Oversized)

===============================================================================
