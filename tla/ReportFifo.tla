------------------------------ MODULE ReportFifo ------------------------------
(***************************************************************************)
(* What report_queue.h promises the two cores: per slot a bounded FIFO.    *)
(* A report keeps its place until it has been handed to TinyUSB, and only  *)
(* a report that finds the queue full is dropped.  Module ReportQueue      *)
(* implements it.                                                          *)
(***************************************************************************)
EXTENDS Naturals, Sequences

CONSTANTS Slot, NoSlot, Report, NoReport, Capacity

VARIABLES
  queue,     \* per slot, the reports waiting, oldest first
  push_ok,   \* what the last report_queue_push has returned
  sending,   \* the slot whose oldest report has been handed over and not yet dropped
  sent       \* per slot, the report handed over last

fifoVars == <<queue, push_ok, sending, sent>>

Init ==
  /\ queue = [s \in Slot |-> <<>>]
  /\ push_ok = FALSE
  /\ sending = NoSlot
  /\ sent = [s \in Slot |-> NoReport]

Push(s, r) ==
  /\ push_ok' = (Len(queue[s]) < Capacity)
  /\ queue' = IF Len(queue[s]) < Capacity THEN [queue EXCEPT ![s] = Append(queue[s], r)]
                                          ELSE queue
  /\ UNCHANGED <<sending, sent>>

HandOver(s) ==
  /\ sending = NoSlot
  /\ queue[s] # <<>>
  /\ sent' = [sent EXCEPT ![s] = Head(queue[s])]
  /\ sending' = s
  /\ UNCHANGED <<queue, push_ok>>

Drop(s) ==
  /\ sending = s
  /\ queue[s] # <<>>
  /\ queue' = [queue EXCEPT ![s] = Tail(queue[s])]
  /\ sending' = NoSlot
  /\ UNCHANGED <<push_ok, sent>>

Clear(s) ==
  /\ sending = NoSlot
  /\ queue' = [queue EXCEPT ![s] = <<>>]
  /\ UNCHANGED <<push_ok, sending, sent>>

Next ==
  \E s \in Slot : \/ \E r \in Report : Push(s, r)
                  \/ HandOver(s)
                  \/ Drop(s)
                  \/ Clear(s)

Spec == Init /\ [][Next]_fifoVars

===============================================================================
