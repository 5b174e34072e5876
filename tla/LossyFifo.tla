------------------------------ MODULE LossyFifo ------------------------------
(***************************************************************************)
(* What log_console.h promises: a bounded FIFO of whole messages that      *)
(* drops its oldest one when it is full, and a message on its way to the   *)
(* serial port that is either printed to the end or, when Core 0           *)
(* re-enumerates, given up.  Module LogConsole implements it.              *)
(***************************************************************************)
EXTENDS Naturals, Sequences

CONSTANTS
  Capacity,   \* messages retained
  Message,
  NoMessage

VARIABLES
  queue,     \* messages waiting, oldest first
  staged,    \* the message on its way, NoMessage if none
  printed    \* the message that has gone out whole last

Init ==
  /\ queue = << >>
  /\ staged = NoMessage
  /\ printed = NoMessage

\* The most recent messages are kept.
Push(m) ==
  /\ queue' = Append(IF Len(queue) = Capacity THEN Tail(queue) ELSE queue, m)
  /\ UNCHANGED <<staged, printed>>

Take ==
  /\ staged = NoMessage
  /\ queue # << >>
  /\ staged' = Head(queue)
  /\ queue' = Tail(queue)
  /\ UNCHANGED printed

Finish ==
  /\ staged # NoMessage
  /\ printed' = staged
  /\ staged' = NoMessage
  /\ UNCHANGED queue

GiveUp ==
  /\ staged' = NoMessage
  /\ UNCHANGED <<queue, printed>>

Next == Take \/ Finish \/ GiveUp \/ \E m \in Message : Push(m)

Spec == Init /\ [][Next]_<<queue, staged, printed>>

===============================================================================
