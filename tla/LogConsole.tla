------------------------------ MODULE LogConsole ------------------------------
(***************************************************************************)
(* The serial log (log_console.c): Core 1 pushes messages into a ring      *)
(* under a spinlock, Core 0 pops one at a time into a staging buffer and   *)
(* streams it into the CDC endpoint as the port takes it.                  *)
(*                                                                         *)
(* The ring's indices are free-running counters of a machine word; a       *)
(* message's text is reduced to its length once '\n' is expanded.          *)
(***************************************************************************)
EXTENDS Integers

CONSTANTS
  LOG_CONSOLE_SLOTS,
  WORD,        \* 2^32, one more than the largest counter
  Message,
  Length,      \* bytes of a message in the staging buffer
  NoMessage

\* Every message has a prefix and fits the staging buffer; the counters wrap at a
\* multiple of the ring's size.
ASSUME LogAssumption ==
  /\ LOG_CONSOLE_SLOTS \in Nat \ {0}
  /\ WORD \in Nat
  /\ LOG_CONSOLE_SLOTS < WORD
  /\ WORD % LOG_CONSOLE_SLOTS = 0
  /\ Length \in [Message -> Nat \ {0}]
  /\ NoMessage \notin Message

Counter == 0..(WORD - 1)
Place == 0..(LOG_CONSOLE_SLOTS - 1)

VARIABLES
  log_msg, log_head, log_tail,         \* the ring
  cdc_out, cdc_out_len, cdc_out_pos,   \* the staging buffer
  cdc_connected,                       \* tud_cdc_connected: a terminal has the port open
  printed                              \* the message whose last byte was accepted last

ringVars == <<log_msg, log_head, log_tail>>
stageVars == <<cdc_out, cdc_out_len, cdc_out_pos>>
logVars == <<ringVars, stageVars, cdc_connected, printed>>

\* Messages in the ring, by the unsigned difference of the counters.
Waiting == (log_head - log_tail) % WORD

\* log_console_cdc_pending
Pending == cdc_out_pos < cdc_out_len

LogTypeOK ==
  /\ log_msg \in [Place -> Message \cup {NoMessage}]
  /\ log_head \in Counter
  /\ log_tail \in Counter
  /\ Waiting <= LOG_CONSOLE_SLOTS
  /\ cdc_out \in Message \cup {NoMessage}
  /\ cdc_out_len \in Nat
  /\ cdc_out_pos \in 0..cdc_out_len
  /\ cdc_connected \in BOOLEAN
  /\ printed \in Message \cup {NoMessage}

LogInit ==
  /\ log_msg = [p \in Place |-> NoMessage]
  /\ log_head = 0
  /\ log_tail = 0
  /\ cdc_out = NoMessage
  /\ cdc_out_len = 0
  /\ cdc_out_pos = 0
  /\ cdc_connected = FALSE
  /\ printed = NoMessage

-------------------------------------------------------------------------------

\* Mutant: the ring is found full one message too late.
LogPushLate(m) ==
  /\ log_tail' = IF Waiting > LOG_CONSOLE_SLOTS THEN (log_tail + 1) % WORD ELSE log_tail
  /\ log_msg' = [log_msg EXCEPT ![log_head % LOG_CONSOLE_SLOTS] = m]
  /\ log_head' = (log_head + 1) % WORD
  /\ UNCHANGED <<stageVars, cdc_connected, printed>>

\* Core 1, log_console_push: a full ring gives up its oldest message.
LogPush(m) ==
  /\ log_tail' = IF Waiting >= LOG_CONSOLE_SLOTS THEN (log_tail + 1) % WORD ELSE log_tail
  /\ log_msg' = [log_msg EXCEPT ![log_head % LOG_CONSOLE_SLOTS] = m]
  /\ log_head' = (log_head + 1) % WORD
  /\ UNCHANGED <<stageVars, cdc_connected, printed>>

\* Mutant: the position of the last message is kept.
LoadWithoutReset(m) ==
  /\ cdc_out' = m
  /\ cdc_out_len' = Length[m]
  /\ UNCHANGED cdc_out_pos

\* log_console_cdc_load
Load(m) ==
  /\ cdc_out' = m
  /\ cdc_out_len' = Length[m]
  /\ cdc_out_pos' = 0

\* Core 0, when nothing is pending: log_console_pop and log_console_cdc_load.  Core 1
\* may push between the two, which touch nothing in common after the pop.
LogStage ==
  /\ ~Pending
  /\ log_head # log_tail
  /\ Load(log_msg[log_tail % LOG_CONSOLE_SLOTS])
  /\ log_tail' = (log_tail + 1) % WORD
  /\ UNCHANGED <<log_msg, log_head, cdc_connected, printed>>

\* Mutant: what the endpoint did not take is started again from the first byte.
StreamedFromStart(n) == n

\* The position behind n more bytes.
Streamed(n) == cdc_out_pos + n

\* log_console_cdc_flush: the endpoint takes n bytes in all before it is full.
LogFlush(n) ==
  /\ cdc_connected
  /\ Pending
  /\ cdc_out_pos' = Streamed(n)
  /\ printed' = IF cdc_out_pos' = cdc_out_len THEN cdc_out ELSE printed
  /\ UNCHANGED <<ringVars, cdc_out, cdc_out_len, cdc_connected>>

\* log_console_cdc_reset, before Core 0 disconnects from the bus: the message is
\* discarded, also when no byte of it has gone out.
LogReset ==
  /\ cdc_out_len' = 0
  /\ cdc_out_pos' = 0
  /\ UNCHANGED <<ringVars, cdc_out, cdc_connected, printed>>

\* The host opens or closes the port, or the bus goes away under it.
PortChanges ==
  /\ cdc_connected' = ~cdc_connected
  /\ UNCHANGED <<ringVars, stageVars, printed>>

\* The endpoint takes some of what is pending.
LogFlushSome == \E n \in 1..(cdc_out_len - cdc_out_pos) : LogFlush(n)

LogNext ==
  \/ \E m \in Message : LogPush(m)
  \/ LogStage
  \/ LogFlushSome
  \/ LogReset
  \/ PortChanges

LogSpec == LogInit /\ [][LogNext]_logVars

-------------------------------------------------------------------------------
(***************************************************************************)
(* Properties                                                              *)
(***************************************************************************)

Fifo ==
  INSTANCE LossyFifo WITH
    Capacity <- LOG_CONSOLE_SLOTS,
    queue <- [k \in 1..Waiting |-> log_msg[(log_tail + k - 1) % LOG_CONSOLE_SLOTS]],
    staged <- IF Pending THEN cdc_out ELSE NoMessage

\* Messages come out whole, in order and once, whatever the wrapped counters are and
\* however the port takes their bytes; what a full ring loses is its oldest message
\* and what a disconnection loses is the staged one (log_console.c:35-127).
ImplementsLossyFifo == Fifo!Spec

\* The log never jams: while a terminal opens the port again and again, a staged
\* message gets out of the way of the next one and a waiting one gets its turn.
LogDrains ==
  []<>cdc_connected =>
    /\ Pending ~> ~Pending
    /\ log_head # log_tail ~> Pending

===============================================================================
