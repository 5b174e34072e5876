---------------------------- MODULE MCPeripherals ----------------------------
(***************************************************************************)
(* The report queues, the log console and the indicators share no state,   *)
(* so each behaviour runs one of them.  The queues: two slots with rings   *)
(* of three, so that the third push finds one full, and a report that does *)
(* not fit the endpoint.  The log: a ring of three, a message that can go  *)
(* out in two pieces, and counters that wrap at six.  The indicators: a    *)
(* clock that wraps at 27, a window of 8, and timers that drift.  The      *)
(* number of devices only reaches the LED, so the button is pressed        *)
(* without devices, and devices come and go with the window of the start   *)
(* alone, which BTstack opens at any moment.                               *)
(***************************************************************************)
EXTENDS ReportQueue, LogConsole, Indicators

CONSTANTS short, long, key_down, oversized

MCMessage == {short, long}
MCLength == [m \in MCMessage |-> IF m = short THEN 1 ELSE 2]

MCReport == {key_down, oversized}
MCOversized == {oversized}

VARIABLE running   \* which of them

MCInit ==
  /\ running \in {"queues", "log", "button", "led"}
  /\ Init
  /\ LogInit
  /\ IndInit

NoDevice == shown' = 0
NotPressed == ~button_raw_prev'

MCNext ==
  /\ UNCHANGED running
  /\ \/ running = "queues" /\ Next /\ UNCHANGED <<logVars, indVars>>
     \/ running = "log" /\ LogNext /\ UNCHANGED <<vars, indVars>>
     \/ running = "button" /\ IndNext /\ NoDevice /\ UNCHANGED <<vars, logVars>>
     \/ running = "led" /\ IndNext /\ NotPressed /\ UNCHANGED <<vars, logVars>>

MCSpec == MCInit /\ [][MCNext]_<<running, vars, logVars, indVars>>

\* The fairness of ReportQueue, where the queues run: Core 0's loop never blocks, the devices
\* stay in the snapshot, and the host keeps polling.  A port that is open again and again
\* takes bytes again and again.  Nothing is assumed of the indicators.
MCFairSpec ==
  /\ MCSpec
  /\ WF_vars(running = "queues" /\ Core0)
  /\ \A s \in Slot : /\ SF_vars(running = "queues" /\ turn = s /\ Peek)
                     /\ SF_vars(running = "queues" /\ turn = s /\ Transmit)
  /\ WF_logVars(running = "log" /\ LogStage)
  /\ SF_logVars(running = "log" /\ LogFlushSome)

===============================================================================
