------------------------------ MODULE Indicators ------------------------------
(***************************************************************************)
(* The pairing button, the pairing window and the LED (indicators.c and    *)
(* pairing_mode_* of ble_coordinator.c) on BTstack's millisecond clock,    *)
(* an unsigned word that wraps.  Core 1's run loop fires both timers; what *)
(* the window does to the scan is in module Coordinator.                   *)
(***************************************************************************)
EXTENDS Integers, FiniteSets

CONSTANTS
  CLOCK,                      \* 2^32 ms
  BUTTON_POLL_INTERVAL_MS,
  BUTTON_DEBOUNCE_MS,
  LED_TICK_MS,
  LED_PAIRING_BLINK_MS,
  LED_GAP_MS,
  LED_ON_MS,
  LED_OFF_MS,
  PAIRING_MODE_DURATION_MS,
  MaxReady                    \* READY devices, at most MAX_HID_DEVICES

ASSUME IndicatorsAssumption ==
  /\ {CLOCK, BUTTON_POLL_INTERVAL_MS, BUTTON_DEBOUNCE_MS, LED_TICK_MS, LED_PAIRING_BLINK_MS,
      LED_GAP_MS, LED_ON_MS, LED_OFF_MS, PAIRING_MODE_DURATION_MS, MaxReady} \subseteq Nat \ {0}
  /\ BUTTON_DEBOUNCE_MS + BUTTON_POLL_INTERVAL_MS < CLOCK
  /\ LED_TICK_MS < PAIRING_MODE_DURATION_MS
  /\ PAIRING_MODE_DURATION_MS + LED_TICK_MS < CLOCK
  /\ LED_TICK_MS <= LED_ON_MS
  /\ LED_TICK_MS <= LED_OFF_MS
  /\ 2 * LED_TICK_MS <= LED_GAP_MS

Time == 0..(CLOCK - 1)

\* Mutant: the word does not wrap.
LaterUnwrapped(t, ms) == t + ms

\* Unsigned arithmetic.
Later(t, ms) == (t + ms) % CLOCK

Elapsed(from, to) == (to - from) % CLOCK

VARIABLES
  now,                          \* btstack_run_loop_get_time_ms
  button_timer, led_timer,      \* time until each is due
  button_raw_prev, button_stable, button_raw_since_change_ms,
  btstack_ready,                  \* BTstack has come up
  pairing_mode_end_ms, pairing_was_active,
  led,                          \* the LED is on
  since_press,                  \* history: time since the window was last asked for
  raw_age,                      \* history: time since the polls see the present level
  shown,                        \* history: the count the LED has been showing, 0 = none
  dark,                         \* history: for how long the ticks have left it off
  flashes                       \* history: how often it has flashed since the last pause

buttonVars == <<button_timer, button_raw_prev, button_stable, button_raw_since_change_ms>>
windowVars == <<btstack_ready, pairing_mode_end_ms, since_press>>
patternVars == <<shown, dark, flashes>>
indVars == <<now, buttonVars, raw_age, windowVars, led_timer, pairing_was_active, led,
             patternVars>>

\* The histories stop here: no window is this old, and no level waits this long.
LongAgo == PAIRING_MODE_DURATION_MS
Settled == BUTTON_DEBOUNCE_MS + BUTTON_POLL_INTERVAL_MS

\* An LED off for longer than between two flashes pauses.
Pause == LED_OFF_MS + LED_TICK_MS
Uncounted == -1   \* no pause has been seen yet

IndTypeOK ==
  /\ now \in Time
  /\ button_timer \in 0..BUTTON_POLL_INTERVAL_MS
  /\ led_timer \in 0..LED_TICK_MS
  /\ {button_raw_prev, button_stable, btstack_ready, pairing_was_active, led} \subseteq BOOLEAN
  /\ {button_raw_since_change_ms, pairing_mode_end_ms} \subseteq Time
  /\ since_press \in 0..LongAgo
  /\ raw_age \in 0..Settled
  /\ shown \in 0..MaxReady
  /\ dark \in 0..Pause
  /\ flashes \in Uncounted..(MaxReady + 1)

\* indicators_init, and the statics of both files.
IndInit ==
  /\ now = 0
  /\ button_timer = BUTTON_POLL_INTERVAL_MS
  /\ led_timer = LED_TICK_MS
  /\ button_raw_prev = FALSE
  /\ button_stable = FALSE
  /\ button_raw_since_change_ms = 0
  /\ btstack_ready = FALSE
  /\ pairing_mode_end_ms = 0
  /\ pairing_was_active = FALSE
  /\ led = FALSE
  /\ since_press = LongAgo
  /\ raw_age = 0
  /\ shown = 0
  /\ dark = 0
  /\ flashes = Uncounted

-------------------------------------------------------------------------------

\* pairing_mode_active: no difference is taken, the clock is compared with the end.
PairingModeActive == pairing_mode_end_ms # 0 /\ now < pairing_mode_end_ms

\* Mutant: a press while the window is open does not extend it.
PairingModeEnterOnce ==
  /\ pairing_mode_end_ms' = IF PairingModeActive THEN pairing_mode_end_ms
                            ELSE Later(now, PAIRING_MODE_DURATION_MS)
  /\ since_press' = 0

\* pairing_mode_enter
PairingModeEnter ==
  /\ pairing_mode_end_ms' = Later(now, PAIRING_MODE_DURATION_MS)
  /\ since_press' = 0

\* Mutant: the end is left behind when the window has expired.
PairingModeLeft == UNCHANGED pairing_mode_end_ms

\* pairing_mode_exit
PairingModeExit == pairing_mode_end_ms' = 0

\* ble_coordinator_on_btstack_ready opens a first window.
BtstackReady ==
  /\ ~btstack_ready
  /\ btstack_ready' = TRUE
  /\ PairingModeEnter
  /\ UNCHANGED <<now, buttonVars, raw_age, led_timer, pairing_was_active, led, patternVars>>

\* Mutant: a change of level does not restart the debounce window.
RawReadOnly(raw) ==
  /\ button_raw_prev' = raw
  /\ UNCHANGED button_raw_since_change_ms
  /\ raw_age' = IF raw = button_raw_prev THEN raw_age ELSE 0

\* The pin is read.
RawRead(raw) ==
  /\ button_raw_prev' = raw
  /\ button_raw_since_change_ms' = IF raw = button_raw_prev THEN button_raw_since_change_ms ELSE now
  /\ raw_age' = IF raw = button_raw_prev THEN raw_age ELSE 0

\* The level just read is new and has lasted.
ButtonConfirmed ==
  /\ button_raw_prev' # button_stable
  /\ Elapsed(button_raw_since_change_ms', now) >= BUTTON_DEBOUNCE_MS

\* button_timer_handler: a confirmed press opens the window.
ButtonTimer(raw) ==
  /\ button_timer = 0
  /\ RawRead(raw)
  /\ button_stable' = IF ButtonConfirmed THEN raw ELSE button_stable
  /\ IF ButtonConfirmed /\ raw
     THEN PairingModeEnter
     ELSE UNCHANGED <<pairing_mode_end_ms, since_press>>
  /\ button_timer' = BUTTON_POLL_INTERVAL_MS
  /\ UNCHANGED <<now, btstack_ready, led_timer, pairing_was_active, led, patternVars>>

\* Mutant: the pause is left out of the period.
LedPeriodWithoutPause(n) == n * (LED_ON_MS + LED_OFF_MS)

LedPeriod(n) == LED_GAP_MS + n * (LED_ON_MS + LED_OFF_MS)

\* The count pattern at time t: a pause, then n pulses.  led_cycle_start_ms is the
\* time of indicators_init, 0 here.
LedCount(n, t) ==
  LET phase == t % LedPeriod(n) IN
  phase >= LED_GAP_MS /\ (phase - LED_GAP_MS) % (LED_ON_MS + LED_OFF_MS) < LED_ON_MS

LedOn(n, t, pairing) ==
  IF pairing THEN (t \div LED_PAIRING_BLINK_MS) % 2 = 0 ELSE n = 0 \/ LedCount(n, t)

\* What somebody who watches the LED has seen of the pattern for n devices: a pause
\* restarts the count, a change of the count or of the mode restarts everything.
PatternSeen(n) ==
  /\ shown' = IF PairingModeActive THEN 0 ELSE n
  /\ IF shown' = shown /\ shown # 0
     THEN /\ dark' = IF led' THEN 0
                     ELSE IF dark + LED_TICK_MS < Pause THEN dark + LED_TICK_MS ELSE Pause
          /\ flashes' = IF dark' = Pause THEN 0
                        ELSE IF led' /\ ~led /\ flashes \in 0..MaxReady THEN flashes + 1
                        ELSE flashes
     ELSE dark' = 0 /\ flashes' = Uncounted

\* Mutant: with no device the LED is set and the tick returns at once.
LedTimerIdleReturn(n) ==
  /\ led_timer = 0
  /\ IF n # 0 /\ pairing_was_active /\ ~PairingModeActive
     THEN PairingModeExit
     ELSE UNCHANGED pairing_mode_end_ms
  /\ pairing_was_active' = IF n = 0 THEN pairing_was_active ELSE PairingModeActive
  /\ led' = LedOn(n, now, PairingModeActive)
  /\ PatternSeen(n)
  /\ led_timer' = LED_TICK_MS
  /\ UNCHANGED <<now, buttonVars, raw_age, btstack_ready, since_press>>

\* led_timer_handler, with n devices in the snapshot: closes a window it finds expired
\* and sets the LED.
LedTimer(n) ==
  /\ led_timer = 0
  /\ IF pairing_was_active /\ ~PairingModeActive
     THEN PairingModeExit
     ELSE UNCHANGED pairing_mode_end_ms
  /\ pairing_was_active' = PairingModeActive
  /\ led' = LedOn(n, now, PairingModeActive)
  /\ PatternSeen(n)
  /\ led_timer' = LED_TICK_MS
  /\ UNCHANGED <<now, buttonVars, raw_age, btstack_ready, since_press>>

\* A millisecond passes; the run loop lets no timer wait.
ClockTick ==
  /\ button_timer > 0
  /\ led_timer > 0
  /\ now' = Later(now, 1)
  /\ button_timer' = button_timer - 1
  /\ led_timer' = led_timer - 1
  /\ since_press' = IF since_press = LongAgo THEN LongAgo ELSE since_press + 1
  /\ raw_age' = IF raw_age = Settled THEN Settled ELSE raw_age + 1
  /\ shown' = IF now' = 0 THEN 0 ELSE shown
  /\ UNCHANGED <<button_raw_prev, button_stable, button_raw_since_change_ms, btstack_ready,
                 pairing_mode_end_ms, pairing_was_active, led, dark, flashes>>

IndNext ==
  \/ BtstackReady
  \/ \E raw \in BOOLEAN : ButtonTimer(raw)
  \/ \E n \in 0..MaxReady : LedTimer(n)
  \/ ClockTick

IndSpec == IndInit /\ [][IndNext]_indVars

-------------------------------------------------------------------------------
(***************************************************************************)
(* Properties                                                              *)
(***************************************************************************)

\* No window without a request: the window is open only within ten seconds of a
\* press or of the start, also after the clock has wrapped over an end that was set
\* long ago (ble_coordinator.c:204-223, indicators.c:66).  The exception is an end
\* within one LED tick of the wrap, which the tick can miss: just behind it, the end is
\* still there a lap later; just before it, the window stays open for the whole lap.
WindowNeedsPress ==
  /\ PairingModeActive
  /\ pairing_mode_end_ms \in LED_TICK_MS..(CLOCK - LED_TICK_MS)
  => since_press < PAIRING_MODE_DURATION_MS

\* Every request is honoured for its ten seconds, whatever windows it overlaps and
\* whenever the LED tick looks, unless the end falls on or behind the wrap of the
\* clock: there the comparison of line 207 fails it.
PressOpensWindow ==
  /\ since_press < PAIRING_MODE_DURATION_MS
  /\ since_press <= now
  /\ now - since_press + PAIRING_MODE_DURATION_MS < CLOCK
  => PairingModeActive

\* The end of a window is noticed: what expires on its own was seen open by an LED
\* tick, so that the tick behind it resets the end and re-evaluates the scan
\* (indicators.c:63-67), with the exception WindowNeedsPress makes.  Module Coordinator
\* relies on it in WindowExpires.
ExpiryIsNoticed ==
  [][/\ PairingModeActive
     /\ ~PairingModeActive'
     /\ pairing_mode_end_ms' = pairing_mode_end_ms
     /\ pairing_mode_end_ms \in LED_TICK_MS..(CLOCK - LED_TICK_MS)
     => pairing_was_active]_indVars

\* A level is confirmed only if the polls have seen nothing else for the debounce
\* time, and a level they have seen for one poll more is confirmed, on every lap of
\* the clock (indicators.c:97-120).
Debounced ==
  /\ [][button_stable' # button_stable => raw_age >= BUTTON_DEBOUNCE_MS /\ raw_age' = raw_age]_indVars
  /\ [](raw_age = Settled => button_stable = button_raw_prev)

\* The LED tells the number of devices: between two pauses it flashes n times while n
\* devices are READY (src/README.md:58, indicators.c:83-91), whenever the ticks sample
\* the pattern.  A new count, a pairing window and the wrap of the clock, which cuts a
\* period short, start the count afresh.
LedFlashesCount ==
  [][/\ dark < Pause /\ dark' = Pause
     /\ flashes # Uncounted
     => flashes = shown]_indVars

\* docs/troubleshooting.md:9 of the LED: "Steady on | Discovery finished; input is being
\* forwarded."  With a READY device and no pairing window a tick leaves the LED on.
\* The count pattern of indicators.c:83-91 refutes it.
SteadyWhenForwarding ==
  [][\A n \in 1..MaxReady :
       LedTimer(n) /\ btstack_ready /\ ~PairingModeActive => led']_indVars

===============================================================================
