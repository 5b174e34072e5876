--------------------------- MODULE IndicatorsProofs ---------------------------
(***************************************************************************)
(* The pairing window keeps its ten seconds, needs a request and is seen   *)
(* to end; the button is debounced; the LED flashes the count: for timers, *)
(* durations and clocks of any length.                                     *)
(***************************************************************************)
EXTENDS Indicators, Remainders

-------------------------------------------------------------------------------
(***************************************************************************)
(* The clock                                                               *)
(***************************************************************************)

LEMMA Durations ==
  /\ CLOCK \in Nat \ {0}
  /\ BUTTON_POLL_INTERVAL_MS \in Nat \ {0} /\ BUTTON_DEBOUNCE_MS \in Nat \ {0}
  /\ LED_TICK_MS \in Nat \ {0} /\ PAIRING_MODE_DURATION_MS \in Nat \ {0}
  /\ BUTTON_DEBOUNCE_MS + BUTTON_POLL_INTERVAL_MS < CLOCK
  /\ LED_TICK_MS < PAIRING_MODE_DURATION_MS
  /\ PAIRING_MODE_DURATION_MS + LED_TICK_MS < CLOCK
  BY IndicatorsAssumption

LEMMA Lights ==
  /\ LED_TICK_MS \in Nat \ {0}
  /\ LED_GAP_MS \in Nat \ {0} /\ LED_ON_MS \in Nat \ {0} /\ LED_OFF_MS \in Nat \ {0}
  /\ MaxReady \in Nat \ {0}
  /\ LED_TICK_MS <= LED_ON_MS /\ LED_TICK_MS <= LED_OFF_MS
  /\ 2 * LED_TICK_MS <= LED_GAP_MS
  /\ Pause \in Nat \ {0} /\ Pause = LED_OFF_MS + LED_TICK_MS
  /\ Uncounted = -1
  BY IndicatorsAssumption DEF Pause, Uncounted

LEMMA Wrapped ==
  ASSUME NEW a \in Int, -CLOCK <= a, a < CLOCK + CLOCK
  PROVE  a % CLOCK = IF a < 0 THEN a + CLOCK ELSE IF a < CLOCK THEN a ELSE a - CLOCK
<1>0. CLOCK \in Nat \ {0}
  BY Durations
<1>1. CASE a < 0
  <2>1. a + CLOCK \in 0..(CLOCK - 1) /\ -1 \in Int
    BY <1>0, <1>1
  <2>2. (CLOCK * (-1) + (a + CLOCK)) % CLOCK = a + CLOCK
    BY <1>0, <2>1, RemainderUnique
  <2>3. CLOCK * (-1) + (a + CLOCK) = a
    BY <1>0
  <2> QED
    BY <1>1, <2>2, <2>3
<1>2. CASE 0 <= a /\ a < CLOCK
  <2>1. a \in 0..(CLOCK - 1) /\ 0 \in Int
    BY <1>0, <1>2
  <2>2. (CLOCK * 0 + a) % CLOCK = a
    BY <1>0, <2>1, RemainderUnique
  <2>3. CLOCK * 0 + a = a
    BY <1>0
  <2> QED
    BY <1>2, <2>2, <2>3
<1>3. CASE CLOCK <= a
  <2>1. a - CLOCK \in 0..(CLOCK - 1) /\ 1 \in Int
    BY <1>0, <1>3
  <2>2. (CLOCK * 1 + (a - CLOCK)) % CLOCK = a - CLOCK
    BY <1>0, <2>1, RemainderUnique
  <2>3. CLOCK * 1 + (a - CLOCK) = a
    BY <1>0
  <2> QED
    BY <1>0, <1>3, <2>2, <2>3
<1> QED
  BY <1>0, <1>1, <1>2, <1>3

LEMMA LaterIs ==
  ASSUME NEW t \in Time, NEW ms \in 0..(CLOCK - 1)
  PROVE  /\ Later(t, ms) = IF t + ms < CLOCK THEN t + ms ELSE t + ms - CLOCK
         /\ Later(t, ms) \in Time
<1>1. /\ t + ms \in Int /\ 0 <= t + ms /\ t + ms < CLOCK + CLOCK /\ -CLOCK <= t + ms
      /\ CLOCK \in Nat /\ ~(t + ms < 0)
  BY Durations DEF Time
<1> DEFINE a == t + ms
<1>2. a % CLOCK = IF a < 0 THEN a + CLOCK ELSE IF a < CLOCK THEN a ELSE a - CLOCK
  <2> HIDE DEF a
  <2>1. a \in Int /\ -CLOCK <= a /\ a < CLOCK + CLOCK
    BY <1>1 DEF a
  <2> QED
    BY <2>1, Wrapped
<1>3. Later(t, ms) = IF t + ms < CLOCK THEN t + ms ELSE t + ms - CLOCK
  <2>1. Later(t, ms) = a % CLOCK
    BY DEF Later
  <2>2. Later(t, ms) = IF a < 0 THEN a + CLOCK ELSE IF a < CLOCK THEN a ELSE a - CLOCK
    BY <2>1, <1>2, Zenon
  <2> QED
    BY <1>1, <2>2 DEF Time
<1> QED
  BY <1>1, <1>3 DEF Time

LEMMA ElapsedIs ==
  ASSUME NEW from \in Time, NEW to \in Time
  PROVE  /\ Elapsed(from, to) = IF from <= to THEN to - from ELSE to - from + CLOCK
         /\ Elapsed(from, to) \in Time
<1>1. /\ to - from \in Int /\ -CLOCK <= to - from /\ to - from < CLOCK + CLOCK
      /\ to - from < CLOCK /\ CLOCK \in Nat
  BY Durations DEF Time
<1>2. Elapsed(from, to) = IF from <= to THEN to - from ELSE to - from + CLOCK
  BY <1>1, Wrapped DEF Elapsed, Time
<1> QED
  BY <1>1, <1>2 DEF Time

-------------------------------------------------------------------------------
(***************************************************************************)
(* Types                                                                   *)
(***************************************************************************)

LEMMA EnterType ==
  ASSUME IndTypeOK, PairingModeEnter
  PROVE  pairing_mode_end_ms' \in Time /\ since_press' \in 0..LongAgo
<1>1. PAIRING_MODE_DURATION_MS \in 0..(CLOCK - 1)
  BY Durations
<1> QED
  BY <1>1, LaterIs, Durations DEF IndTypeOK, PairingModeEnter, LongAgo

LEMMA ActiveType == PairingModeActive \in BOOLEAN
  BY DEF PairingModeActive

LEMMA LedOnType ==
  ASSUME NEW n \in 0..MaxReady, NEW t \in Time, NEW pairing \in BOOLEAN
  PROVE  LedOn(n, t, pairing) \in BOOLEAN
  BY DEF LedOn, LedCount

LEMMA PatternType ==
  ASSUME IndTypeOK, led' \in BOOLEAN, NEW n \in 0..MaxReady, PatternSeen(n)
  PROVE  /\ shown' \in 0..MaxReady
         /\ dark' \in 0..Pause
         /\ flashes' \in Uncounted..(MaxReady + 1)
<1>0. /\ dark \in Int /\ 0 <= dark /\ dark <= Pause
      /\ flashes \in Uncounted..(MaxReady + 1)
  BY Lights DEF IndTypeOK
<1>1. shown' \in 0..MaxReady
  BY Lights DEF PatternSeen
<1>2. CASE shown' = shown /\ shown # 0
  <2>1. dark' \in 0..Pause
    BY <1>0, <1>2, Lights DEF PatternSeen
  <2>2. flashes' \in Uncounted..(MaxReady + 1)
    BY <1>0, <1>2, Lights DEF PatternSeen
  <2> QED
    BY <1>1, <2>1, <2>2
<1>3. CASE ~(shown' = shown /\ shown # 0)
  <2>1. dark' = 0 /\ flashes' = Uncounted
    BY <1>3 DEF PatternSeen
  <2> QED
    BY <1>1, <2>1, Lights
<1> QED
  BY <1>2, <1>3

LEMMA TypeStep == IndTypeOK /\ [IndNext]_indVars => IndTypeOK'
<1> SUFFICES ASSUME IndTypeOK, [IndNext]_indVars PROVE IndTypeOK'
  OBVIOUS
<1>1. CASE BtstackReady
  <2>1. pairing_mode_end_ms' \in Time /\ since_press' \in 0..LongAgo
    BY <1>1, EnterType DEF BtstackReady
  <2> QED
    BY <1>1, <2>1 DEF BtstackReady, IndTypeOK, buttonVars, patternVars
<1>2. ASSUME NEW raw \in BOOLEAN, ButtonTimer(raw) PROVE IndTypeOK'
  <2>1. pairing_mode_end_ms' \in Time /\ since_press' \in 0..LongAgo
    <3>1. CASE ButtonConfirmed /\ raw
      BY <1>2, <3>1, EnterType DEF ButtonTimer
    <3>2. CASE ~(ButtonConfirmed /\ raw)
      BY <1>2, <3>2 DEF ButtonTimer, IndTypeOK
    <3> QED
      BY <3>1, <3>2
  <2>2. button_raw_prev' \in BOOLEAN /\ button_stable' \in BOOLEAN
    BY <1>2 DEF ButtonTimer, RawRead, IndTypeOK
  <2>3. button_raw_since_change_ms' \in Time /\ raw_age' \in 0..Settled
    <3>1. 0 \in 0..Settled
      BY Durations DEF Settled
    <3> QED
      BY <1>2, <3>1 DEF ButtonTimer, RawRead, IndTypeOK
  <2>4. button_timer' \in 0..BUTTON_POLL_INTERVAL_MS
    BY <1>2, Durations DEF ButtonTimer
  <2> QED
    BY <1>2, <2>1, <2>2, <2>3, <2>4 DEF ButtonTimer, IndTypeOK, patternVars
<1>3. ASSUME NEW n \in 0..MaxReady, LedTimer(n) PROVE IndTypeOK'
  <2>1. pairing_mode_end_ms' \in Time
    BY <1>3, Durations DEF LedTimer, PairingModeExit, IndTypeOK, Time
  <2>2. led_timer' \in 0..LED_TICK_MS
    BY <1>3, Durations DEF LedTimer
  <2>3. pairing_was_active' \in BOOLEAN
    BY <1>3, ActiveType DEF LedTimer
  <2>4. led' \in BOOLEAN
    BY <1>3, ActiveType, LedOnType DEF LedTimer, IndTypeOK
  <2>5. /\ shown' \in 0..MaxReady /\ dark' \in 0..Pause
        /\ flashes' \in Uncounted..(MaxReady + 1)
    BY <1>3, <2>4, PatternType DEF LedTimer
  <2> QED
    BY <1>3, <2>1, <2>2, <2>3, <2>4, <2>5 DEF LedTimer, IndTypeOK, buttonVars
<1>4. CASE ClockTick
  <2>1. now' \in Time
    <3>1. 1 \in 0..(CLOCK - 1)
      BY Durations
    <3> QED
      BY <1>4, <3>1, LaterIs DEF ClockTick, IndTypeOK
  <2>2. button_timer' \in 0..BUTTON_POLL_INTERVAL_MS /\ led_timer' \in 0..LED_TICK_MS
    BY <1>4, Durations DEF ClockTick, IndTypeOK
  <2>3. since_press' \in 0..LongAgo /\ raw_age' \in 0..Settled
    BY <1>4, Durations DEF ClockTick, IndTypeOK, LongAgo, Settled
  <2>4. shown' \in 0..MaxReady
    BY <1>4, Lights DEF ClockTick, IndTypeOK
  <2> QED
    BY <1>4, <2>1, <2>2, <2>3, <2>4 DEF ClockTick, IndTypeOK
<1>5. CASE UNCHANGED indVars
  BY <1>5 DEF indVars, buttonVars, windowVars, patternVars, IndTypeOK
<1> QED
  BY <1>1, <1>2, <1>3, <1>4, <1>5 DEF IndNext

-------------------------------------------------------------------------------
(***************************************************************************)
(* The pairing window.  A press fixes the end; the clock reaches it when   *)
(* the press has aged for the duration; an LED tick has come in between.   *)
(***************************************************************************)

\* The ends an LED tick cannot miss, neither before the wrap nor behind it.
EndAwayFromWrap == pairing_mode_end_ms \in LED_TICK_MS..(CLOCK - LED_TICK_MS)

\* An end that a recent press has set is as far off as the press is young.
EndFollowsPress ==
  pairing_mode_end_ms # 0 /\ since_press < PAIRING_MODE_DURATION_MS =>
    pairing_mode_end_ms = Later(now, PAIRING_MODE_DURATION_MS - since_press)

\* An end that outlives its press has passed less than a tick ago, was seen by the tick
\* before, and is reset by the next.
StaleEndIsFresh ==
  EndAwayFromWrap /\ since_press = PAIRING_MODE_DURATION_MS =>
    /\ pairing_was_active
    /\ pairing_mode_end_ms <= now
    /\ now - pairing_mode_end_ms + led_timer < LED_TICK_MS

\* A window no tick has seen yet lasts beyond the next tick.
UnseenWindowLasts ==
  EndAwayFromWrap /\ PairingModeActive /\ since_press < PAIRING_MODE_DURATION_MS =>
    pairing_was_active \/ now + led_timer < pairing_mode_end_ms

\* An end that does not wrap stays what the last press set.
EndIsKept ==
  /\ since_press < PAIRING_MODE_DURATION_MS
  /\ since_press <= now
  /\ now - since_press + PAIRING_MODE_DURATION_MS < CLOCK
  => pairing_mode_end_ms = now - since_press + PAIRING_MODE_DURATION_MS

WindowInv ==
  /\ IndTypeOK
  /\ EndFollowsPress
  /\ StaleEndIsFresh
  /\ UnseenWindowLasts
  /\ EndIsKept

LEMMA WindowInit == IndInit => WindowInv
<1> SUFFICES ASSUME IndInit PROVE WindowInv
  OBVIOUS
<1>1. IndTypeOK
  <2>1. 0 \in Time /\ 0 \in 0..Settled /\ LongAgo \in 0..LongAgo
    BY Durations DEF Time, LongAgo, Settled
  <2>2. /\ BUTTON_POLL_INTERVAL_MS \in 0..BUTTON_POLL_INTERVAL_MS
        /\ LED_TICK_MS \in 0..LED_TICK_MS
    BY Durations
  <2>3. 0 \in 0..MaxReady /\ 0 \in 0..Pause /\ Uncounted \in Uncounted..(MaxReady + 1)
    BY Lights
  <2> QED
    BY <2>1, <2>2, <2>3 DEF IndInit, IndTypeOK
<1>2. pairing_mode_end_ms = 0 /\ since_press = PAIRING_MODE_DURATION_MS
  BY DEF IndInit, LongAgo
<1> QED
  BY <1>1, <1>2, Durations DEF WindowInv, EndFollowsPress, StaleEndIsFresh, UnseenWindowLasts,
     EndIsKept, EndAwayFromWrap, PairingModeActive

\* A window that is asked for starts afresh.
LEMMA WindowEntered ==
  ASSUME IndTypeOK, IndTypeOK', PairingModeEnter, UNCHANGED <<now, led_timer>>
  PROVE  WindowInv'
<1> DEFINE end == Later(now, PAIRING_MODE_DURATION_MS)
<1>1. /\ pairing_mode_end_ms' = end /\ since_press' = 0 /\ now' = now /\ led_timer' = led_timer
      /\ now \in Int /\ 0 <= now /\ led_timer \in Int /\ led_timer <= LED_TICK_MS
  BY Durations DEF PairingModeEnter, IndTypeOK, Time
<1>2. end = IF now + PAIRING_MODE_DURATION_MS < CLOCK THEN now + PAIRING_MODE_DURATION_MS
                                                      ELSE now + PAIRING_MODE_DURATION_MS - CLOCK
  <2>1. PAIRING_MODE_DURATION_MS \in 0..(CLOCK - 1) /\ now \in Time
    BY Durations DEF IndTypeOK
  <2> QED
    BY <2>1, LaterIs
<1> HIDE DEF end
<1>3. EndFollowsPress'
  <2>1. PAIRING_MODE_DURATION_MS - since_press' = PAIRING_MODE_DURATION_MS
    BY <1>1, Durations
  <2> QED
    BY <1>1, <2>1 DEF EndFollowsPress, end
<1>4. StaleEndIsFresh'
  BY <1>1, Durations DEF StaleEndIsFresh
<1>5. UnseenWindowLasts'
  BY <1>1, <1>2, Durations DEF UnseenWindowLasts, PairingModeActive
<1>6. EndIsKept'
  BY <1>1, <1>2, Durations DEF EndIsKept
<1> QED
  BY <1>3, <1>4, <1>5, <1>6 DEF WindowInv

\* What the invariant reads.
windowState == <<now, led_timer, pairing_was_active, pairing_mode_end_ms, since_press>>

LEMMA WindowUndisturbed ==
  ASSUME WindowInv, IndTypeOK', UNCHANGED windowState
  PROVE  WindowInv'
  BY DEF WindowInv, EndFollowsPress, StaleEndIsFresh, UnseenWindowLasts, EndIsKept,
     EndAwayFromWrap, PairingModeActive, windowState

LEMMA WindowTicked ==
  ASSUME WindowInv, IndTypeOK', NEW n \in 0..MaxReady, LedTimer(n)
  PROVE  WindowInv'
<1>1. /\ UNCHANGED <<now, since_press>>
      /\ now \in Int /\ 0 <= now /\ since_press \in Int
      /\ since_press <= PAIRING_MODE_DURATION_MS /\ pairing_mode_end_ms \in Int
      /\ led_timer = 0 /\ led_timer' = LED_TICK_MS
      /\ pairing_was_active' = PairingModeActive
  BY Durations DEF WindowInv, IndTypeOK, Time, LedTimer, LongAgo
<1>2. CASE pairing_was_active /\ ~PairingModeActive
  <2>1. pairing_mode_end_ms' = 0
    BY <1>2 DEF LedTimer, PairingModeExit
  <2>2. EndIsKept'
    <3>1. ~(/\ since_press < PAIRING_MODE_DURATION_MS
            /\ since_press <= now
            /\ now - since_press + PAIRING_MODE_DURATION_MS < CLOCK)
      BY <1>1, <1>2, Durations DEF WindowInv, EndIsKept, PairingModeActive
    <3> QED
      BY <1>1, <3>1 DEF EndIsKept
  <2> QED
    BY <2>1, <2>2, Durations DEF WindowInv, EndFollowsPress, StaleEndIsFresh,
       UnseenWindowLasts, EndAwayFromWrap, PairingModeActive
<1>3. CASE ~(pairing_was_active /\ ~PairingModeActive)
  <2>1. pairing_mode_end_ms' = pairing_mode_end_ms
    BY <1>3 DEF LedTimer
  <2>2. PairingModeActive' <=> PairingModeActive
    BY <1>1, <2>1 DEF PairingModeActive
  <2>3. StaleEndIsFresh'
    <3>1. ~(EndAwayFromWrap /\ since_press = PAIRING_MODE_DURATION_MS)
      <4> SUFFICES ASSUME EndAwayFromWrap, since_press = PAIRING_MODE_DURATION_MS PROVE FALSE
        OBVIOUS
      <4>1. pairing_was_active /\ pairing_mode_end_ms <= now
        BY DEF WindowInv, StaleEndIsFresh
      <4> QED
        BY <1>1, <1>3, <4>1 DEF PairingModeActive
    <3> QED
      BY <1>1, <2>1, <3>1 DEF StaleEndIsFresh, EndAwayFromWrap
  <2>4. UnseenWindowLasts'
    BY <1>1, <2>2 DEF UnseenWindowLasts
  <2> QED
    BY <1>1, <2>1, <2>3, <2>4 DEF WindowInv, EndFollowsPress, EndIsKept
<1> QED
  BY <1>2, <1>3

LEMMA WindowAged ==
  ASSUME WindowInv, IndTypeOK', ClockTick
  PROVE  WindowInv'
<1> DEFINE D == PAIRING_MODE_DURATION_MS
<1>0. /\ CLOCK \in Int /\ 0 < CLOCK /\ LED_TICK_MS \in Int /\ 0 < LED_TICK_MS
      /\ D \in Int /\ LED_TICK_MS < D /\ D + LED_TICK_MS < CLOCK
  BY Durations
<1>1. /\ now \in Int /\ 0 <= now /\ now < CLOCK
      /\ led_timer \in Int /\ 0 < led_timer /\ led_timer <= LED_TICK_MS
      /\ since_press \in Int /\ 0 <= since_press /\ since_press <= D
      /\ pairing_mode_end_ms \in Int /\ 0 <= pairing_mode_end_ms /\ pairing_mode_end_ms < CLOCK
  BY <1>0 DEF WindowInv, IndTypeOK, Time, LongAgo, ClockTick
<1>2. /\ led_timer' = led_timer - 1
      /\ since_press' = IF since_press = D THEN D ELSE since_press + 1
      /\ UNCHANGED <<pairing_mode_end_ms, pairing_was_active>>
  BY DEF ClockTick, LongAgo
<1>3. now' = IF now + 1 < CLOCK THEN now + 1 ELSE 0
  <2>1. 1 \in 0..(CLOCK - 1) /\ now \in Time
    BY <1>0 DEF WindowInv, IndTypeOK
  <2>2. Later(now, 1) = IF now + 1 < CLOCK THEN now + 1 ELSE now + 1 - CLOCK
    BY <2>1, LaterIs
  <2> QED
    BY <1>0, <1>1, <2>2 DEF ClockTick
\* The end, as the press set it.
<1>4. CASE pairing_mode_end_ms # 0 /\ since_press < D
  <2>1. pairing_mode_end_ms =
          IF now + (D - since_press) < CLOCK THEN now + (D - since_press)
                                             ELSE now + (D - since_press) - CLOCK
    <3>1. D - since_press \in 0..(CLOCK - 1) /\ now \in Time
      BY <1>0, <1>1, <1>4 DEF WindowInv, IndTypeOK
    <3>2. pairing_mode_end_ms = Later(now, D - since_press)
      BY <1>4 DEF WindowInv, EndFollowsPress
    <3> QED
      BY <3>1, <3>2, LaterIs
  <2>2. since_press' = since_press + 1
    BY <1>1, <1>2, <1>4
  <2>3. EndFollowsPress'
    <3>1. D - since_press' \in 0..(CLOCK - 1) /\ now' \in Time
      BY <1>0, <1>1, <1>4, <2>2 DEF IndTypeOK
    <3>2. Later(now', D - since_press') =
            IF now' + (D - since_press') < CLOCK THEN now' + (D - since_press')
                                                 ELSE now' + (D - since_press') - CLOCK
      BY <3>1, LaterIs
    <3>3. Later(now', D - since_press') = pairing_mode_end_ms'
      BY <1>0, <1>1, <1>2, <1>3, <1>4, <2>1, <2>2, <3>2
    <3> QED
      BY <3>3 DEF EndFollowsPress
  <2>4. StaleEndIsFresh'
    <3> SUFFICES ASSUME EndAwayFromWrap, since_press' = D
                 PROVE  /\ pairing_was_active
                        /\ pairing_mode_end_ms <= now'
                        /\ now' - pairing_mode_end_ms + led_timer' < LED_TICK_MS
      BY <1>2 DEF StaleEndIsFresh, EndAwayFromWrap
    <3>1. LED_TICK_MS <= pairing_mode_end_ms
      BY <1>0, <1>1 DEF EndAwayFromWrap
    <3>2. now + 1 = pairing_mode_end_ms /\ now' = pairing_mode_end_ms
      BY <1>0, <1>1, <1>3, <2>1, <2>2, <3>1
    <3>3. PairingModeActive
      BY <1>1, <1>4, <3>2 DEF PairingModeActive
    <3>4. pairing_was_active
      BY <1>1, <1>4, <3>2, <3>3 DEF WindowInv, UnseenWindowLasts
    <3> QED
      BY <1>0, <1>1, <1>2, <3>2, <3>4
  <2>5. UnseenWindowLasts'
    <3> SUFFICES ASSUME EndAwayFromWrap, now' < pairing_mode_end_ms, ~pairing_was_active
                 PROVE  now' + led_timer' < pairing_mode_end_ms
      BY <1>2 DEF UnseenWindowLasts, EndAwayFromWrap, PairingModeActive
    <3>1. LED_TICK_MS <= pairing_mode_end_ms
      BY <1>0, <1>1 DEF EndAwayFromWrap
    <3>2. CASE now + 1 < CLOCK
      <4>1. PairingModeActive
        BY <1>1, <1>3, <1>4, <3>2 DEF PairingModeActive
      <4>2. now + led_timer < pairing_mode_end_ms
        BY <1>4, <4>1 DEF WindowInv, UnseenWindowLasts
      <4> QED
        BY <1>1, <1>2, <1>3, <3>2, <4>2
    <3>3. CASE ~(now + 1 < CLOCK)
      BY <1>0, <1>1, <1>2, <1>3, <3>1, <3>3
    <3> QED
      BY <3>2, <3>3
  <2>6. EndIsKept'
    BY <1>0, <1>1, <1>2, <1>3, <2>2 DEF WindowInv, EndIsKept
  <2> QED
    BY <2>3, <2>4, <2>5, <2>6 DEF WindowInv
\* No end, or one whose press is long ago.
<1>5. CASE ~(pairing_mode_end_ms # 0 /\ since_press < D)
  <2>1. EndFollowsPress'
    BY <1>0, <1>1, <1>2, <1>5 DEF EndFollowsPress
  <2>2. StaleEndIsFresh'
    <3> SUFFICES ASSUME EndAwayFromWrap, since_press' = D
                 PROVE  /\ pairing_was_active
                        /\ pairing_mode_end_ms <= now'
                        /\ now' - pairing_mode_end_ms + led_timer' < LED_TICK_MS
      BY <1>2 DEF StaleEndIsFresh, EndAwayFromWrap
    <3>1. LED_TICK_MS <= pairing_mode_end_ms /\ pairing_mode_end_ms <= CLOCK - LED_TICK_MS
      BY <1>0, <1>1 DEF EndAwayFromWrap
    <3>2. since_press = D
      BY <1>0, <1>1, <1>5, <3>1
    <3>3. /\ pairing_was_active
          /\ pairing_mode_end_ms <= now
          /\ now - pairing_mode_end_ms + led_timer < LED_TICK_MS
      BY <3>2 DEF WindowInv, StaleEndIsFresh
    <3>4. now + 1 < CLOCK
      BY <1>0, <1>1, <3>1, <3>3
    <3> QED
      BY <1>1, <1>2, <1>3, <3>3, <3>4
  <2>3. UnseenWindowLasts'
    <3>1. ~(EndAwayFromWrap /\ since_press' < D)
      BY <1>0, <1>1, <1>2, <1>5 DEF EndAwayFromWrap
    <3> QED
      BY <1>2, <3>1 DEF UnseenWindowLasts, EndAwayFromWrap
  <2>4. EndIsKept'
    BY <1>0, <1>1, <1>2, <1>3, <1>5 DEF WindowInv, EndIsKept
  <2> QED
    BY <2>1, <2>2, <2>3, <2>4 DEF WindowInv
<1> QED
  BY <1>4, <1>5

LEMMA WindowStep == WindowInv /\ [IndNext]_indVars => WindowInv'
<1> SUFFICES ASSUME WindowInv, [IndNext]_indVars PROVE WindowInv'
  OBVIOUS
<1>0. IndTypeOK /\ IndTypeOK'
  BY TypeStep DEF WindowInv
<1>1. CASE BtstackReady
  BY <1>0, <1>1, WindowEntered DEF BtstackReady
<1>2. ASSUME NEW raw \in BOOLEAN, ButtonTimer(raw) PROVE WindowInv'
  <2>1. CASE ButtonConfirmed /\ raw
    BY <1>0, <1>2, <2>1, WindowEntered DEF ButtonTimer
  <2>2. CASE ~(ButtonConfirmed /\ raw)
    BY <1>0, <1>2, <2>2, WindowUndisturbed DEF ButtonTimer, windowState
  <2> QED
    BY <2>1, <2>2
<1>3. ASSUME NEW n \in 0..MaxReady, LedTimer(n) PROVE WindowInv'
  BY <1>0, <1>3, WindowTicked
<1>4. CASE ClockTick
  BY <1>0, <1>4, WindowAged
<1>5. CASE UNCHANGED indVars
  BY <1>0, <1>5, WindowUndisturbed DEF indVars, windowVars, windowState
<1> QED
  BY <1>1, <1>2, <1>3, <1>4, <1>5 DEF IndNext

THEOREM WindowInvariance == IndSpec => []WindowInv
<1>1. IndInit => WindowInv
  BY WindowInit
<1>2. WindowInv /\ [IndNext]_indVars => WindowInv'
  BY WindowStep
<1> QED
  BY <1>1, <1>2, PTL DEF IndSpec

\* The statics and timers stay within their ranges, the clock and the end of the
\* window within the clock's word (indicators.c, ble_coordinator.c:204-223).
THEOREM IndicatorsTyped == IndSpec => []IndTypeOK
<1>1. WindowInv => IndTypeOK
  BY DEF WindowInv
<1> QED
  BY <1>1, WindowInvariance, PTL

\* An open window was asked for within the last ten seconds, unless its end is within
\* an LED tick of the clock's wrap.
THEOREM WindowAskedFor == IndSpec => []WindowNeedsPress
<1>1. WindowInv => WindowNeedsPress
  <2> SUFFICES ASSUME WindowInv, PairingModeActive, EndAwayFromWrap,
                      ~(since_press < PAIRING_MODE_DURATION_MS)
               PROVE  FALSE
    BY DEF WindowNeedsPress, EndAwayFromWrap
  <2>1. since_press = PAIRING_MODE_DURATION_MS
    BY Durations DEF WindowInv, IndTypeOK, LongAgo
  <2>2. pairing_mode_end_ms <= now
    BY <2>1 DEF WindowInv, StaleEndIsFresh
  <2> QED
    BY <2>2, Durations DEF WindowInv, IndTypeOK, Time, PairingModeActive
<1> QED
  BY <1>1, WindowInvariance, PTL

\* Every request is honoured for its ten seconds, unless the end is on or behind the wrap.
THEOREM RequestHonoured == IndSpec => []PressOpensWindow
<1>1. WindowInv => PressOpensWindow
  BY Durations DEF WindowInv, IndTypeOK, Time, LongAgo, EndIsKept, PressOpensWindow,
     PairingModeActive
<1> QED
  BY <1>1, WindowInvariance, PTL

\* A window that expires has been seen open by an LED tick, unless its end is within a
\* tick of the clock's wrap.
THEOREM ExpiryNoticed == IndSpec => ExpiryIsNoticed
<1>1. WindowInv /\ [IndNext]_indVars =>
        [/\ PairingModeActive
         /\ ~PairingModeActive'
         /\ pairing_mode_end_ms' = pairing_mode_end_ms
         /\ pairing_mode_end_ms \in LED_TICK_MS..(CLOCK - LED_TICK_MS)
         => pairing_was_active]_indVars
  <2> SUFFICES ASSUME WindowInv, IndNext, PairingModeActive, ~PairingModeActive',
                      pairing_mode_end_ms' = pairing_mode_end_ms, EndAwayFromWrap,
                      ~pairing_was_active
               PROVE  FALSE
    BY DEF EndAwayFromWrap
  <2>1. now' # now
    BY DEF PairingModeActive
  <2>2. ClockTick
    BY <2>1 DEF IndNext, BtstackReady, ButtonTimer, LedTimer
  <2>3. /\ now \in Int /\ 0 <= now /\ now < CLOCK /\ CLOCK \in Int /\ 1 < CLOCK /\ now \in Time
        /\ led_timer \in Int /\ 0 < led_timer
        /\ pairing_mode_end_ms \in Int /\ 0 < pairing_mode_end_ms
        /\ since_press \in Int /\ since_press <= PAIRING_MODE_DURATION_MS
    BY <2>2, Durations DEF WindowInv, IndTypeOK, Time, LongAgo, ClockTick, EndAwayFromWrap
  <2>4. since_press < PAIRING_MODE_DURATION_MS
    BY <2>3, Durations DEF WindowInv, StaleEndIsFresh
  <2>5. now + led_timer < pairing_mode_end_ms
    BY <2>4 DEF WindowInv, UnseenWindowLasts
  <2>6. now' = IF now + 1 < CLOCK THEN now + 1 ELSE now + 1 - CLOCK
    <3>1. 1 \in 0..(CLOCK - 1)
      BY <2>3
    <3> QED
      BY <2>2, <2>3, <3>1, LaterIs DEF ClockTick
  <2> QED
    BY <2>3, <2>5, <2>6 DEF PairingModeActive
<1> QED
  BY <1>1, WindowInvariance, PTL DEF IndSpec, ExpiryIsNoticed

-------------------------------------------------------------------------------
(***************************************************************************)
(* The button                                                              *)
(***************************************************************************)

\* The time of the last change tells how old the level is, until it has settled.
AgeIsElapsed == raw_age < Settled => Elapsed(button_raw_since_change_ms, now) = raw_age

\* A level that is not confirmed yet will have settled by no poll before the next.
UnconfirmedIsYoung == button_stable # button_raw_prev => raw_age + button_timer < Settled

ButtonInv ==
  /\ IndTypeOK
  /\ AgeIsElapsed
  /\ UnconfirmedIsYoung

LEMMA ButtonInit == IndInit => ButtonInv
<1> SUFFICES ASSUME IndInit PROVE ButtonInv
  OBVIOUS
<1>1. IndTypeOK
  BY WindowInit DEF WindowInv
<1>2. AgeIsElapsed
  <2>1. 0 \in Time
    BY Durations DEF Time
  <2>2. Elapsed(0, 0) = 0
    BY <2>1, ElapsedIs
  <2> QED
    BY <2>2 DEF IndInit, AgeIsElapsed
<1>3. UnconfirmedIsYoung
  BY DEF IndInit, UnconfirmedIsYoung
<1> QED
  BY <1>1, <1>2, <1>3 DEF ButtonInv

\* What a poll finds: the age of the level it reads, and whether that is enough.
LEMMA Polled ==
  ASSUME ButtonInv, IndTypeOK', NEW raw \in BOOLEAN, ButtonTimer(raw)
  PROVE  /\ raw_age' < Settled => Elapsed(button_raw_since_change_ms', now) = raw_age'
         /\ raw_age' = Settled => button_stable = raw
         /\ ButtonConfirmed => raw_age' >= BUTTON_DEBOUNCE_MS /\ raw_age' = raw_age
         /\ ButtonConfirmed \/ button_stable = raw \/ raw_age' < BUTTON_DEBOUNCE_MS
<1>0. /\ button_timer = 0 /\ button_raw_prev' = raw /\ now \in Time
      /\ raw_age' \in 0..Settled /\ raw_age \in 0..Settled
      /\ Settled \in Nat /\ BUTTON_DEBOUNCE_MS \in Nat \ {0} /\ BUTTON_DEBOUNCE_MS < Settled
  BY Durations DEF ButtonTimer, RawRead, ButtonInv, IndTypeOK, Settled
<1>1. CASE raw = button_raw_prev
  <2>1. raw_age' = raw_age /\ button_raw_since_change_ms' = button_raw_since_change_ms
    BY <1>1 DEF ButtonTimer, RawRead
  <2>2. raw_age' < Settled => Elapsed(button_raw_since_change_ms', now) = raw_age'
    BY <2>1 DEF ButtonInv, AgeIsElapsed
  <2>3. raw_age' = Settled => button_stable = raw
    BY <1>0, <1>1, <2>1 DEF ButtonInv, UnconfirmedIsYoung
  <2>4. CASE raw_age' = Settled
    BY <1>0, <2>1, <2>2, <2>3, <2>4 DEF ButtonConfirmed
  <2>5. CASE raw_age' < Settled
    BY <1>0, <2>1, <2>2, <2>5 DEF ButtonConfirmed
  <2> QED
    BY <1>0, <2>4, <2>5
<1>2. CASE raw # button_raw_prev
  <2>1. raw_age' = 0 /\ button_raw_since_change_ms' = now
    BY <1>2 DEF ButtonTimer, RawRead
  <2>2. Elapsed(button_raw_since_change_ms', now) = 0
    <3>1. Elapsed(now, now) = IF now <= now THEN now - now ELSE now - now + CLOCK
      BY <1>0, ElapsedIs
    <3>2. now \in Int
      BY <1>0, Durations DEF Time
    <3>3. Elapsed(now, now) = 0
      BY <3>1, <3>2
    <3> QED
      BY <2>1, <3>3
  <2>3. ~ButtonConfirmed
    BY <1>0, <2>2 DEF ButtonConfirmed
  <2> QED
    BY <1>0, <2>1, <2>2, <2>3
<1> QED
  BY <1>1, <1>2

LEMMA ButtonStep == ButtonInv /\ [IndNext]_indVars => ButtonInv'
<1> SUFFICES ASSUME ButtonInv, [IndNext]_indVars PROVE ButtonInv'
  OBVIOUS
<1>0. IndTypeOK /\ IndTypeOK'
  BY TypeStep DEF ButtonInv
<1>1. CASE UNCHANGED <<now, buttonVars, raw_age>>
  BY <1>0, <1>1 DEF ButtonInv, AgeIsElapsed, UnconfirmedIsYoung, buttonVars
<1>2. CASE BtstackReady
  BY <1>1, <1>2 DEF BtstackReady
<1>3. ASSUME NEW raw \in BOOLEAN, ButtonTimer(raw) PROVE ButtonInv'
  <2>1. /\ raw_age' < Settled => Elapsed(button_raw_since_change_ms', now) = raw_age'
        /\ raw_age' = Settled => button_stable = raw
        /\ ButtonConfirmed \/ button_stable = raw \/ raw_age' < BUTTON_DEBOUNCE_MS
    BY <1>0, <1>3, Polled
  <2>2. AgeIsElapsed'
    BY <1>3, <2>1 DEF ButtonTimer, AgeIsElapsed
  <2>3. UnconfirmedIsYoung'
    <3> SUFFICES ASSUME button_stable' # button_raw_prev'
                 PROVE  raw_age' + button_timer' < Settled
      BY DEF UnconfirmedIsYoung
    <3>1. ~ButtonConfirmed /\ button_stable # raw
      BY <1>3 DEF ButtonTimer, RawRead
    <3>2. raw_age' < BUTTON_DEBOUNCE_MS /\ raw_age' \in Int
      BY <1>0, <2>1, <3>1 DEF IndTypeOK
    <3>3. button_timer' = BUTTON_POLL_INTERVAL_MS
      BY <1>3 DEF ButtonTimer
    <3>4. /\ BUTTON_POLL_INTERVAL_MS \in Int /\ BUTTON_DEBOUNCE_MS \in Int
          /\ Settled \in Int /\ Settled = BUTTON_DEBOUNCE_MS + BUTTON_POLL_INTERVAL_MS
      BY Durations DEF Settled
    <3>5. \A age \in Int : age < BUTTON_DEBOUNCE_MS => age + BUTTON_POLL_INTERVAL_MS < Settled
      BY <3>4
    <3>6. raw_age' + BUTTON_POLL_INTERVAL_MS < Settled
      BY <3>2, <3>5
    <3> QED
      BY <3>3, <3>6
  <2> QED
    BY <1>0, <2>2, <2>3 DEF ButtonInv
<1>4. ASSUME NEW n \in 0..MaxReady, LedTimer(n) PROVE ButtonInv'
  BY <1>1, <1>4 DEF LedTimer
<1>5. CASE ClockTick
  <2>0. /\ now \in Time /\ button_raw_since_change_ms \in Time
        /\ raw_age \in Int /\ 0 <= raw_age /\ raw_age <= Settled
        /\ button_timer \in Int /\ 0 < button_timer
        /\ Settled \in Int /\ Settled < CLOCK /\ CLOCK \in Int /\ 1 < CLOCK
    BY <1>0, <1>5, Durations DEF IndTypeOK, Settled, ClockTick
  <2>1. /\ raw_age' = IF raw_age = Settled THEN Settled ELSE raw_age + 1
        /\ button_timer' = button_timer - 1
        /\ UNCHANGED <<button_raw_prev, button_stable, button_raw_since_change_ms>>
    BY <1>5 DEF ClockTick
  <2>2. AgeIsElapsed'
    <3> SUFFICES ASSUME raw_age' < Settled
                 PROVE  Elapsed(button_raw_since_change_ms, now') = raw_age'
      BY <2>1 DEF AgeIsElapsed
    <3>1. raw_age < Settled /\ raw_age' = raw_age + 1
      BY <2>0, <2>1
    <3>2. Elapsed(button_raw_since_change_ms, now) = raw_age
      BY <3>1 DEF ButtonInv, AgeIsElapsed
    <3>3. Elapsed(button_raw_since_change_ms, now) =
            IF button_raw_since_change_ms <= now THEN now - button_raw_since_change_ms
                                                 ELSE now - button_raw_since_change_ms + CLOCK
      BY <2>0, ElapsedIs
    <3>4. now' = IF now + 1 < CLOCK THEN now + 1 ELSE now + 1 - CLOCK
      <4>1. 1 \in 0..(CLOCK - 1)
        BY <2>0
      <4> QED
        BY <1>5, <2>0, <4>1, LaterIs DEF ClockTick
    <3>5. now' \in Time
      BY <1>0 DEF IndTypeOK
    <3>6. Elapsed(button_raw_since_change_ms, now') =
            IF button_raw_since_change_ms <= now' THEN now' - button_raw_since_change_ms
                                                  ELSE now' - button_raw_since_change_ms + CLOCK
      BY <2>0, <3>5, ElapsedIs
    <3> QED
      BY <2>0, <3>1, <3>2, <3>3, <3>4, <3>6 DEF Time
  <2>3. UnconfirmedIsYoung'
    BY <2>0, <2>1 DEF ButtonInv, UnconfirmedIsYoung
  <2> QED
    BY <1>0, <2>2, <2>3 DEF ButtonInv
<1>6. CASE UNCHANGED indVars
  BY <1>1, <1>6 DEF indVars
<1> QED
  BY <1>2, <1>3, <1>4, <1>5, <1>6 DEF IndNext

\* A level is confirmed only after the debounce time without a change, and one that
\* has lasted a poll more is confirmed, also across the clock's wrap.
THEOREM ButtonDebounced == IndSpec => Debounced
<1>1. IndInit => ButtonInv
  BY ButtonInit
<1>2. ButtonInv /\ [IndNext]_indVars => ButtonInv'
  BY ButtonStep
<1>3. ButtonInv /\ [IndNext]_indVars =>
        [button_stable' # button_stable =>
           raw_age >= BUTTON_DEBOUNCE_MS /\ raw_age' = raw_age]_indVars
  <2> SUFFICES ASSUME ButtonInv, IndNext, button_stable' # button_stable
               PROVE  raw_age >= BUTTON_DEBOUNCE_MS /\ raw_age' = raw_age
    OBVIOUS
  <2>1. PICK raw \in BOOLEAN : ButtonTimer(raw)
    BY DEF IndNext, BtstackReady, LedTimer, ClockTick, buttonVars
  <2>2. ButtonConfirmed
    BY <2>1 DEF ButtonTimer
  <2>3. IndTypeOK'
    BY TypeStep DEF ButtonInv
  <2>4. raw_age' >= BUTTON_DEBOUNCE_MS /\ raw_age' = raw_age
    BY <2>1, <2>2, <2>3, Polled
  <2> QED
    BY <2>4
<1>4. ButtonInv => (raw_age = Settled => button_stable = button_raw_prev)
  BY Durations DEF ButtonInv, IndTypeOK, UnconfirmedIsYoung, Settled
<1> QED
  BY <1>1, <1>2, <1>3, <1>4, PTL DEF IndSpec, Debounced

-------------------------------------------------------------------------------
(***************************************************************************)
(* The LED.  The invariant follows the ticks through the pattern: in the   *)
(* pause the count of flashes is complete or has been started afresh,      *)
(* behind it it is the number of pulses begun; between two pulses the LED  *)
(* is off for less than a pause.                                           *)
(***************************************************************************)

Pulse == LED_ON_MS + LED_OFF_MS

LEMMA Periods ==
  ASSUME NEW n \in Nat \ {0}
  PROVE  /\ Pulse \in Nat \ {0} /\ Pulse * n \in Nat /\ Pulse = LED_ON_MS + LED_OFF_MS
         /\ LedPeriod(n) = LED_GAP_MS + Pulse * n
         /\ LedPeriod(n) \in Nat \ {0}
<1>1. Pulse \in Nat \ {0}
  BY Lights DEF Pulse
<1>2. Pulse * n \in Nat /\ Pulse * n = n * Pulse
  BY <1>1
<1> QED
  BY <1>1, <1>2, Lights DEF LedPeriod, Pulse

\* Different multiples of a positive number are that number apart.
LEMMA MultiplesApart ==
  ASSUME NEW w \in Nat \ {0}, NEW j \in Int, NEW k \in Int, j < k
  PROVE  w * j + w <= w * k /\ w * j \in Int /\ w * k \in Int /\ w * (j + 1) = w * j + w
<1>1. w * j \in Int /\ w * k \in Int /\ w * (j + 1) = w * j + w
  OBVIOUS
<1>2. w * (k - j - 1) >= 0
  OBVIOUS
<1>3. w * (k - j - 1) = w * k - w * j - w
  OBVIOUS
<1> QED
  BY <1>1, <1>2, <1>3

\* Phase q is r into the pulse behind the first b ones.
InPulse(q, b, r) == q = LED_GAP_MS + Pulse * b + r

Lit(q) == q >= LED_GAP_MS /\ (q - LED_GAP_MS) % Pulse < LED_ON_MS

LEMMA LitInPulse ==
  ASSUME NEW q \in Nat, NEW b \in Nat, NEW r \in 0..(Pulse - 1), InPulse(q, b, r)
  PROVE  Lit(q) <=> r < LED_ON_MS
<1>0. Pulse \in Nat \ {0} /\ Pulse * b \in Nat
  BY Lights DEF Pulse
<1>1. (Pulse * b + r) % Pulse = r
  BY <1>0, RemainderUnique
<1>2. q - LED_GAP_MS = Pulse * b + r /\ q >= LED_GAP_MS
  BY <1>0, Lights DEF InPulse
<1> QED
  BY <1>1, <1>2 DEF Lit

LEMMA DarkInPause ==
  ASSUME NEW q \in Nat, q < LED_GAP_MS
  PROVE  ~Lit(q)
  BY Lights DEF Lit

\* Every phase behind the pause is in a pulse.
LEMMA PhaseInPulse ==
  ASSUME NEW n \in Nat \ {0}, NEW q \in 0..(LedPeriod(n) - 1), q >= LED_GAP_MS
  PROVE  \E b \in 0..(n - 1), r \in 0..(Pulse - 1) : InPulse(q, b, r)
<1>0. /\ Pulse \in Nat \ {0} /\ LedPeriod(n) = LED_GAP_MS + Pulse * n
      /\ Pulse * n \in Int /\ LED_GAP_MS \in Int /\ q \in Int
  BY Periods, Lights
<1>1. PICK b \in Int, r \in 0..(Pulse - 1) : q - LED_GAP_MS = Pulse * b + r
  <2> DEFINE a == q - LED_GAP_MS
  <2>1. a \in Int
    BY <1>0
  <2> HIDE DEF a
  <2>2. \E d \in Int, m \in 0..(Pulse - 1) : m = a % Pulse /\ a = Pulse * d + m
    BY <1>0, <2>1, Divided
  <2> QED
    BY <2>2 DEF a
<1>2. Pulse * b \in Int /\ r \in Int /\ 0 <= r /\ r < Pulse
  BY <1>0
<1>3. 0 <= b
  <2> SUFFICES ASSUME b < 0 PROVE FALSE
    OBVIOUS
  <2>1. Pulse * b + Pulse <= Pulse * 0 /\ Pulse * 0 = 0
    BY <1>0, MultiplesApart
  <2> QED
    BY <1>0, <1>1, <1>2, <2>1
<1>4. b < n
  <2> SUFFICES ASSUME n <= b PROVE FALSE
    OBVIOUS
  <2>1. Pulse * n <= Pulse * b
    <3>1. CASE n = b
      BY <1>2, <3>1
    <3>2. CASE n < b
      BY <1>0, <1>2, <3>2, MultiplesApart
    <3> QED
      BY <3>1, <3>2
  <2> QED
    BY <1>0, <1>1, <1>2, <2>1
<1>5. b \in 0..(n - 1) /\ r \in 0..(Pulse - 1)
  BY <1>3, <1>4
<1>6. InPulse(q, b, r)
  BY <1>0, <1>1, <1>2 DEF InPulse
<1> QED
  BY <1>5, <1>6

\* What has been seen at phase q: how long the LED has been off, d, and f flashes.
SeenInPause(n, q, d, f) ==
  /\ q < LED_GAP_MS
  /\ d = Pause => f = 0
  /\ f # Uncounted /\ d # Pause => f = n /\ d > q + LED_OFF_MS

SeenInPulse(b, r, d, f) ==
  /\ f # Uncounted => f = b + 1
  /\ IF r < LED_ON_MS
     THEN d = 0
     ELSE /\ d <= r - LED_ON_MS + LED_TICK_MS
          /\ f # Uncounted => d > r - LED_ON_MS

Seen(n, q, d, f) ==
  \/ SeenInPause(n, q, d, f)
  \/ \E b \in 0..(n - 1), r \in 0..(Pulse - 1) : InPulse(q, b, r) /\ SeenInPulse(b, r, d, f)

LEMMA NothingSeen ==
  ASSUME NEW n \in Nat \ {0}, NEW q \in 0..(LedPeriod(n) - 1)
  PROVE  Seen(n, q, 0, Uncounted)
<1>0. LedPeriod(n) \in Nat
  BY Periods
<1>1. CASE q < LED_GAP_MS
  BY <1>1, Lights DEF Seen, SeenInPause
<1>2. CASE q >= LED_GAP_MS
  <2>1. PICK b \in 0..(n - 1), r \in 0..(Pulse - 1) : InPulse(q, b, r)
    BY <1>2, PhaseInPulse
  <2>2. SeenInPulse(b, r, 0, Uncounted)
    BY Lights, Periods DEF SeenInPulse
  <2> QED
    BY <2>1, <2>2 DEF Seen
<1> QED
  BY <1>0, <1>1, <1>2, Lights

\* The next tick's phase, and what it makes of what has been seen.
NextPhase(n, q) ==
  IF q + LED_TICK_MS < LedPeriod(n) THEN q + LED_TICK_MS ELSE q + LED_TICK_MS - LedPeriod(n)

DarkFor(q, d) ==
  IF Lit(q) THEN 0 ELSE IF d + LED_TICK_MS < Pause THEN d + LED_TICK_MS ELSE Pause

Flashed(before, q, d, f) ==
  IF DarkFor(q, d) = Pause THEN 0
  ELSE IF Lit(q) /\ ~Lit(before) /\ f \in 0..MaxReady THEN f + 1 ELSE f

LEMMA TickFollowed ==
  ASSUME NEW n \in 1..MaxReady, NEW q \in 0..(LedPeriod(n) - 1),
         NEW d \in 0..Pause, NEW f \in Uncounted..(MaxReady + 1),
         Seen(n, q, d, f)
  PROVE  LET next == NextPhase(n, q) IN
         /\ Seen(n, next, DarkFor(next, d), Flashed(q, next, d, f))
         /\ d < Pause /\ DarkFor(next, d) = Pause /\ f # Uncounted => f = n
<1> DEFINE next == NextPhase(n, q)
           d2 == DarkFor(next, d)
           f2 == Flashed(q, next, d, f)
<1> SUFFICES /\ Seen(n, next, d2, f2)
             /\ d < Pause /\ d2 = Pause /\ f # Uncounted => f = n
  OBVIOUS
<1>0. /\ n \in Nat \ {0} /\ n <= MaxReady /\ q \in Int /\ 0 <= q /\ q < LedPeriod(n)
      /\ d \in Int /\ 0 <= d /\ d <= Pause /\ f \in Int /\ -1 <= f /\ f <= MaxReady + 1
  BY Lights, Periods
<1>P. /\ Pulse \in Int /\ 0 < Pulse /\ Pulse = LED_ON_MS + LED_OFF_MS
      /\ Pulse * n \in Int /\ LedPeriod(n) = LED_GAP_MS + Pulse * n
      /\ Pulse <= Pulse * n
  <2>1. Pulse \in Nat \ {0} /\ 0 < n
    BY <1>0, Periods
  <2>2. Pulse * 0 + Pulse <= Pulse * n /\ Pulse * 0 = 0
    BY <1>0, <2>1, MultiplesApart
  <2> QED
    BY <1>0, <2>1, <2>2, Periods
<1>a. /\ LED_GAP_MS \in Int /\ LED_ON_MS \in Int /\ 0 < LED_ON_MS
      /\ LED_OFF_MS \in Int /\ 0 < LED_OFF_MS
      /\ LED_TICK_MS \in Int /\ 0 < LED_TICK_MS
      /\ LED_TICK_MS <= LED_ON_MS /\ LED_TICK_MS <= LED_OFF_MS
      /\ LED_TICK_MS + LED_TICK_MS <= LED_GAP_MS
      /\ Pause \in Int /\ Pause = LED_OFF_MS + LED_TICK_MS
      /\ Uncounted = -1 /\ MaxReady \in Int
  BY Lights
\* A tick that lands in a pulse.
<1>b. ASSUME NEW b \in 0..(n - 1), NEW r \in 0..(Pulse - 1), InPulse(next, b, r),
             next \in Nat, SeenInPulse(b, r, d2, f2), d2 # Pause
      PROVE  /\ Seen(n, next, d2, f2)
             /\ d < Pause /\ d2 = Pause /\ f # Uncounted => f = n
  BY <1>b DEF Seen
<1> HIDE DEF next, d2, f2
<1>1. ASSUME SeenInPause(n, q, d, f)
      PROVE  /\ Seen(n, next, d2, f2)
             /\ d < Pause /\ d2 = Pause /\ f # Uncounted => f = n
  <2>0. /\ q < LED_GAP_MS /\ (d = Pause => f = 0)
        /\ (f # Uncounted /\ d # Pause => f = n /\ d > q + LED_OFF_MS)
    BY <1>1 DEF SeenInPause
  <2>1. next = q + LED_TICK_MS /\ next \in Nat
    BY <1>0, <1>P, <1>a, <2>0 DEF next, NextPhase
  <2>2. ~Lit(q)
    BY <1>0, <2>0, DarkInPause
  <2>3. CASE next < LED_GAP_MS
    <3>1. ~Lit(next)
      BY <2>1, <2>3, DarkInPause
    <3>2. d2 = IF d + LED_TICK_MS < Pause THEN d + LED_TICK_MS ELSE Pause
      BY <3>1 DEF d2, DarkFor
    <3>3. f2 = IF d2 = Pause THEN 0 ELSE f
      BY <3>1 DEF f2, d2, Flashed
    <3>4. SeenInPause(n, next, d2, f2)
      BY <1>0, <1>a, <2>0, <2>1, <2>3, <3>2, <3>3 DEF SeenInPause
    <3> QED
      BY <1>0, <2>0, <3>4 DEF Seen
  <2>4. CASE next >= LED_GAP_MS
    <3> DEFINE r == next - LED_GAP_MS
    <3>1. /\ r \in 0..(Pulse - 1) /\ r < LED_ON_MS /\ 0 \in 0..(n - 1)
          /\ InPulse(next, 0, r)
      BY <1>0, <1>P, <1>a, <2>0, <2>1, <2>4 DEF InPulse
    <3>2. Lit(next)
      BY <2>1, <3>1, LitInPulse
    <3>3. d2 = 0
      BY <3>2 DEF d2, DarkFor
    <3>4. f2 = IF f \in 0..MaxReady THEN f + 1 ELSE f
      BY <1>a, <2>2, <3>2, <3>3 DEF f2, d2, Flashed
    <3>5. f # Uncounted => f = 0
      BY <1>0, <1>a, <2>0, <2>1, <2>4
    <3>6. SeenInPulse(0, r, d2, f2)
      BY <1>0, <1>a, <3>1, <3>3, <3>4, <3>5 DEF SeenInPulse
    <3> QED
      BY <1>a, <1>b, <2>1, <3>1, <3>3, <3>6
  <2> QED
    BY <1>a, <2>1, <2>3, <2>4
<1>2. ASSUME NEW b \in 0..(n - 1), NEW r \in 0..(Pulse - 1), InPulse(q, b, r),
             SeenInPulse(b, r, d, f)
      PROVE  /\ Seen(n, next, d2, f2)
             /\ d < Pause /\ d2 = Pause /\ f # Uncounted => f = n
  <2>0. /\ b \in Nat /\ b <= n - 1 /\ b \in Int /\ r \in Int /\ 0 <= r /\ r < Pulse
        /\ q \in Nat
    BY <1>0, <1>P
  <2>p. /\ Pulse * b \in Int /\ 0 <= Pulse * b /\ Pulse * b + Pulse <= Pulse * n
        /\ Pulse * (b + 1) = Pulse * b + Pulse
    <3>1. Pulse \in Nat \ {0} /\ b < n /\ n \in Int
      BY <1>0, <1>P, <2>0
    <3>2. Pulse * b \in Nat
      BY <2>0, <3>1
    <3> QED
      BY <2>0, <3>1, <3>2, MultiplesApart
  <2>q. q = LED_GAP_MS + Pulse * b + r
    BY <1>2 DEF InPulse
  <2>l. Lit(q) <=> r < LED_ON_MS
    BY <1>2, <2>0, LitInPulse
  <2>s. /\ f # Uncounted => f = b + 1
        /\ r < LED_ON_MS => d = 0
        /\ r >= LED_ON_MS => /\ d <= r - LED_ON_MS + LED_TICK_MS
                             /\ f # Uncounted => d > r - LED_ON_MS
    BY <1>2, <1>a, <2>0 DEF SeenInPulse
  <2> DEFINE s == r + LED_TICK_MS
  <2>1. CASE s < Pulse
    <3>1. s \in 0..(Pulse - 1) /\ s \in Int /\ 0 <= s
      BY <1>P, <1>a, <2>0, <2>1
    <3>2. next = q + LED_TICK_MS /\ next \in Nat
      BY <1>0, <1>P, <1>a, <2>p, <2>q, <2>1 DEF next, NextPhase
    <3>3. InPulse(next, b, s)
      BY <1>a, <2>0, <2>p, <2>q, <3>2 DEF InPulse
    <3>4. Lit(next) <=> s < LED_ON_MS
      BY <2>0, <3>1, <3>2, <3>3, LitInPulse
    <3>5. CASE s < LED_ON_MS
      <4>1. Lit(next) /\ Lit(q)
        BY <1>a, <2>0, <2>l, <3>4, <3>5
      <4>2. d2 = 0
        BY <4>1 DEF d2, DarkFor
      <4>3. f2 = f
        BY <1>a, <4>1, <4>2 DEF f2, d2, Flashed
      <4>4. SeenInPulse(b, s, d2, f2)
        BY <2>s, <3>5, <4>2, <4>3 DEF SeenInPulse
      <4> QED
        BY <1>a, <1>b, <3>1, <3>2, <3>3, <4>2, <4>4
    <3>6. CASE s >= LED_ON_MS
      <4>1. ~Lit(next)
        BY <1>a, <3>1, <3>4, <3>6
      <4>2. d + LED_TICK_MS < Pause /\ d + LED_TICK_MS <= s - LED_ON_MS + LED_TICK_MS
        <5>1. CASE r < LED_ON_MS
          BY <1>a, <2>0, <2>s, <3>6, <5>1
        <5>2. CASE r >= LED_ON_MS
          BY <1>0, <1>P, <1>a, <2>0, <2>s, <2>1, <5>2
        <5> QED
          BY <1>a, <2>0, <5>1, <5>2
      <4>3. d2 = d + LED_TICK_MS
        BY <4>1, <4>2 DEF d2, DarkFor
      <4>4. f2 = f
        BY <1>0, <1>a, <4>1, <4>2, <4>3 DEF f2, d2, Flashed
      <4>5. f # Uncounted => d + LED_TICK_MS > s - LED_ON_MS
        <5>1. CASE r < LED_ON_MS
          BY <1>a, <2>0, <2>s, <5>1
        <5>2. CASE r >= LED_ON_MS
          BY <1>0, <1>a, <2>0, <2>s, <5>2
        <5> QED
          BY <1>a, <2>0, <5>1, <5>2
      <4>6. SeenInPulse(b, s, d2, f2)
        BY <1>a, <2>s, <3>1, <3>6, <4>2, <4>3, <4>4, <4>5 DEF SeenInPulse
      <4> QED
        BY <1>0, <1>a, <1>b, <3>1, <3>2, <3>3, <4>2, <4>3, <4>6
    <3> QED
      BY <1>a, <3>1, <3>5, <3>6
  <2>2. CASE s >= Pulse
    <3> DEFINE z == s - Pulse
    <3>1. /\ z \in Int /\ 0 <= z /\ z < LED_TICK_MS /\ z < LED_ON_MS /\ z < LED_GAP_MS
          /\ z \in 0..(Pulse - 1) /\ r >= LED_ON_MS
      BY <1>P, <1>a, <2>0, <2>2
    <3>2. ~Lit(q)
      BY <1>a, <2>0, <2>l, <3>1
    <3>3. CASE b + 1 < n
      <4>1. next = q + LED_TICK_MS /\ next \in Nat /\ b + 1 \in 0..(n - 1) /\ b + 1 \in Nat
        <5>1. Pulse * (b + 1) + Pulse <= Pulse * n
          BY <1>0, <1>P, <2>0, <3>3, MultiplesApart
        <5>2. q + LED_TICK_MS < LedPeriod(n)
          BY <1>0, <1>P, <1>a, <2>0, <2>p, <2>q, <3>1, <5>1
        <5> QED
          BY <1>0, <1>a, <2>0, <3>3, <5>2 DEF next, NextPhase
      <4>2. InPulse(next, b + 1, z)
        BY <1>P, <1>a, <2>0, <2>p, <2>q, <4>1 DEF InPulse
      <4>3. Lit(next)
        BY <3>1, <4>1, <4>2, LitInPulse
      <4>4. d2 = 0
        BY <4>3 DEF d2, DarkFor
      <4>5. f2 = IF f \in 0..MaxReady THEN f + 1 ELSE f
        BY <1>a, <3>2, <4>3, <4>4 DEF f2, d2, Flashed
      <4>6. SeenInPulse(b + 1, z, d2, f2)
        BY <1>0, <1>a, <2>0, <2>s, <3>1, <3>3, <4>4, <4>5 DEF SeenInPulse
      <4> QED
        BY <1>a, <1>b, <3>1, <4>1, <4>2, <4>4, <4>6
    <3>4. CASE b + 1 = n
      <4>1. next = z /\ next \in Nat
        <5>1. Pulse * n = Pulse * b + Pulse
          BY <2>p, <3>4
        <5>2. q + LED_TICK_MS - LedPeriod(n) = z
          BY <1>0, <1>P, <1>a, <2>0, <2>p, <2>q, <5>1
        <5>3. ~(q + LED_TICK_MS < LedPeriod(n))
          BY <1>0, <1>P, <1>a, <2>0, <2>p, <2>q, <3>1, <5>1
        <5> QED
          BY <3>1, <5>2, <5>3 DEF next, NextPhase
      <4>2. ~Lit(next)
        BY <3>1, <4>1, DarkInPause
      <4>3. d2 = IF d + LED_TICK_MS < Pause THEN d + LED_TICK_MS ELSE Pause
        BY <4>2 DEF d2, DarkFor
      <4>4. f2 = IF d2 = Pause THEN 0 ELSE f
        BY <4>2 DEF f2, d2, Flashed
      <4>5. f # Uncounted => f = n /\ d + LED_TICK_MS > z + LED_OFF_MS
        BY <1>0, <1>P, <1>a, <2>0, <2>s, <3>1, <3>4
      <4>6. SeenInPause(n, next, d2, f2)
        BY <1>0, <1>a, <3>1, <4>1, <4>3, <4>4, <4>5 DEF SeenInPause
      <4> QED
        BY <4>5, <4>6 DEF Seen
    <3> QED
      BY <1>0, <2>0, <3>3, <3>4
  <2> QED
    BY <1>P, <1>a, <2>0, <2>1, <2>2
<1> QED
  BY <1>1, <1>2 DEF Seen

-------------------------------------------------------------------------------

LastLedTick == now - (LED_TICK_MS - led_timer)

PatternFollowed ==
  shown # 0 =>
    /\ LastLedTick \in Nat
    /\ led = Lit(LastLedTick % LedPeriod(shown))
    /\ Seen(shown, LastLedTick % LedPeriod(shown), dark, flashes)

PatternInv == IndTypeOK /\ PatternFollowed

LEMMA CountIsLit ==
  ASSUME NEW n \in Nat, NEW t \in Nat
  PROVE  LedCount(n, t) = Lit(t % LedPeriod(n))
  BY DEF LedCount, Lit, Pulse

\* The phase of the tick that follows.
LEMMA PhaseOfNext ==
  ASSUME NEW n \in Nat \ {0}, NEW t \in Nat
  PROVE  /\ t % LedPeriod(n) \in 0..(LedPeriod(n) - 1)
         /\ (t + LED_TICK_MS) % LedPeriod(n) = NextPhase(n, t % LedPeriod(n))
<1> DEFINE P == LedPeriod(n)
<1>0. /\ P \in Nat \ {0} /\ LED_TICK_MS \in Int /\ 0 < LED_TICK_MS /\ LED_TICK_MS < P
  BY Periods, Lights
<1>n. NextPhase(n, t % P) =
        IF (t % P) + LED_TICK_MS < P THEN (t % P) + LED_TICK_MS ELSE (t % P) + LED_TICK_MS - P
  BY DEF NextPhase
<1>t. t \in Int
  OBVIOUS
<1> HIDE DEF P
<1>1. PICK c \in Int, q \in 0..(P - 1) : q = t % P /\ t = P * c + q
  BY <1>0, <1>t, Divided
<1>2. P * c \in Int /\ P * (c + 1) = P * c + P /\ q \in Int /\ 0 <= q /\ q < P /\ P \in Int
  BY <1>0
<1> DEFINE u == t + LED_TICK_MS
           s == q + LED_TICK_MS
<1>3. CASE s < P
  <2>1. s \in 0..(P - 1) /\ (P * c + s) % P = s
    <3>1. s \in 0..(P - 1)
      BY <1>0, <1>2, <1>3
    <3> HIDE DEF s
    <3> QED
      BY <1>0, <3>1, RemainderUnique
  <2>2. u = P * c + s
    BY <1>0, <1>1, <1>2
  <2>3. u % P = s
    BY <2>1, <2>2
  <2> QED
    BY <1>1, <1>n, <1>3, <2>3 DEF P
<1>4. CASE ~(s < P)
  <2> DEFINE z == s - P
  <2>1. z \in 0..(P - 1)
    BY <1>0, <1>2, <1>4
  <2>2. (P * (c + 1) + z) % P = z
    <3> HIDE DEF z
    <3>1. c + 1 \in Int
      OBVIOUS
    <3> QED
      BY <1>0, <2>1, <3>1, RemainderUnique
  <2>3. u = P * (c + 1) + z
    BY <1>0, <1>1, <1>2 DEF z
  <2>4. u % P = z
    <3> HIDE DEF u, z
    <3> QED
      BY <2>2, <2>3
  <2>5. NextPhase(n, t % P) = z
    <3> DEFINE m == t % P
    <3>1. m = q /\ NextPhase(n, m) = IF m + LED_TICK_MS < P THEN m + LED_TICK_MS
                                                            ELSE m + LED_TICK_MS - P
      BY <1>1, <1>n
    <3> HIDE DEF m
    <3>2. NextPhase(n, m) = z
      BY <1>0, <1>2, <1>4, <3>1
    <3> QED
      BY <3>2 DEF m
  <2> QED
    BY <1>1, <2>4, <2>5 DEF P
<1> QED
  BY <1>3, <1>4

\* A tick of the LED: the pattern is followed on, or begins.
LEMMA PatternTicked ==
  ASSUME PatternInv, NEW n \in 0..MaxReady, LedTimer(n)
  PROVE  /\ PatternFollowed'
         /\ dark < Pause /\ dark' = Pause /\ flashes # Uncounted => flashes = shown
<1>0. /\ now \in Nat /\ led_timer = 0 /\ led_timer' = LED_TICK_MS /\ now' = now
      /\ LED_TICK_MS \in Int /\ LastLedTick = now - LED_TICK_MS /\ LastLedTick' = now
      /\ shown \in 0..MaxReady /\ dark \in 0..Pause
      /\ flashes \in Uncounted..(MaxReady + 1) /\ MaxReady \in Nat /\ Pause \in Nat \ {0}
  BY Lights, Durations DEF PatternInv, IndTypeOK, Time, LedTimer, LastLedTick
<1>1. CASE shown' = 0
  <2>1. PatternFollowed'
    BY <1>1 DEF PatternFollowed
  <2>2. dark' = 0
    BY <1>1 DEF LedTimer, PatternSeen
  <2> QED
    BY <1>0, <2>1, <2>2
<1>2. CASE shown' # 0
  <2>1. /\ ~PairingModeActive /\ shown' = n /\ n \in 1..MaxReady /\ n \in Nat \ {0}
    BY <1>0, <1>2 DEF LedTimer, PatternSeen
  <2> DEFINE next == now % LedPeriod(n)
  <2>2. led' = Lit(next)
    <3>1. led' = LedOn(n, now, PairingModeActive)
      BY DEF LedTimer
    <3>2. led' = LedCount(n, now)
      BY <2>1, <3>1 DEF LedOn, LedCount
    <3> QED
      BY <1>0, <2>1, <3>2, CountIsLit
  <2>3. next \in 0..(LedPeriod(n) - 1)
    BY <1>0, <2>1, PhaseOfNext
  <2>4. CASE shown = n
    <3> DEFINE q == LastLedTick % LedPeriod(n)
    <3>1. /\ LastLedTick \in Nat /\ led = Lit(q) /\ Seen(n, q, dark, flashes)
      BY <2>1, <2>4 DEF PatternInv, PatternFollowed
    <3>2. now = LastLedTick + LED_TICK_MS
      BY <1>0
    <3>3. q \in 0..(LedPeriod(n) - 1) /\ next = NextPhase(n, q)
      BY <2>1, <3>1, <3>2, PhaseOfNext
    <3> HIDE DEF next, q
    <3>4. dark' = DarkFor(next, dark)
      BY <2>1, <2>2, <2>4 DEF LedTimer, PatternSeen, DarkFor
    <3>5. flashes' = Flashed(q, next, dark, flashes)
      BY <2>1, <2>2, <2>4, <3>1, <3>4 DEF LedTimer, PatternSeen, Flashed
    <3>6. /\ Seen(n, next, dark', flashes')
          /\ dark < Pause /\ dark' = Pause /\ flashes # Uncounted => flashes = n
      BY <1>0, <2>1, <3>1, <3>3, <3>4, <3>5, TickFollowed
    <3>7. PatternFollowed'
      BY <1>0, <2>1, <2>2, <3>6 DEF PatternFollowed, next
    <3> QED
      BY <2>4, <3>6, <3>7
  <2>5. CASE shown # n
    <3>1. dark' = 0 /\ flashes' = Uncounted
      BY <2>1, <2>5 DEF LedTimer, PatternSeen
    <3>2. Seen(n, next, 0, Uncounted)
      BY <2>1, <2>3, NothingSeen
    <3>3. PatternFollowed'
      BY <1>0, <2>1, <2>2, <3>1, <3>2 DEF PatternFollowed
    <3> QED
      BY <1>0, <3>1, <3>3
  <2> QED
    BY <2>4, <2>5
<1> QED
  BY <1>1, <1>2

LEMMA PatternStep ==
  ASSUME PatternInv, [IndNext]_indVars
  PROVE  /\ PatternInv'
         /\ dark < Pause /\ dark' = Pause /\ flashes # Uncounted => flashes = shown
<1>0. IndTypeOK'
  BY TypeStep DEF PatternInv
<1>1. CASE UNCHANGED <<now, led_timer, led, patternVars>>
  BY <1>0, <1>1, Lights DEF PatternInv, IndTypeOK, PatternFollowed, LastLedTick, patternVars
<1>2. CASE BtstackReady
  BY <1>1, <1>2 DEF BtstackReady
<1>3. ASSUME NEW raw \in BOOLEAN, ButtonTimer(raw)
      PROVE  UNCHANGED <<now, led_timer, led, patternVars>>
  BY <1>3 DEF ButtonTimer
<1>4. ASSUME NEW n \in 0..MaxReady, LedTimer(n)
      PROVE  /\ PatternFollowed'
             /\ dark < Pause /\ dark' = Pause /\ flashes # Uncounted => flashes = shown
  BY <1>4, PatternTicked
<1>5. CASE ClockTick
  <2>1. UNCHANGED <<led, dark, flashes>> /\ dark \in Int
    BY <1>5, Lights DEF ClockTick, PatternInv, IndTypeOK
  <2>2. PatternFollowed'
    <3>1. CASE now' = 0
      BY <1>5, <3>1 DEF ClockTick, PatternFollowed
    <3>2. CASE now' # 0
      <4>1. now' = now + 1
        <5>1. 1 \in 0..(CLOCK - 1) /\ now \in Time
          BY Durations DEF PatternInv, IndTypeOK
        <5>2. now' = IF now + 1 < CLOCK THEN now + 1 ELSE now + 1 - CLOCK
          BY <1>5, <5>1, LaterIs DEF ClockTick
        <5> QED
          BY <3>2, <5>1, <5>2, Durations DEF Time
      <4>2. LastLedTick' = LastLedTick /\ shown' = shown
        BY <1>5, <3>2, <4>1, Lights, Durations
           DEF ClockTick, LastLedTick, PatternInv, IndTypeOK, Time
      <4> QED
        BY <2>1, <4>2 DEF PatternInv, PatternFollowed
    <3> QED
      BY <3>1, <3>2
  <2> QED
    BY <1>0, <2>1, <2>2 DEF PatternInv
<1>6. CASE UNCHANGED indVars
  BY <1>1, <1>6 DEF indVars
<1> QED
  BY <1>0, <1>1, <1>2, <1>3, <1>4, <1>5, <1>6 DEF IndNext, PatternInv

\* Between two pauses the LED flashes once per READY device, whatever the lengths of the
\* pause, of the pulses and of the tick that samples them, as long as no pulse and no gap
\* is shorter than the tick.
THEOREM LedFlashesShown == IndSpec => LedFlashesCount
<1>1. IndInit => PatternInv
  <2> SUFFICES ASSUME IndInit PROVE PatternInv
    OBVIOUS
  <2>1. IndTypeOK
    BY WindowInit DEF WindowInv
  <2>2. shown = 0
    BY DEF IndInit
  <2> QED
    BY <2>1, <2>2 DEF PatternInv, PatternFollowed
<1>2. PatternInv /\ [IndNext]_indVars => PatternInv'
  BY PatternStep
<1>3. PatternInv /\ [IndNext]_indVars =>
        [/\ dark < Pause /\ dark' = Pause
         /\ flashes # Uncounted
         => flashes = shown]_indVars
  BY PatternStep
<1> QED
  BY <1>1, <1>2, <1>3, PTL DEF IndSpec, LedFlashesCount

===============================================================================
