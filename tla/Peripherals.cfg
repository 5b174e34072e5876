\* Two cores over the report queues, with a host that takes what fits; or the log
\* console with an open port from time to time; or the indicators.
CONSTANTS
  MAX_HID_DEVICES = 2
  REPORT_QUEUE_DEPTH = 3
  key_down = key_down
  oversized = oversized
  NoReport = NoReport
  Report <- MCReport
  Oversized <- MCOversized
  LOG_CONSOLE_SLOTS = 3
  WORD = 6
  Message <- MCMessage
  Length <- MCLength
  NoMessage = NoMessage
  short = short
  long = long
  CLOCK = 27
  BUTTON_POLL_INTERVAL_MS = 3
  BUTTON_DEBOUNCE_MS = 4
  LED_TICK_MS = 2
  LED_PAIRING_BLINK_MS = 2
  LED_GAP_MS = 4
  LED_ON_MS = 2
  LED_OFF_MS = 2
  PAIRING_MODE_DURATION_MS = 8
  MaxReady = 2

SPECIFICATION MCFairSpec

INVARIANTS
  TypeOK
  PeekedIsOldest
  LogTypeOK
  IndTypeOK
  WindowNeedsPress
  PressOpensWindow

PROPERTIES
  ImplementsFifo
  NobodyStarves
  ImplementsLossyFifo
  LogDrains
  Debounced
  ExpiryIsNoticed
  LedFlashesCount
