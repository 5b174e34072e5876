\* Both slots and two clients that take any of them, one report in each queue.
CONSTANTS
  c1 = c1
  c2 = c2
  MAX_HID_DEVICES = 2
  Cid = {c1, c2}
  NoCid = NoCid
  Fallback = Fallback
  Garbled = Garbled
  Capacity = 1

SPECIFICATION FairSpec

INVARIANTS
  TypeOK
  RoutedWhenAgreed
  RightInterface
  ConfigurationFits
  IInv

PROPERTIES
  DisconnectedCatchesUp
  PublishesAtOnce
