\* As Bridge.cfg: a change of the READY set the host never learns of.
CONSTANTS
  c1 = c1
  c2 = c2
  MAX_HID_DEVICES = 2
  Cid = {c1, c2}
  NoCid = NoCid
  Fallback = Fallback
  Garbled = Garbled
  Capacity = 1

SPECIFICATION FairSpec

PROPERTIES
  HostCatchesUp
