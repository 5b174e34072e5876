\* Claim: a known device is only evicted by that many others.
CONSTANTS
  id = id
  r1 = r1
  r2 = r2
  Addr = {id, r1, r2}
  RpaAddr = {r1, r2}
  IdentityOf <- OneDevice
  MAX_KNOWN_DEVICES = 2
  MAX_PENDING_RPA_LOOKUPS = 1
  MAX_NR_SM_LOOKUP_ENTRIES = 1
  Handle = {1}
  Cid = {1}
  NoLookup = NoLookup
  NoAddr = NoAddr
  NoHandle = NoHandle
  NoCid = NoCid
  MAX_HID_DEVICES = 1

SPECIFICATION Spec
SYMMETRY Rotations

PROPERTIES
  EvictedOnlyWhenFull
