\* Claim: a connection in progress is not disturbed by a scan.
CONSTANTS
  a = a
  b = b
  h1 = h1
  h2 = h2
  c1 = c1
  c2 = c2
  Addr = {a, b}
  RpaAddr = {}
  IdentityOf <- NoRpa
  MAX_KNOWN_DEVICES = 1
  MAX_PENDING_RPA_LOOKUPS = 1
  MAX_NR_SM_LOOKUP_ENTRIES = 1
  Handle = {h1, h2}
  Cid = {c1, c2}
  NoLookup = NoLookup
  NoAddr = NoAddr
  NoHandle = NoHandle
  NoCid = NoCid
  MAX_HID_DEVICES = 2

SPECIFICATION Spec
SYMMETRY Interchangeable

INVARIANTS
  InFlightUndisturbed
