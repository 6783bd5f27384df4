\* Two processors and two sources of SMIs.
SPECIFICATION FairSpec
CONSTANTS
  c1 = c1
  c2 = c2
  CPUs = {c1, c2}
  e1 = e1
  e2 = e2
  Events = {e1, e2}
  Addresses = {1, 2}
INVARIANTS
  HandlerExclusive
  PciAddressRestored
PROPERTIES
  
  SmiHandled
