SPECIFICATION FairSpec
CONSTANTS
  Half = 1
  Bits = 2
  QMax = 3
  MaxUp = 1
  MaxDn = 1
  MaxOutage = 1
  MaxWire = 1
  MaxCopies = 1
INVARIANTS
  NothingBeforeAccepted
PROPERTIES
  DnDelivered
