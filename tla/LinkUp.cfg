SPECIFICATION FairSpec
CONSTANTS
  Half = 1
  Bits = 2
  QMax = 2
  MaxUp = 5
  MaxDn = 0
  MaxOutage = 1
  MaxWire = 1
  MaxCopies = 1
INVARIANTS
  UpInOrder
  UpAckedHeld
PROPERTIES
  UpImplements
  UpDelivered
