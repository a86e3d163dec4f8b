SPECIFICATION Spec
CONSTANTS
  Half = 1
  Bits = 2
  QMax = 2
  MaxUp = 0
  MaxDn = 5
  MaxOutage = 1
  MaxWire = 2
  MaxCopies = 2
INVARIANTS
  IInv
  DnInOrder
  DnAckedSeen
PROPERTIES
  DnImplements
