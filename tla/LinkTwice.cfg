SPECIFICATION Spec
CONSTANTS
  Half = 1
  Bits = 2
  QMax = 1
  MaxUp = 1
  MaxDn = 0
  MaxOutage = 1
  MaxWire = 2
  MaxCopies = 2
INVARIANTS
  UpNoDuplicate
