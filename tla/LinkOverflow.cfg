SPECIFICATION Spec
CONSTANTS
  Half = 1
  Bits = 2
  QMax = 1
  MaxUp = 0
  MaxDn = 2
  MaxOutage = 1
  MaxWire = 2
  MaxCopies = 2
INVARIANTS
  DnAckedQueued
