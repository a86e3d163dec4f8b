SPECIFICATION IlaSpec
CONSTANTS
  Depth = 100
  Size = 128
  Numbers = 128
  TestSizes = {60, 100}
  MaxTests = 2
  Gap = 12
PROPERTIES
  TriggerStarts
