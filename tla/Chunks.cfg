SPECIFICATION Spec
CONSTANTS
  MaxLines = 2
  MaxBytes = 3
  MaxCuts = 0
INVARIANTS
  ChunksDoNotMatter
CHECK_DEADLOCK FALSE
