SPECIFICATION Spec
CONSTANTS
  Banks = {0, 1}
  Rows = {0}
  Starts = {0}
  ModeWords = {34, 49}
  tSTARTUP = 2
  tRP = 1
  tRC = 2
  tMRD = 1
  tRCD = 2
  tRAS = 8
  tDAL = 2
INVARIANTS
  ReadsAreReturned
  NothingBeforeInit
PROPERTIES
  WriteRecovers
  RowIsActive
CHECK_DEADLOCK FALSE
