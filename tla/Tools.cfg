SPECIFICATION MCSpec
CONSTANTS
  MaxLines = 2
  MaxBytes = 3
  MaxCuts = 1
  CommandBits = 8
  WordBits = 16
  HalfClocks = 12
  Addresses <- TwoAddresses
  SpiWords <- TwoWords
  ResetClocks = 5
  RiseClocks = 5
  SkewClocks = 2
  MaxEdits = 1
  ClkIns = {5, 25}
  Freqs = {25, 143, 100, 500}
  MaxOuts = 2
  DivMax = 128
  VcoMin = 400
  VcoMax = 800
  ClkiMin = 8
  ClkiMax = 400
  ClkoMin = 4
  ClkoMax = 400
  RefreshTime = 3
  PerRefresh = 5
  CounterMax = 15
  LastCount = 256
  HeadStart = 520
  FifoSizes = {100, 1000}
  Timeout = 12
  KaInterval = 3
  FlashTime = 8
  OffTime = 24
  WifiTime = 7
  MaxDelay = 1
  ServerLag = 1
  WakeTime = 2
  Half = 1
  Bits = 2
  MaxWritten = 5
  MaxRestarts = 2
  MaxBreaks = 1
  MaxAbout = 2
INVARIANTS
  ToolsTypeOK
  WholeLines
  TransfersWhole
  StartsAsAsked
  LockFits
  AllReadInOrder
PROPERTIES
  DoneIsDone
  OnlyWholeRefreshes
  TimeoutsAreRight
  LivesAreApart
CHECK_DEADLOCK FALSE
