SPECIFICATION MCSpec
CONSTANTS
  MaxLoad = 24
  Depth = 100
  Size = 128
  Numbers = 128
  TestSizes = {100}
  MaxTests = 3
  Gap = 12
  MemoryDepth = 100
  MemoryNumbers = 128
  TransferClocks = 600
  CommandClocks = 200
  EdgeClocks = 12
  Rounds = 2
  Places = 32
  FifoTests <- ThreeTests
  Apart = 16
  Word = {a, b}
  NoWord = noWord
  CoreSize = 3
  ClockyTop = 100
  ClockyWidth = 7
  Trefi = 390
  FirstWait = 48
  SecondWait = 72
  Divisor = 25
  TimerLoad = 100
  DelayClocks = 25
  Repeats = 3
INVARIANTS
  GatewareTypeOK
  OnTime
  CapturesAreRead
PROPERTIES
  AtTheirLimits
  Ends
  TestEnds
  FifoReadsBack
  BufferImplements
  WordsAreOffered
  WaitsInTurn
  TimerTestEnds
