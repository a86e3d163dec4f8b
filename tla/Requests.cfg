SPECIFICATION FairSpec
CONSTANTS
  CopiMax = 1
  CipoMax = 1
  Readable = {leds, buttons}
  Writable = {leds}
  AtReset <- LedsAndButtons
  Leds = leds
  Lit = 2
  Values = {1}
  Fifos = {0}
  Groups = {2}
  MaxClicks = 3
INVARIANTS
  BulkIsDue
  BulkIsWhole
  AnsweredInOrder
  ReadsLatest
PROPERTIES
  Answered
CHECK_DEADLOCK FALSE
