SPECIFICATION Spec
CONSTANTS
  CopiMax = 2
  CipoMax = 1
  Readable = {leds, buttons}
  Writable = {leds}
  AtReset <- LedsAndButtons
  Leds = leds
  Lit = 2
  Values = {1}
  Fifos = {1}
  Groups = {1}
  MaxClicks = 3
INVARIANTS
  NoResponseDropped
CHECK_DEADLOCK FALSE
