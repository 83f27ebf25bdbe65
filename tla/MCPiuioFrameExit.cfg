SPECIFICATION PiuioSpec
CONSTANTS
  dark = dark
  lit = lit
  LastSensor = 3
  Lights = {dark, lit}
  Paths = {"native"}
  MaxMoves = 2
INVARIANTS ExitOnlyOnButtons
CHECK_DEADLOCK FALSE
