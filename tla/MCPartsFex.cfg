SPECIFICATION PartsSpec
CONSTANTS
  None = None
  NULL = NULL
  NoFile = NoFile
  Absent = Absent
  Suites = {"tool"}
  Pads <- MCPads
  Name <- MCName
  NumButtons <- MCNumButtons
  MaxJoysticks = 2
  KernelBuffer = 2
  Inputs <- MCInputs
  JoystickFiles <- MCJoystickFiles
  Boards <- MCBoards
  Keys <- MCKeys
  Sym <- MCSym
  KEY_MAP_SIZE = 3
  BuiltIn = {"j"}
  KeyFiles <- MCKeyFiles
  KeyInputs <- MCKeyInputs
  Windows = {"main", "other"}
  MaxQueue = 2
  ExcPresses <- MCExcPresses
  EEPROM_SIZE = 3
  EepromBytes = {"b", "c"}
  OtherFiles <- MCOtherFiles
  FileSize = 3
  Modulus = 16
  MaxBytes = 4
  MaxOffset = 0
  Data = {d1, d2}
  AsnClasses <- MCAsnClasses
  AsnValues <- MCAsnValues
  AsnAfter = {0, 255}
  XorByte <- MCXorByte
  ProfileGames = {"fex"}
  ProfileBytes = {3, 60}
  Leftovers = {255}
INVARIANTS WholeIsTheGames
CHECK_DEADLOCK FALSE
