SPECIFICATION Spec
CONSTANTS
  piuio = piuio
  piubtn = piubtn
  Devices = {piuio, piubtn}
  PIUIO = piuio
  Boards = {piuio}
  NULL = NULL
  Drivers = {TRUE}
  MaxScans = 4
INVARIANTS HeldIsOpen
