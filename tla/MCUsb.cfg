SPECIFICATION UsbSpec
CONSTANTS
  piuio = piuio
  piubtn = piubtn
  Devices = {piuio, piubtn}
  PIUIO = piuio
  Boards = {piuio}
  NULL = NULL
  Drivers = {FALSE}
  MaxScans = 4
  Callers = {t1, t2, t3}
  Threads = {t1, t2}
  Handlers = {h1, h2}
  Real = Real
  NoThread = NoThread
  Garbage = Garbage
  SIZE_MAX = 4
  MaxTries = 2
  MaxCalls = 2
  Suites = {"lazy_init", "dispatch", "stack", "driver", "boards", "lights", "usb_fix", "dogs"}
  NoDrive = NoDrive
  Failed = Failed
  LightBlocks <- MCLightBlocks
  Presses <- MCPresses
  NoBoard = NoBoard
  MaxPlugs = 3
  DogModulus = 16
  XorWord <- MCXor
  FlashWords = 2
  DogKeyFile <- MCDogKeyFile
  MaxDogKeys = 5
  DogRequests <- MCDogRequests
  Dog40Requests <- MCDog40Requests
  DogMaskKeys = {6, 13}
  DogTimestamps <- MCDogTimestamps
  Disks <- MCDisks
  BusPorts = {"1-1", "1-2", "2-1", "2-2"}
  Sockets <- MCSockets
  FixOptions <- MCFixOptions
PROPERTIES DevicesAreFound ImplementsChain
INVARIANTS PublishedIsReady LockExclusion VisitsInOrder HeldIsOpen LatchIsHeld RealIsSuppressed BoardsAgree OpenIsAllOrNothing DogAnswersAsTaught DrivesAreTheirPlayers
