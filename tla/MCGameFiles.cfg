SPECIFICATION LoopSpec
CONSTANTS
  Threads = {"game", "loader"}
  MaxHandles = 2
  MaxDepth = 4
  HddSize = 5120
  Suites <- MCSuites
  Disk <- MCDisk
  Names <- MCNames
  dark = dark
  lit = lit
  LastSensor = 3
  Lights = {dark, lit}
  Paths = {"native", "board", "keyboard"}
  MaxMoves = 2
INVARIANTS PassThrough LatchesHoldOpenHandles HddReadsInside GenerationEnds FrameIsFresh LightsReachBoard HoldingExits EmulatedExitIsAsked
PROPERTY TreeAsRedirected
