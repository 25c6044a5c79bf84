SPECIFICATION CmdSpec
CONSTANTS
  Size = 3
  Value = {0, 1, 255}
  Zero = 0
  OpenBus = 255
  NotBurned = NotBurned
  NoProgram = NoProgram
  Maps <- MCMaps
  Blocks <- MCBlocks
  Requests <- MCGoodRequests
INVARIANTS
  StatusIsHonest
  TraceIsSound
  ProgramIsWhole
CHECK_DEADLOCK FALSE
