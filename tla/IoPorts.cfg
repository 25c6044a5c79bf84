SPECIFICATION IoSpec
CONSTANTS
  Port = {p0}
  Name = {n1, n2}
  TTY = TTY
  Handler = {TTY, REG}
  Nobody = Nobody
  NoHandler = NoHandler
  Byte = {0, 1}
  NoByte = NoByte
  Data <- MCData
  MaxTraffic = 3
SYMMETRY Symmetry
INVARIANTS
  OwnersMatchHandlers
  InputInOrder
  LossIsTold
PROPERTIES
  AttachAllOrNothing
  AttachTakesOnlyFree
  OutputStreams
CHECK_DEADLOCK FALSE
