SPECIFICATION Spec
CONSTANTS
  Size = 4
  Value = {0, 1, 2, 255}
  Zero = 0
  OpenBus = 255
  NotBurned = NotBurned
  Maps <- MCMaps
  Blocks <- MCBlocks
INVARIANTS
  RomKept
PROPERTIES
  RomProtected
  RefusedChangesNothing
CHECK_DEADLOCK FALSE
