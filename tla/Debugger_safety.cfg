SPECIFICATION DebugSpec
CONSTANTS
  d = d
  Dbg = d
  Runner = {d}
  Opcode = {"RST", "OUT", "HLT"}
  MemSize = 2
  MaxLimit = 1
  MaxRequests = 1
  MaxBreakpoints = 1
VIEW DebugView
INVARIANTS
  OneInstruction
  BreakpointHolds
  AccessesBelong
  EventNamesOpcode
  WatchpointStops
