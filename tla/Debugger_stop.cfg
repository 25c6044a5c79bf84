SPECIFICATION FairDebugSpec
CONSTANTS
  d = d
  Dbg = d
  Runner = {d}
  Opcode = {"RST", "HLT"}
  MemSize = 1
  MaxLimit = 1
  MaxRequests = 1
  MaxBreakpoints = 0
PROPERTY StopEndsDebugRun
