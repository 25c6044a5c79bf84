SPECIFICATION FairDebugSpec
CONSTANTS
  d = d
  Dbg = d
  Runner = {d}
  Opcode = {"RST", "HLT", "UNDEF"}
  MemSize = 1
  MaxLimit = 2
  MaxRequests = 2
  MaxBreakpoints = 0
PROPERTIES
  StopEndsRun
  LimitEndsRun
  InterruptServed
  DebugRunEnds
