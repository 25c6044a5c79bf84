SPECIFICATION Spec
CONSTANTS
  r1 = r1
  r2 = r2
  Runner = {r1, r2}
  Opcode = {"NOP", "RST", "HLT", "UNDEF"}
  MemSize = 2
  MaxLimit = 1
  MaxRequests = 2
SYMMETRY RunnerSymmetry
INVARIANTS
  OneRunner
  InterruptLedger
  WaitCoherent
  ReasonTruthful
PROPERTIES
  LatchSpec
  StopAnswered
  CyclesInOrder
