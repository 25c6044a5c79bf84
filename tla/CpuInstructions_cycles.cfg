SPECIFICATION Spec
CONSTANTS
  StartRegisters <- MCRegisters
  StartFlags <- MCFlags
  StartSP = {0}
  Operand = {0}
INVARIANT AllCyclesDeclared
CHECK_DEADLOCK FALSE
