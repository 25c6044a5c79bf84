SPECIFICATION Spec
CONSTANTS
  StartRegisters <- MCRegisters
  StartFlags <- MCFlags
  StartSP = {0, 1, 65534}
  Operand = {0, 1, 255}
INVARIANTS
  DecoderAgrees
  ReturnUndoesCall
  InversesUndo
  DisassemblyAgrees
CHECK_DEADLOCK FALSE
