SPECIFICATION Spec
INVARIANTS
  AdditionExact
  SubtractionExact
  LogicConsistent
  DecimalSum
CHECK_DEADLOCK FALSE
