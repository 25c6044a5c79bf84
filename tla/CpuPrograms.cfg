SPECIFICATION Spec
CONSTANTS
  Extra <- MCExtra
  MaxSteps = 20
  MaxDisturbances = 2
INVARIANTS
  InterruptsTransparent
  SuiteVerdicts
  TimeAccounted
PROPERTY ProgramsEnd
CHECK_DEADLOCK FALSE
