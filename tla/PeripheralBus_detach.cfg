SPECIFICATION Spec
CONSTANTS
  Port = {p0, p1}
  Name = {terminal, register}
  Handler = {t, r}
  Nobody = Nobody
  NoHandler = NoHandler
PROPERTY DetachOnlyOwned
CHECK_DEADLOCK FALSE
