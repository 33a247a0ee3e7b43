SPECIFICATION Spec
CONSTANTS
  MSS = 3
  Span = 2
  MaxCwnd = 3
  MaxTimeout = 1
  MaxBytes = 7
INVARIANTS
  TypeOK
  LoopTakesARun
  ControlIsAllOrNothing
  DamageIsContained
CHECK_DEADLOCK FALSE
