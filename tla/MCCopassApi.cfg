SPECIFICATION Spec
CONSTANTS
  Calls = {c1, c2}
  c1 = c1
  c2 = c2
  Mixes <- MCMixes
  MaxAttempts = 2
INVARIANTS
  TypeOK
  RepeatedOnlyWhenToldSo
  EnsureOnce
CHECK_DEADLOCK FALSE
PROPERTIES
  CallsEnd
