SPECIFICATION SettlingSpec
CONSTANTS
  CustomCalls = {c1, c2}
  ServerCalls = {s1}
  Unregistered = {c2}
  DeleteOnFinish = TRUE
  MaxCycles = 3
  MaxTurns = 2
  MaxWire = 2
  MaxFaults = 1
INVARIANTS
  TypeOK
  RepliesArePending
  NoMutualWait
  EndIsReported
PROPERTIES
  ImplementsLedger
  TurnEnds
