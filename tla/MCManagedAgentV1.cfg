SPECIFICATION LiveSpec
CONSTANTS
  MaxTurns = 2
  None = none
  Tools = {a}
  CustomCalls = {c1}
  ServerCalls = {s1}
  DeleteOnFinish = TRUE
  MaxWire = 1
INVARIANTS
  TypeOK
  RunsAreAsked
  NoMutualWait
  SessionFitsTurn
PROPERTY StreamIsServed
