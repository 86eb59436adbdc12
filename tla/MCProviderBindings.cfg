SPECIFICATION Spec
CONSTANTS
  Callers = {t1, t2, t3}
  Versions = {1, 2}
  Configs = {f1}
  NoCaller = NoCaller
  NoBinding = NoBinding
  MaxAgents = 3
INVARIANTS
  TypeOK
  AnswersAreCurrent
PROPERTIES
  CreatesOnce
  EveryCallEnds
  ImplementsStore
