SPECIFICATION Spec
CONSTANTS
  managed = managed
  google = google
  hermes = hermes
  t1 = t1
  t2 = t2
  d1 = d1
  s1 = s1
  s2 = s2
  Agents = {managed, google, hermes}
  Streams = {s1, s2}
  Texts = {t1, t2}
  Digest <- MCDigest
  Kind <- MCKind
  Inputs <- MCInputs
  Blank = Blank
  Plans <- MCPlans
  Attempts <- MCAttempts
  MaxDeltas = 2
  MaxRetries = 1
INVARIANTS
  TypeOK
  RecordedOnce
  DeltasKept
  FlushCompletes
CHECK_DEADLOCK FALSE

  
