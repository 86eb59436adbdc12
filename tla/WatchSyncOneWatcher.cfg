SPECIFICATION Spec
CONSTANTS
  a = a
  b = b
  x = x
  y = y
  Paths <- TwoPaths
  Texts <- TwoTexts
  First <- OneFile
  None = None
  MaxFiles = 1
  MaxStarts = 2
  MaxEdits = 2
  MaxEvents = 3
  MaxJobs = 2
  MaxFaults = 1
INVARIANT OneWatcher
