CONSTANTS
  Wirings = {w1, w2}
  None = None
  FailureThreshold = 2
  MaxTicks = 2
  MaxFaults = 3
SPECIFICATION Spec
SYMMETRY WiringSymmetry
INVARIANT CleanLeave
