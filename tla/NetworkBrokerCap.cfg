CONSTANTS
  Ids = {n1, n2}
  Agents = {a1}
  SoftCap = 1
  MaxStops = 2
SPECIFICATION Spec
SYMMETRY BrokerSymmetry
INVARIANT SoftCapRespected
