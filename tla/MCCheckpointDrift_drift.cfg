CONSTANTS
  o1 = o1
  o2 = o2
  a = a
  b = b
  None = None
  Local = L
  Remote = R
  Operators <- MCOperators
  Policies <- MCPolicies
  Keyed = {L}
  MaxPolicies = 3
  MaxJobs = 2
  MaxFaults = 1
  MaxSeconds = 1
SPECIFICATION Spec
INVARIANTS
  CheckpointsTrue
  ClassIsTrue
SYMMETRY MCSymmetry
CHECK_DEADLOCK FALSE
