CONSTANTS
  Files <- MCFiles
  k1 = k1
  k2 = k2
  o1 = o1
  o2 = o2
  NoAnchor = NoAnchor
  Policies <- MCPolicies
  Facts <- MCFacts
  Keys <- MCKeys
  Operators <- MCOperators
  MaxEntries = 3
  MaxInspections = 1
  MaxTime = 1
  Sources <- MCKeys
  Builders <- MCOperators
  MaxVersion = 2
  MaxBuilds = 2
SPECIFICATION GovernanceSpec
INVARIANTS EveryNormHolds NoDifferenceNoEffect VerifiedReceiptIsTrue MissingNeverPermits
  InspectionIsRight BuiltAloneVerifies
SYMMETRY MCSymmetry
CHECK_DEADLOCK FALSE
