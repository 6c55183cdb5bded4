SPECIFICATION Spec
CONSTANTS
  k1 = k1
  k2 = k2
  k3 = k3
  a = a
  b = b
  f1 = f1
  f2 = f2
  p1 = p1
  p2 = p2
  Key <- MCKey3
  Role <- MCRole
  Content <- MCContent2
  File <- MCFile1
  Operator <- MCOperator1
  Time <- MCTime1
  Node <- MCNode4
  Rules <- MCRules
  NoSig = NoSig
  Absent = Absent
  Empty = Empty
  Mixed = Mixed
  MaxCommands = 4
  MaxEdits = 2
  MaxCrashes = 0
  MaxTime = 1
ACTION_CONSTRAINT OneAdmission
CHECK_DEADLOCK FALSE
CONSTRAINT Explored
INVARIANTS
  QuorumBacked
  SigningKeepsAcceptance
