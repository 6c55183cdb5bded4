SPECIFICATION Spec
CONSTANTS
  k1 = k1
  k2 = k2
  k3 = k3
  a = a
  b = b
  f1 = f1
  f2 = f2
  p1 = p1
  p2 = p2
  Key <- MCKey2
  Role <- MCRole
  Content <- MCContent1
  File <- MCFile2
  Operator <- MCOperator2
  Time <- MCTime0
  Node <- MCNode1
  Rules <- MCRules
  NoSig = NoSig
  Absent = Absent
  Empty = Empty
  Mixed = Mixed
  MaxCommands = 4
  MaxEdits = 0
  MaxCrashes = 1
  MaxTime = 0
CONSTRAINT Plain
SYMMETRY Symmetry
CHECK_DEADLOCK FALSE
INVARIANTS
  WorkAccumulates
