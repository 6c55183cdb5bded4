SPECIFICATION Spec
CONSTANTS
  Procs = {p1, p2}
  Files = {f1}
  Docs = {d1, d2, d3}
  Genuine = {d1, d2}
  d1 = d1
  d2 = d2
  d3 = d3
  i1 = i1
  i2 = i2
  Ids = {i1, i2}
  IdOf <- MCIdOf
  None = None
INVARIANTS
  StoredIsIndexed
  IngestedOnce
  StoredIsWhole
  NothingVanishes
  DecidedOnce
SYMMETRY Symmetry
VIEW Seen
CHECK_DEADLOCK FALSE
