SPECIFICATION Spec
CONSTANTS
  Procs = {p1, p2}
  Formats = {"json", "csv"}
  MaxRows = 3
  MaxExports = 2
  MaxDeaths = 1
  NoOne = NoOne
INVARIANTS
  ExportFaithful
  SealMatches
  SomebodyGoesOn
SYMMETRY Symmetry
CHECK_DEADLOCK FALSE
