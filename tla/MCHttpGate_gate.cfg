SPECIFICATION GateSpec
CONSTANTS
  Procs = {p1, p2}
  Members = {alice}
  Tokens = {t1, t2, t3}
  Roles = {Member}
  Member = Member
  Observer = Observer
  DefaultRole = Member
  NoOne = NoOne
  MaxRows = 3
  Clients = {c1, c2}
  Policies <- MCPolicies
  DefaultLimit = 1
  BucketCap = 1
  KeepMinutes = 0
  MaxMinute = 1
  MaxEvents = 4
SYMMETRY Symmetry
INVARIANTS AnswerWasTrue ListedAreRevoked KeepsAToken WithinLimit
CHECK_DEADLOCK FALSE
