SPECIFICATION FairSpec
CONSTANTS
  p1 = p1
  p2 = p2
  i1 = i1
  uOpen = uOpen
  uSigned = uSigned
  uBroken = uBroken
  uAway = uAway
  Proc <- MCProc1
  Body <- MCBody
  Issuer <- MCIssuer
  Update <- MCAll
  Elsewhere <- MCElsewhere
  PolicyOf <- MCPolicyOf
  Accepts <- MCAccepts
  Managed <- MCManaged
  Genesis <- MCGenesisOpen
  NoPolicy = NoPolicy
  NoArg = NoArg
  Absent = Absent
  Empty = Empty
  Mixed = Mixed
  NodeKey = TRUE
  Sqlite = TRUE
  MaxRequests = 3
  MaxFaults = 2
CHECK_DEADLOCK FALSE
INVARIANTS
  LastRowIsActive
PROPERTIES
  KeepsPromise
