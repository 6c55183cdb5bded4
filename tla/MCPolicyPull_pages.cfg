SPECIFICATION FairSpec
CONSTANTS
  Hash <- MCHash
  NoHash = NoHash
  Nothing = Nothing
  Node <- MCNode
  Feedable <- MCFeedable
  Accepts <- MCSome
  Applies <- MCAll
  Vouched <- MCVouched
  Unsound = {}
  Limit = 1
  MaxFetch = 2
  MaxPosts = 4
  MaxPulls = 1
  MaxFaults = 2
CHECK_DEADLOCK FALSE
INVARIANTS
  PagesComplete
  GapsNamed
  FollowerNotBehind
  NeverBack
PROPERTIES
  PullEnds
