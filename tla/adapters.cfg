SPECIFICATION FairSpec
CONSTANTS
  w1 = w1
  w2 = w2
  r1 = r1
  r2 = r2
  pseudo = pseudo
  Workers = {w1, w2}
  Requests = {r1, r2}
  Plans <- Requested
  Lists <- Configured
  Foreign <- Operators
  MaxInflight = 2
  MaxKills = 1
  MaxFaults = 1
  Malformed = Malformed
  None = None
CHECK_DEADLOCK FALSE
INVARIANT NeverBlocked
INVARIANT ForeignKept
INVARIANT EnforcedAsRecorded
PROPERTY DeadMansTimeout
