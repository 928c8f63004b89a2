SPECIFICATION FairSpec
CONSTANTS
  q1 = q1
  q2 = q2
  r1 = r1
  Adapters = {"docker", "proxmox"}
  Workers = {w1, w2}
  Quarantines = {q1, q2}
  Reconciles = {r1}
  Asked <- RequestsOfEach
  MaxVer = 2
  MaxTasks = 3
  MaxFaults = 1
  None = None
CHECK_DEADLOCK FALSE
INVARIANT Isolation
INVARIANT DriftKept
INVARIANT ApplyFenced
PROPERTY DueEnds
