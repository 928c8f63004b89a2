SPECIFICATION Spec
CONSTANTS
  w1 = w1
  w2 = w2
  r1 = r1
  r2 = r2
  nft = nft
  hap = hap
  g1 = g1
  g2 = g2
  g3 = g3
  g4 = g4
  k1 = k1
  Workers = {w1, w2}
  Requests = {r1}
  Rules = {nft}
  Gens = {g1, g2}
  Kills = {}
  PlanOf <- OnePlan
  Mandatory <- OneMandatory
  KillTarget <- NoKill
  SelfExpiring = {nft}
  Idempotent = {nft}
  Timeout = 2
  LeaseTerm = 1
  Ttl = 1
  ApprovalWindow = 3
  MaxRetries = 1
  MaxFaults = 1
  BoundedIO = FALSE
  None = None
SYMMETRY WorkersAndGens
INVARIANT OneOwner
INVARIANT ReceiptsMatch
INVARIANT SuccessHasReceipt
INVARIANT LiveLeaseNotStolen
INVARIANT NoOrphanRule
PROPERTY SettledStaysSettled
