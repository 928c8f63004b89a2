SPECIFICATION FairSpec
CONSTANTS
  w1 = w1
  w2 = w2
  r1 = r1
  r2 = r2
  nft = nft
  hap = hap
  g1 = g1
  g2 = g2
  g3 = g3
  g4 = g4
  k1 = k1
  Workers = {w1}
  Requests = {r1}
  Rules = {nft, hap}
  Gens = {g1, g2}
  Kills = {k1}
  PlanOf <- FanPlan
  Mandatory <- OneMandatory
  KillTarget <- OneKill
  SelfExpiring = {nft}
  Idempotent = {nft}
  Timeout = 1
  LeaseTerm = 2
  Ttl = 1
  ApprovalWindow = 3
  MaxRetries = 0
  MaxFaults = 1
  BoundedIO = TRUE
  None = None
INVARIANT NeverUndoneEarly
INVARIANT FailedIsEffectFree
PROPERTY TtlEnforced
PROPERTY KillServed
