SPECIFICATION Spec
CONSTANTS
  bot = bot
  a1 = a1
  a2 = a2
  block = block
  quarantine = quarantine
  c1 = c1
  c2 = c2
  e1 = e1
  e2 = e2
  d1 = d1
  d2 = d2
  src = src
  k1 = k1
  Users = {bot, a1, a2}
  RoleOf <- Roles
  Actions = {block, quarantine}
  Listable = {block}
  TwoPerson = {quarantine}
  Callers = {c1, c2}
  Engines = {e1, e2}
  Decisions = {d1, d2}
  TargetOf <- OneSource
  ScoreOf <- BlockScores
  Snapshot = {d1, d2}
  Keys = {k1}
  BlockAction = block
  BridgeUser = bot
  Deployments <- AllDeployments
  Window = 1
  EvidenceAge = 1
  BudgetMax = 1
  BudgetWindow = 1
  MaxRequests = 2
  MaxNow = 1
  MaxChanges = 1
  MaxRetries = 1
  None = None
SYMMETRY Twins
CHECK_DEADLOCK FALSE
INVARIANT Backed
INVARIANT KeyBound
INVARIANT ProposalsBounded
PROPERTY EnqueuedIsCurrent
