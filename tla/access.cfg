SPECIFICATION Spec
CONSTANTS
  a = a
  b = b
  m = m
  root = root
  vera = vera
  uli = uli
  s0 = s0
  t0 = t0
  tm = tm
  tl = tl
  k1 = k1
  Clients = {a, b, m}
  Mcp = m
  Deployments <- Setups
  Users = {root, vera, uli}
  Creds = {s0, t0, tm, tl, k1}
  McpToken = tm
  LearningToken = tl
  MaxCalls = 2
  MaxFaults = 1
  None = None
CHECK_DEADLOCK FALSE
INVARIANT Authorised
INVARIANT TrailComplete
INVARIANT RowsDelivered
INVARIANT ToolsServable
