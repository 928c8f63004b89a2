SPECIFICATION Spec
CONSTANTS
  w1 = w1
  w2 = w2
  a1 = a1
  a2 = a2
  i1 = i1
  review = review
  triage = triage
  d1 = d1
  d2 = d2
  d3 = d3
  x1 = x1
  x2 = x2
  x3 = x3
  high = high
  low = low
  Workers = {w1, w2}
  Approvers = {a1, a2}
  Sources = {i1}
  Titles = {high}
  Category <- Incident
  Workflows <- TwoFlows
  CategoryOf <- ForIncidents
  Ids = {d1, d2}
  RunIds = {x1, x2}
  MaxChanges = 1
  MaxFaults = 1
  None = None
SYMMETRY Names
INVARIANT TicksAgree
INVARIANT ApprovalPerRun
