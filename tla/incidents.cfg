SPECIFICATION IncidentFairSpec
CONSTANTS
  e1 = e1
  e2 = e2
  e3 = e3
  A = A
  p1 = p1
  q1 = q1
  Events = {e1, e2, e3}
  Attr <- Episodes
  Window = 2
  Correlators = {p1}
  Promoters = {q1}
  MaxCandidates = 3
  MaxFaults = 1
  None = None
CHECK_DEADLOCK FALSE
INVARIANT Consistent
INVARIANT SeparateEpisodes
PROPERTY EventsReachIncidents
