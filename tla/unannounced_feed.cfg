SPECIFICATION Spec
CONSTANTS
  w1 = w1
  w2 = w2
  drop = drop
  ripe = ripe
  peering = peering
  net = net
  as1 = as1
  old = old
  new = new
  Workers = {w1, w2}
  Threat <- OneFeed
  Network <- TwoNetworks
  Format <- Formats
  Answers <- Served
  Requests = {ripe}
  Lag = 2
  MaxChanges = 1
  MaxFaults = 1
  None = None
INVARIANT NewIndicatorsAnnounced
