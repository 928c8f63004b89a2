SPECIFICATION Spec
CONSTANTS
  e1 = e1
  e2 = e2
  correlation = correlation
  notifier = notifier
  p1 = p1
  p2 = p2
  p3 = p3
  Events = {e1, e2}
  Consumers = {correlation, notifier}
  Processes = {p1, p2, p3}
  ConsumerOf <- SharedAndRelayed
  Relays = {p3}
  Careless = {}
  Limit = 2
  MaxAttempts = 2
  StaleAfter = 2
  Backoff = 1
  MaxFaults = 1
  BoundedIO = TRUE
  None = None
SYMMETRY EventsAndTwins
INVARIANT AttemptsAccounted
INVARIANT OneHolder
PROPERTY AtLeastOnceDelivery
