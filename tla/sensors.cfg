SPECIFICATION IngressFairSpec
CONSTANTS
  Kinds = {"linux", "haproxy", "docker"}
  MaxEntries = 3
  LineOf <- ThreeLines
  SecondOf <- SharedSecond
  BatchMax = 2
  IngressMax = 2
  MaxBuffered = 3
  ChannelCap = 1
  MaxRequests = 2
  MaxFaults = 2
  None = None
CHECK_DEADLOCK FALSE
INVARIANT Accounted
PROPERTY Drains
