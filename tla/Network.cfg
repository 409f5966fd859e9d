SPECIFICATION Spec
CONSTANTS
  None = None
  MaxConstructedDepth = 32
  MaxElements = 4096
  MaxStringLength = 65535
  MaxBitStringBits = 65535
  MaxDatagramSize = 65535
  MaxAPDUSize = 1476
  Client <- MCClient
  Server <- MCServer
  Broker <- MCBroker
  NearPort <- MCNearPort
  FarPort <- MCFarPort
  NearNet = 1
  FarNet = 65534
  Ways <- MCWays
  Samples <- MCSamples
  InvokeID = 255
  b1 = b1
  b2 = b2
  h1 = h1
  h2 = h2
  f1 = f1
  BBMDs = {b1, b2}
  Hosts = {h1, h2}
  Foreign = {f1}
  SubnetOf <- MCSubnetOf
  Home <- MCHome
  Masks <- MCMasks
  TTL = 2
  Grace = 1
  MaxForeign = 1
  RoundTrip = 0
  ApduTimeout = 1
  MaxOps = 1
  Instances = {1, 2}
  Paths = {1, 2}
  MaxPaths = 1
  MaxObs = 2
  ObsTTL = 2
  MaxWindow = 1
  Networks = {1, 2}
  Hops = {"r1", "r2"}
  MaxPerNet = 2
  MaxGlobal = 3
  RouteTTL = 1
  BusyTime = 1
INVARIANTS
  DeliveredOnce  DiscoverComplete RouteIsAnnounced
  ReadAsWritten 
CHECK_DEADLOCK FALSE
