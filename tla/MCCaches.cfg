SPECIFICATION CachesSpec
CONSTANTS
  t1 = t1
  t2 = t2
  k1 = k1
  k2 = k2
  k3 = k3
  Null = Null
  Threads <- ThreadsMC
  Keys <- KeysMC
  Bodies <- BodiesMC
  Requested <- RequestedMC
  MaxTTL = 2
  Cap = 2
  MaxTime = 3
  NoOne = NoOne
  Callers <- ThreadsMC
  Requests = {"r1", "r2"}
  DiscoveryTtl = 1
  TtlFloor = 2
  UmaTtl = 2
  TokenLife = 1
  Skew = 1
  MaxTransit = 1
  MaxDocuments = 2
  MaxNow = 3
SYMMETRY Symmetric
INVARIANTS
  BoundedAndUnique
  DocumentsAreCurrent
  AcceptedIsThisRequests
PROPERTY MemoIsACache
\* Every operation may end, and the clocks are bounded.
CHECK_DEADLOCK FALSE
