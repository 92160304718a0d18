SPECIFICATION Spec
CONSTANTS
  t1 = t1
  t2 = t2
  k1 = k1
  k2 = k2
  s1 = s1
  Other = Other
  None = None
  Threads <- TwoThreads
  Keys <- KeysMC
  Sessions <- SessionsMC
  Tokens <- TokensMC
  TTL = 2
  Cooldown = 2
  Poll = 2
  Skew = 1
  MaxFlight = 1
  MaxTime = 3
  MaxCalls = 3
  Failing = TRUE
CONSTRAINT OneAtATime
SYMMETRY Symmetric
INVARIANTS
  AcceptedIsGenuine
  PollIsHonoured
PROPERTIES
  ForcedFetchesAreRationed
  RevocationsStand
CHECK_DEADLOCK FALSE
