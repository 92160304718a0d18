SPECIFICATION FairSpec
CONSTANTS
  t1 = t1
  t2 = t2
  t3 = t3
  Threads <- ThreadsMC
  Kinds = {"ok", "auth"}
  MaxCalls = 2
INVARIANTS
  AtMostOneFlight
  SleepersAreAwaited
PROPERTIES
  FollowerReturnsSettled
  EveryCallerReturns
