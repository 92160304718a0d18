SPECIFICATION SsfSpec
CONSTANTS
  Threads = {t1}
  Jtis = {j1}
  Keys = {k1, k2}
  Bogus = Bogus
  None = None
  Window = 4
  Retention = 4
  TTL = 4
  Interval = 2
  MaxFlight = 1
  MaxTime = 4
  MaxCrashes = 0
PROPERTY OutageIsNoVerdict
