SPECIFICATION DeliverySpec
\* Calls: every operation, retries on, a cookie session.
CONSTANTS
  MaxAttempts = 3
  BaseDelay = 1
  DelayCap = 3
  FloorCap = 4
  MaxHint = 5
  RetryEnabled = TRUE
  Device = FALSE
  Operations = {"check", "read", "write", "login", "introspect", "grant", "registration", "poll"}
\* Events.
  Threads = {t1, t2}
  Jtis = {j1, j2}
  Keys = {k1, k2}
  Bogus = Bogus
  None = None
  Window = 3
  Retention = 3
  TTL = 3
  Interval = 1
  MaxFlight = 1
  MaxTime = 3
  MaxCrashes = 1
SYMMETRY Alike
CONSTRAINT FewAtOnce
INVARIANTS
  WritesLandOnce
  AttemptsAreBounded
  WaitsAreAsTold
  NoEventIsLost
  EachEventOnce
  KeysAreCurrent
