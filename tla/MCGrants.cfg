\* A burst of refreshes, and both polling loops with retries on.
SPECIFICATION GrantsSpec
CONSTANTS
  t1 = t1
  t2 = t2
  t3 = t3
  k1 = k1
  k2 = k2
  a1 = a1
  a2 = a2
  Threads <- ThreadsMC
  Tokens <- TokensMC
  Addresses <- AddressesMC
  Null = Null
  Kinds = {"ok", "auth", "network"}
  MaxCalls = 1
  Second = 2
  Interval = 1
  Increment = 1
  ExpiresIn = 6
  Budget = 3
  MaxBackoff = 1
  MaxHint = 2
  MaxFlight = 1
  MaxPause = 2
INVARIANTS
  HeapIsSound
  NothingAfterDeadline
  PollsAreSpaced
  OutcomeIsTrue
PROPERTIES
  CoalescesCalls
  EveryCallerReturns
  EveryCallReturns
