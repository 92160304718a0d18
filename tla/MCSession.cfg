SPECIFICATION Spec
CONSTANTS
  t1 = t1
  t2 = t2
  alice = alice
  bob = bob
  tenant = tenant
  Gadget = gadget
  Configured = configured
  None = None
  Threads <- TwoThreads
  Principals <- PrincipalsMC
  Tenants <- TenantsMC
  Reach <- ReachMC
  MaxCalls = 4
SYMMETRY Symmetric
VIEW ReadLater
INVARIANTS
  DeviceFlagMatches
  UncontendedDecisionsAreRight
PROPERTIES
  UncontendedSignInIsWhole
