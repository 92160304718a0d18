\* The calls of MCSession: alice signs in, the client signs in as the device,
\* bob signs in.
SPECIFICATION Spec
CONSTANTS
  t1 = t1
  t2 = t2
  alice = alice
  bob = bob
  tenant = tenant
  Gadget = gadget
  Configured = configured
  None = None
  Threads <- TwoThreads
  Principals <- PrincipalsMC
  Tenants <- TenantsMC
  Reach <- ReachMC
  MaxCalls = 4
SYMMETRY Symmetric
VIEW ReadLater
PROPERTY SignedInSessionIsUsed
