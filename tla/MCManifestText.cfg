SPECIFICATION Spec
CONSTANTS
  Texts <- Words
  Manifests <- ManifestsApplied
  Tenants <- TenantsFound
  ScanLimit = 4
  MaxRuns = 3
  MaxFaults = 2
  MaxOthers = 1
  DescribesResources = TRUE
INVARIANT
  Converges
CHECK_DEADLOCK FALSE
