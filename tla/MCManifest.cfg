SPECIFICATION Spec
CONSTANTS
  Texts <- Words
  Manifests <- ManifestsApplied
  Tenants <- TenantsFound
  ScanLimit = 4
  MaxRuns = 3
  MaxFaults = 2
  MaxOthers = 1
  DescribesResources = FALSE
INVARIANTS
  Converges
  AppliedIsStated
  ConflictsAreNotItsOwn
  BindingsAreOnlyMoved
PROPERTIES
  SecretsAreReported
  SilenceChangesNothing
CHECK_DEADLOCK FALSE
