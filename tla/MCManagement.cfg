CONSTANTS
  Tasks <- SurfaceTasks
  Editors = {e1, e2}
  Events = {"logout", "disabled"}
  MaxVersion = 3
  Rows = {"r1", "r2", "r3"}
  Matches = {"r1", "r3"}
  Limits = {0, 1, 3}
  Offsets = {0, 1}
  DefaultLimit = 2
  ServerCap = 2
SPECIFICATION ManagementSpec
SYMMETRY EditorsAreAlike
INVARIANTS
  NothingUnknownIsSent
  WalkIsComplete
PROPERTY EditsKeepTheRest
CHECK_DEADLOCK FALSE
