CONSTANTS
  Proc = {p1, p2}
  Artifacts <- Harness
  Version = {v1, v2}
  MaxEdits = 1
  Crashes = TRUE
SPECIFICATION Spec
SYMMETRY Symmetric
INVARIANTS
  TypeOK
  SeenTextIsSafe
  ConflictWritesNothing
  DoneIsComplete
