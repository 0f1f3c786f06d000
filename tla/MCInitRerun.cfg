CONSTANTS
  Proc = {p1, p2}
  Artifacts <- Harness
  Version = {v1}
  MaxEdits = 0
  Crashes = TRUE
SPECIFICATION Spec
INVARIANT OnlyUserFilesConflict
