CONSTANTS
  Proc = {p1, p2, p3}
  TornWrites = FALSE
  Step <- MCStep
  Plan <- ShortPlan
  MaxScripts = 1
  MaxEdits = 0
  Executors = {"command"}
  Concurrent = TRUE
  Crashes = TRUE
SPECIFICATION Spec
SYMMETRY Permutation
VIEW LedgerAsSet
INVARIANTS
  CheckpointBacked
  ExitCodeTellsTheRun
  SideEffectsAuthorized
  FinishedIsEarned
