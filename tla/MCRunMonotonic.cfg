CONSTANTS
  Proc = {p1, p2, p3}
  TornWrites = FALSE
  Step <- MCStep
  Plan <- OnePlan
  MaxScripts = 1
  MaxEdits = 0
  Executors = {"fake"}
  Concurrent = TRUE
  Crashes = FALSE
SPECIFICATION Spec
INVARIANT SequenceMonotonic
