CONSTANTS
  Proc = {p1, p2}
  TornWrites = FALSE
  Step <- MCStep
  Plan <- ShortPlan
  MaxScripts = 1
  MaxEdits = 0
  Executors = {"command"}
  Concurrent = FALSE
  Crashes = FALSE
SPECIFICATION FairSpec
PROPERTY ChecksAreSettled
