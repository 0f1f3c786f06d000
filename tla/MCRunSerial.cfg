CONSTANTS
  Proc = {p1, p2}
  TornWrites = TRUE
  Step <- MCStep
  Plan <- AllPlans
  MaxScripts = 1
  MaxEdits = 1
  Executors = {"dry_run", "fake", "command"}
  Concurrent = FALSE
  Crashes = TRUE
SPECIFICATION FairSpec
INVARIANTS
  TypeOK
  SideEffectsAuthorized
  FinishedIsEarned
  SequenceIsPosition
  QuiescentAgreement
  ReexecutionOnlyAfterFailure
PROPERTIES
  ImplementsRunStatus
  EndsUnlessAChildHangs
