CONSTANTS
  Tools = {"git", "node"}
  Repos <- SomeRepos
  Requests <- SomeRequests
  NoRequest = NoRequest
  MaxLeft = 2
SPECIFICATION Spec
INVARIANTS
  TypeOK
  NoCallUnattended
  ChecksOneAtATime
  DoneLeavesNothing
  EveryCheckReported
  RoutingLeavesOutNone
  ClaudeCoordinates
PROPERTIES
  OkOnlyInTime
  AgentsAnswer
  EndsWithItsChildren
