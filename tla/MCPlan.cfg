CONSTANTS
  Planner = {p1, p2}
  Runner = {r1}
  Task = {"add cache a"}
  Slug <- SomeSlug
  Repo <- SomeRepos
  Answer <- SomeAnswers
  Edit <- SomeEdits
  MaxClock = 2
  MaxEdits = 1
  p1 = p1
  p2 = p2
  r1 = r1
SPECIFICATION Spec
INVARIANTS
  TypeOK
  PlansKeepTheirFile
  DefaultsFitTheGates
PROPERTIES
  ClaudeOnlyAdvises
  PlansEnd
