CONSTANTS
  Adder = {a1, a2, a3}
  Lister = {l1}
  NoFile = NoFile
  Limit = 2
  Crashes = TRUE
SPECIFICATION Spec
SYMMETRY Symmetric
INVARIANTS
  TypeOK
  KeptUnlessOverlapped
  ListingsComplete
PROPERTY AddsAtomically
