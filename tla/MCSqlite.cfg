CONSTANTS
  Caller = {c1, c2, c3, c4}
  NoBody = NoBody
  Twin = {c3, c4}
  NoteOf <- NoteNames
SPECIFICATION Spec
SYMMETRY Permutation
INVARIANTS
  TypeOK
  HiddenIsTold
  NotesMatchRows
