------------------------------ MODULE MCSqlite ------------------------------
(* Instances of the Python memory store, for TLC. *)
EXTENDS SqliteSafety, TLC

CONSTANT Twin  \* the callers whose records share the name of a note

NoteNames == [p \in Caller |-> IF p \in Twin THEN Twin ELSE {p}]

Permutation == Permutations(Caller \ Twin) \union Permutations(Twin)

=============================================================================
