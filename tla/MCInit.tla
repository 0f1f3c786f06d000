------------------------------- MODULE MCInit -------------------------------
(* Instances of the init model for TLC. *)
EXTENDS InitSafety, TLC

Directory(under) == [kind |-> "directory", under |-> under, marked |-> FALSE]
File(under, marked) == [kind |-> "file", under |-> under, marked |-> marked]

(* .apolo/, .apolo/plans/, .apolo/plans/.gitkeep and .apolo/manifest.json  *)
Harness == <<Directory({}), Directory({1}), File({1, 2}, FALSE), File({1}, TRUE)>>

Symmetric == Permutations(Proc)

=============================================================================
