----------------------------- MODULE InitSafety -----------------------------
(***************************************************************************)
(* What `apolo init` guarantees: properties of InitWorkspace.              *)
(***************************************************************************)
EXTENDS InitWorkspace

(* Without --force, text of the user is only ever overwritten where the    *)
(* path changed after the process had classified it: what it has seen is   *)
(* safe, whatever other inits do and whoever is killed                     *)
(* (workspace.ts:224-251, 266-281).                                        *)
SeenTextIsSafe == \A pair \in lost : pair[2] \in touched[pair[1]]

(* One conflict, or --dry-run, and the process changes nothing at all, not *)
(* even the artifacts it found missing (workspace.ts:135-140).             *)
ConflictWritesNothing ==
  \A p \in Proc : Conflicts(p) # {} \/ opt[p].dryRun => wrote[p] = {}

(* A process that reports success leaves the whole harness in place, in    *)
(* the version its scan called for: every path others left alone since it  *)
(* was classified. The next init then finds nothing to do.                 *)
Wanted(p, i) == IF IsFile(i) THEN Generated(p, i) ELSE "directory"

DoneIsComplete ==
  \A p \in Proc : pc[p] = "done" /\ ~opt[p].dryRun =>
    \A i \in Index \ touched[p] : node[i] = Wanted(p, i)

(* docs/init.md:54: a conflict is a file that exists and is not managed by *)
(* APOLO. Read for paths where the user has never put anything.            *)
OnlyUserFilesConflict == \A p \in Proc : Conflicts(p) \subseteq users

=============================================================================
