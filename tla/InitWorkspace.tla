---------------------------- MODULE InitWorkspace ----------------------------
(***************************************************************************)
(* `apolo init` (src/init/workspace.ts): scan the repository, classify     *)
(* every artifact of the harness against the disk, and, unless it is a dry *)
(* run or something conflicts, create and update the artifacts in order.   *)
(*                                                                         *)
(* Every await is a point where another init, the user, or a signal may    *)
(* come in between; nothing is locked between the classification of a path *)
(* and its write, and a file is truncated before it is written.            *)
(***************************************************************************)
EXTENDS Naturals, Sequences

CONSTANTS Proc,       \* `apolo init` processes on one repository
          Artifacts,  \* the artifacts in the order of buildArtifacts
          Version,    \* the texts generated for the stacks the scan may find
          MaxEdits,   \* bound: how often the user writes a file or the stack changes
          Crashes     \* TRUE if processes may be killed

(* An artifact: its kind, the indexes of the artifact directories it is    *)
(* in, and whether its generated text carries GENERATED_MARKER (the        *)
(* .gitkeep files do not: their text is empty).                            *)
Artifact == [kind : {"directory", "file"}, under : SUBSET Nat, marked : BOOLEAN]

ASSUME InitAssumption ==
  /\ Artifacts \in Seq(Artifact) /\ Artifacts # <<>>
  /\ \A i \in DOMAIN Artifacts : \A j \in Artifacts[i].under :
       j \in 1..(i - 1) /\ Artifacts[j].kind = "directory"
  /\ Version \intersect {"absent", "directory", "empty", "own", "mixed"} = {}
  /\ MaxEdits \in Nat /\ Crashes \in BOOLEAN

VARIABLES
  node,     \* what is on disk at the path of each artifact
  stack,    \* the version that a scan of the repository leads to now
  pc,       \* where each process is
  opt,      \* its options: dryRun, force
  version,  \* the version it generates
  at,       \* index of the artifact it works on
  status,   \* how it classified each artifact
  wrote,    \* history: the paths it changed
  touched,  \* history: the paths that others changed after it classified them
  lost,     \* history: <<process, path>> where user text was overwritten
  users,    \* history: the paths where the user has put something
  edits     \* how often the environment has changed something

procVars == <<opt, version, at, status>>
history == <<wrote, touched, lost, users>>
vars == <<node, stack, pc, procVars, history, edits>>

Index == DOMAIN Artifacts
IsFile(i) == Artifacts[i].kind = "file"

(* A path does not exist, is a directory, or is a file: truncated, of the  *)
(* user and without the marker, generated (possibly from another stack, or *)
(* edited below its marker), or one text written over another.             *)
Texts == {"empty", "own", "mixed"} \union Version
Node == {"absent", "directory"} \union Texts
HasMarker == {"mixed"} \union Version

Options == [dryRun : BOOLEAN, force : BOOLEAN]
FileStatus == {"unknown", "create", "update", "skip", "conflict"}
Live(p) == pc[p] \in {"classify", "decide", "apply", "write"}

TypeOK ==
  /\ node \in [Index -> Node]
  /\ stack \in Version
  /\ pc \in [Proc -> {"idle", "classify", "decide", "apply", "write", "done",
                      "conflict", "error", "killed"}]
  /\ opt \in [Proc -> Options]
  /\ version \in [Proc -> Version]
  /\ at \in [Proc -> 1..(Len(Artifacts) + 1)]
  /\ \A p \in Proc : pc[p] \in {"classify", "write"} => at[p] \in Index
  /\ status \in [Proc -> [Index -> FileStatus]]
  /\ wrote \in [Proc -> SUBSET Index] /\ touched \in [Proc -> SUBSET Index]
  /\ lost \subseteq Proc \X Index /\ users \subseteq Index
  /\ edits \in 0..MaxEdits

(* What exists lies in directories.                                        *)
Tree(n) == \A i \in Index : n[i] # "absent" =>
             \A j \in Artifacts[i].under : n[j] = "directory"

Init ==
  /\ node \in {n \in [Index -> {"absent", "directory", "own"} \union Version] :
                 /\ Tree(n)
                 /\ \A i \in Index : n[i] \in Version => Artifacts[i].marked}
  /\ stack \in Version
  /\ pc = [p \in Proc |-> "idle"]
  /\ opt = [p \in Proc |-> [dryRun |-> FALSE, force |-> FALSE]]
  /\ version = [p \in Proc |-> stack]
  /\ at = [p \in Proc |-> 1]
  /\ status = [p \in Proc |-> [i \in Index |-> "unknown"]]
  /\ wrote = [p \in Proc |-> {}] /\ touched = [p \in Proc |-> {}]
  /\ lost = {}
  /\ users = {i \in Index : node[i] = "own" \/ (IsFile(i) /\ node[i] = "directory")}
  /\ edits = 0

-----------------------------------------------------------------------------

(* The text process p generates for a file.                                *)
Generated(p, i) == IF Artifacts[i].marked THEN version[p] ELSE "empty"

(* A path below a file: stat, mkdir and open fail with ENOTDIR.            *)
Blocked(i) == \E j \in Artifacts[i].under : node[j] \in Texts

Goto(p, from, to) ==
  /\ pc[p] = from
  /\ pc' = [pc EXCEPT ![p] = to]

Throw(p, from) ==
  /\ Goto(p, from, "error")
  /\ UNCHANGED <<node, stack, procVars, history, edits>>

(* runApoloInit up to buildArtifacts: the scan decides what is generated.  *)
Start(p, o) ==
  /\ Goto(p, "idle", "classify")
  /\ opt' = [opt EXCEPT ![p] = o]
  /\ version' = [version EXCEPT ![p] = stack]
  /\ UNCHANGED <<node, stack, at, status, history, edits>>

(* Mutation: the marker is not looked for.                                 *)
ClassificationByExistence(p, i) ==
  CASE node[i] = "absent" -> "create"
    [] ~IsFile(i) /\ node[i] # "absent" ->
         IF node[i] = "directory" THEN "skip" ELSE "conflict"
    [] IsFile(i) /\ node[i] = "directory" -> "conflict"
    [] IsFile(i) /\ node[i] = Generated(p, i) -> "skip"
    [] OTHER -> "update"

(* classifyArtifact                                                        *)
Classification(p, i) ==
  CASE node[i] = "absent" -> "create"
    [] ~IsFile(i) /\ node[i] # "absent" ->
         IF node[i] = "directory" THEN "skip" ELSE "conflict"
    [] IsFile(i) /\ node[i] = "directory" -> "conflict"
    [] IsFile(i) /\ node[i] = Generated(p, i) -> "skip"
    [] OTHER -> IF opt[p].force \/ node[i] \in HasMarker THEN "update" ELSE "conflict"

(* Mutation: one artifact too many.                                        *)
BeyondLast(p) == at[p] > Len(Artifacts)

IsLast(p) == at[p] = Len(Artifacts)

Classify(p) ==
  \/ /\ Goto(p, "classify", IF IsLast(p) THEN "decide" ELSE "classify")
     /\ ~Blocked(at[p])
     /\ status' = [status EXCEPT ![p][at[p]] = Classification(p, at[p])]
     /\ at' = [at EXCEPT ![p] = IF IsLast(p) THEN 1 ELSE @ + 1]
     /\ UNCHANGED <<node, stack, opt, version, history, edits>>
  \/ Throw(p, "classify") /\ Blocked(at[p])

Conflicts(p) == {i \in Index : status[p][i] = "conflict"}

(* Mutation: what does not conflict is written.                            *)
WritesRegardless(p) == ~opt[p].dryRun

Writes(p) == ~opt[p].dryRun /\ Conflicts(p) = {}

(* runApoloInit after the classification; runInit exits with 1 if there    *)
(* are conflicts, in a dry run too.                                        *)
Decide(p) ==
  /\ Goto(p, "decide", IF Writes(p) THEN "apply"
                       ELSE IF Conflicts(p) = {} THEN "done" ELSE "conflict")
  /\ UNCHANGED <<node, stack, procVars, history, edits>>

(* A path changes: those who have classified it no longer know it.         *)
Touch(others, i) ==
  touched' = [q \in Proc |-> IF q \in others /\ status[q][i] # "unknown"
                             THEN touched[q] \union {i} ELSE touched[q]]

(* applyPlan. The histories see every change of a path.                    *)
Change(p, i) ==
  /\ wrote' = [wrote EXCEPT ![p] = @ \union {i}]
  /\ Touch(Proc \ {p}, i)

(* Mutation: updates are left out.                                         *)
PlannedCreates(p, i) == status[p][i] = "create"

Planned(p, i) == status[p][i] \in {"create", "update"}

Skip(p) ==
  /\ at[p] \in Index /\ ~Planned(p, at[p])
  /\ Goto(p, "apply", "apply")
  /\ at' = [at EXCEPT ![p] = @ + 1]
  /\ UNCHANGED <<node, stack, opt, version, status, history, edits>>

(* mkdir with recursive: it makes the directories above, too.              *)
WithDirectories(i) ==
  [j \in Index |-> IF j \in Artifacts[i].under THEN "directory" ELSE node[j]]

MakeDirectory(p) ==
  LET i == at[p] IN
    /\ i \in Index /\ Planned(p, i) /\ ~IsFile(i)
    /\ \/ /\ ~Blocked(i) /\ node[i] \notin Texts
          /\ Goto(p, "apply", "apply")
          /\ node' = [WithDirectories(i) EXCEPT ![i] = "directory"]
          /\ at' = [at EXCEPT ![p] = @ + 1]
          /\ Change(p, i)
          /\ UNCHANGED <<stack, opt, version, status, lost, users, edits>>
       \/ (Blocked(i) \/ node[i] \in Texts) /\ Throw(p, "apply")

(* writeFile opens the file, which truncates it or creates it ...          *)
Truncate(p) ==
  LET i == at[p] IN
    /\ i \in Index /\ Planned(p, i) /\ IsFile(i)
    /\ \/ /\ ~Blocked(i) /\ node[i] # "directory"
          /\ Goto(p, "apply", "write")
          /\ node' = [WithDirectories(i) EXCEPT ![i] = "empty"]
          /\ lost' = IF node[i] = "own" /\ ~opt[p].force
                     THEN lost \union {<<p, i>>} ELSE lost
          /\ Change(p, i)
          /\ UNCHANGED <<stack, procVars, users, edits>>
       \/ (Blocked(i) \/ node[i] = "directory") /\ Throw(p, "apply")

(* ... and writes at offset 0, over whatever another hand has written      *)
(* since. An empty text writes nothing.                                    *)
Written(p, i) ==
  CASE ~Artifacts[i].marked -> {node[i]}
    [] Artifacts[i].marked /\ node[i] \in {"empty", version[p]} -> {version[p]}
    [] OTHER -> {version[p], "mixed"}

WriteText(p) ==
  LET i == at[p] IN
    /\ Goto(p, "write", "apply")
    /\ \E text \in Written(p, i) : node' = [node EXCEPT ![i] = text]
    /\ lost' = IF node[i] = "own" /\ Artifacts[i].marked /\ ~opt[p].force
               THEN lost \union {<<p, i>>} ELSE lost
    /\ at' = [at EXCEPT ![p] = @ + 1]
    /\ Change(p, i)
    /\ UNCHANGED <<stack, opt, version, status, users, edits>>

Finish(p) ==
  /\ at[p] = Len(Artifacts) + 1
  /\ Goto(p, "apply", "done")
  /\ UNCHANGED <<node, stack, procVars, history, edits>>

-----------------------------------------------------------------------------
(* The environment.                                                        *)

Kill(p) ==
  /\ Crashes /\ Live(p)
  /\ pc' = [pc EXCEPT ![p] = "killed"]
  /\ UNCHANGED <<node, stack, procVars, history, edits>>

(* The user puts a text without the marker where an artifact goes.         *)
UserWrites(i) ==
  /\ edits < MaxEdits
  /\ IsFile(i) /\ ~Blocked(i) /\ node[i] # "directory"
  /\ node' = [WithDirectories(i) EXCEPT ![i] = "own"]
  /\ Touch(Proc, i)
  /\ users' = users \union {i}
  /\ edits' = edits + 1
  /\ UNCHANGED <<stack, pc, procVars, wrote, lost>>

(* A dependency or a lock file comes or goes.                              *)
StackChanges ==
  /\ edits < MaxEdits
  /\ stack' \in Version \ {stack}
  /\ edits' = edits + 1
  /\ UNCHANGED <<node, pc, procVars, history>>

AllEnded == \A p \in Proc : pc[p] \in {"done", "conflict", "error", "killed"}

Next ==
  \/ \E p \in Proc :
       \/ \E o \in Options : Start(p, o)
       \/ Classify(p) \/ Decide(p)
       \/ Skip(p) \/ MakeDirectory(p) \/ Truncate(p) \/ WriteText(p) \/ Finish(p)
       \/ Kill(p)
  \/ \E i \in Index : UserWrites(i)
  \/ StackChanges
  \/ AllEnded /\ UNCHANGED vars

Spec == Init /\ [][Next]_vars

=============================================================================
