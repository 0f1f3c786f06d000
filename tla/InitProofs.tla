----------------------------- MODULE InitProofs -----------------------------
(***************************************************************************)
(* Proofs about `apolo init` (InitWorkspace), for any set of processes,    *)
(* any list of artifacts that names directories before what lies in them,  *)
(* and any versions of the generated text, with kills and edits:           *)
(*   TypeCorrect        the types;                                         *)
(*   SeenTextStays      SeenTextIsSafe;                                    *)
(*   ConflictIsHarmless ConflictWritesNothing;                             *)
(*   SuccessIsComplete  DoneIsComplete.                                    *)
(***************************************************************************)
EXTENDS InitSafety, TLAPS

LEMMA IndexFacts ==
  /\ Len(Artifacts) \in Nat \ {0} /\ Index = 1..Len(Artifacts)
  /\ \A i \in Index : /\ Artifacts[i] \in Artifact
                      /\ \A j \in Artifacts[i].under : j \in Index /\ ~IsFile(j)
<1>1. Len(Artifacts) \in Nat \ {0} /\ Index = 1..Len(Artifacts)
  BY InitAssumption DEF Index
<1>2. ASSUME NEW i \in Index PROVE Artifacts[i] \in Artifact
  BY InitAssumption DEF Index
<1>3. ASSUME NEW i \in Index, NEW j \in Artifacts[i].under
      PROVE  j \in Index /\ ~IsFile(j)
  BY <1>1, <1>3, InitAssumption DEF Index, IsFile
<1> QED
  BY <1>1, <1>2, <1>3

LEMMA TextFacts ==
  /\ Version \subseteq Texts /\ Texts \subseteq Node
  /\ {"absent", "directory", "empty", "own"} \subseteq Node
  /\ "own" \notin HasMarker /\ "absent" \notin Texts /\ "directory" \notin Texts
BY InitAssumption DEF Texts, Node, HasMarker

-----------------------------------------------------------------------------
(* Types. A process has to begin with the first artifact.                  *)

TypeInv == TypeOK /\ \A p \in Proc : pc[p] = "idle" => at[p] = 1

LEMMA TypeInit == Init => TypeInv
<1> SUFFICES ASSUME Init PROVE TypeInv
  OBVIOUS
<1>1. node \in [Index -> Node]
  BY TextFacts DEF Init
<1>2. at \in [Proc -> 1..(Len(Artifacts) + 1)] /\ edits \in 0..MaxEdits
  BY IndexFacts, InitAssumption DEF Init
<1> QED
  BY <1>1, <1>2 DEF Init, TypeInv, TypeOK, Options, FileStatus

LEMMA TreeTypes ==
  ASSUME TypeOK, NEW i \in Index, NEW text \in Node
  PROVE  /\ WithDirectories(i) \in [Index -> Node]
         /\ [WithDirectories(i) EXCEPT ![i] = text] \in [Index -> Node]
BY TextFacts DEF TypeOK, WithDirectories

LEMMA TouchTypes ==
  ASSUME TypeOK, NEW others, NEW i \in Index, Touch(others, i)
  PROVE  touched' \in [Proc -> SUBSET Index]
BY DEF TypeOK, Touch

LEMMA ClassificationTypes ==
  ASSUME NEW p, NEW i PROVE Classification(p, i) \in FileStatus \ {"unknown"}
BY DEF Classification, FileStatus

LEMMA WrittenTypes ==
  ASSUME TypeOK, NEW p \in Proc, NEW i \in Index
  PROVE  Written(p, i) \subseteq Node
BY TextFacts DEF TypeOK, Written, Texts, Node

LEMMA TypeStep == TypeInv /\ [Next]_vars => TypeInv'
<1> SUFFICES ASSUME TypeInv, [Next]_vars PROVE TypeInv'
  OBVIOUS
<1> USE DEF TypeInv
<1>1. ASSUME NEW p \in Proc, NEW o \in Options, Start(p, o) PROVE TypeInv'
  BY <1>1, IndexFacts DEF Start, Goto, TypeOK, history
<1>2. ASSUME NEW p \in Proc, Classify(p) PROVE TypeInv'
  <2>1. CASE Throw(p, "classify")
    BY <2>1 DEF Throw, Goto, TypeOK, procVars, history
  <2>2. CASE ~Throw(p, "classify")
    <3>1. at[p] \in Index /\ Classification(p, at[p]) \in FileStatus
      BY <1>2, <2>2, ClassificationTypes DEF Classify, Goto, TypeOK
    <3>2. status' \in [Proc -> [Index -> FileStatus]]
      <4> DEFINE found == Classification(p, at[p])
                 known == [status[p] EXCEPT ![at[p]] = found]
      <4>1. status' = [status EXCEPT ![p] = known]
        BY <1>2, <2>2 DEF Classify
      <4> HIDE DEF found
      <4>2. known \in [Index -> FileStatus]
        BY <3>1 DEF TypeOK, found
      <4> HIDE DEF known
      <4> QED
        BY <4>1, <4>2 DEF TypeOK
    <3>3. at' \in [Proc -> 1..(Len(Artifacts) + 1)] /\ at'[p] \in Index
      BY <1>2, <2>2, <3>1, IndexFacts DEF Classify, TypeOK, IsLast
    <3>4. /\ pc' = [pc EXCEPT ![p] = IF IsLast(p) THEN "decide" ELSE "classify"]
          /\ at' = [at EXCEPT ![p] = at'[p]]
      BY <1>2, <2>2 DEF Classify, Goto, TypeOK
    <3> QED
      BY <1>2, <2>2, <3>2, <3>3, <3>4 DEF Classify, TypeOK, history
  <2> QED
    BY <2>1, <2>2
<1>3. ASSUME NEW p \in Proc, Decide(p) PROVE TypeInv'
  BY <1>3 DEF Decide, Goto, TypeOK, procVars, history
<1>4. ASSUME NEW p \in Proc, Skip(p) PROVE TypeInv'
  BY <1>4, IndexFacts DEF Skip, Goto, TypeOK, history
<1>5. ASSUME NEW p \in Proc, MakeDirectory(p) PROVE TypeInv'
  <2>1. CASE Throw(p, "apply")
    BY <2>1 DEF Throw, Goto, TypeOK, procVars, history
  <2>2. CASE ~Throw(p, "apply")
    <3>1. /\ at[p] \in Index /\ Change(p, at[p]) /\ Goto(p, "apply", "apply")
          /\ node' = [WithDirectories(at[p]) EXCEPT ![at[p]] = "directory"]
          /\ at' = [at EXCEPT ![p] = @ + 1]
          /\ UNCHANGED <<stack, opt, version, status, lost, users, edits>>
      BY <1>5, <2>2 DEF MakeDirectory
    <3>2. node' \in [Index -> Node] /\ touched' \in [Proc -> SUBSET Index]
      BY <3>1, TreeTypes, TouchTypes, TextFacts DEF Change
    <3>3. wrote' \in [Proc -> SUBSET Index]
      BY <3>1 DEF Change, TypeOK
    <3>4. at' \in [Proc -> 1..(Len(Artifacts) + 1)]
      BY <3>1, IndexFacts DEF TypeOK
    <3> QED
      BY <3>1, <3>2, <3>3, <3>4 DEF Goto, TypeOK
  <2> QED
    BY <2>1, <2>2
<1>6. ASSUME NEW p \in Proc, Truncate(p) PROVE TypeInv'
  <2>1. CASE Throw(p, "apply")
    BY <2>1 DEF Throw, Goto, TypeOK, procVars, history
  <2>2. CASE ~Throw(p, "apply")
    <3>1. /\ at[p] \in Index /\ Change(p, at[p]) /\ Goto(p, "apply", "write")
          /\ node' = [WithDirectories(at[p]) EXCEPT ![at[p]] = "empty"]
          /\ lost' \subseteq lost \union {<<p, at[p]>>}
          /\ UNCHANGED <<stack, procVars, users, edits>>
      BY <1>6, <2>2 DEF Truncate
    <3>2. node' \in [Index -> Node] /\ touched' \in [Proc -> SUBSET Index]
      BY <3>1, TreeTypes, TouchTypes, TextFacts DEF Change
    <3>3. wrote' \in [Proc -> SUBSET Index] /\ lost' \subseteq Proc \X Index
      BY <3>1 DEF Change, TypeOK
    <3> QED
      BY <3>1, <3>2, <3>3 DEF Goto, TypeOK, procVars
  <2> QED
    BY <2>1, <2>2
<1>7. ASSUME NEW p \in Proc, WriteText(p) PROVE TypeInv'
  <2>1. PICK text \in Written(p, at[p]) : node' = [node EXCEPT ![at[p]] = text]
    BY <1>7 DEF WriteText
  <2>2. /\ at[p] \in Index /\ Change(p, at[p]) /\ Goto(p, "write", "apply")
        /\ lost' \subseteq lost \union {<<p, at[p]>>}
        /\ at' = [at EXCEPT ![p] = @ + 1]
        /\ UNCHANGED <<stack, opt, version, status, users, edits>>
    BY <1>7 DEF WriteText, Goto, TypeOK
  <2>3. node' \in [Index -> Node] /\ touched' \in [Proc -> SUBSET Index]
    BY <2>1, <2>2, WrittenTypes, TouchTypes DEF Change, TypeOK
  <2>4. wrote' \in [Proc -> SUBSET Index] /\ lost' \subseteq Proc \X Index
    BY <2>2 DEF Change, TypeOK
  <2>5. at' \in [Proc -> 1..(Len(Artifacts) + 1)]
    BY <2>2, IndexFacts DEF TypeOK
  <2> QED
    BY <2>2, <2>3, <2>4, <2>5 DEF Goto, TypeOK
<1>8. ASSUME NEW p \in Proc, Finish(p) \/ Kill(p) PROVE TypeInv'
  BY <1>8 DEF Finish, Kill, Live, Goto, TypeOK, procVars, history
<1>9. ASSUME NEW i \in Index, UserWrites(i) PROVE TypeInv'
  <2>1. node' \in [Index -> Node] /\ touched' \in [Proc -> SUBSET Index]
    BY <1>9, TreeTypes, TouchTypes, TextFacts DEF UserWrites
  <2>2. edits' \in 0..MaxEdits
    BY <1>9, InitAssumption DEF UserWrites, TypeOK
  <2> QED
    BY <1>9, <2>1, <2>2 DEF UserWrites, TypeOK, procVars
<1>10. CASE StackChanges
  <2>1. edits' \in 0..MaxEdits
    BY <1>10, InitAssumption DEF StackChanges, TypeOK
  <2> QED
    BY <1>10, <2>1 DEF StackChanges, TypeOK, procVars, history
<1>11. CASE UNCHANGED vars
  BY <1>11 DEF TypeOK, vars, procVars, history
<1> QED
  BY <1>1, <1>2, <1>3, <1>4, <1>5, <1>6, <1>7, <1>8, <1>9, <1>10, <1>11 DEF Next

(* The types of the init model hold for every instance of it               *)
(* (workspace.ts:117-290).                                                 *)
THEOREM TypeCorrect == Spec => []TypeOK
<1>1. TypeInv => TypeOK
  BY DEF TypeInv
<1> QED
  BY <1>1, TypeInit, TypeStep, PTL DEF Spec

-----------------------------------------------------------------------------
(* What a process knows and has done, along pc.                            *)

Rests(q) ==
  /\ pc'[q] = pc[q] /\ opt'[q] = opt[q] /\ version'[q] = version[q]
  /\ at'[q] = at[q] /\ status'[q] = status[q] /\ wrote'[q] = wrote[q]

StepOf(p) ==
  \/ \E o \in Options : Start(p, o)
  \/ Classify(p) \/ Decide(p)
  \/ Skip(p) \/ MakeDirectory(p) \/ Truncate(p) \/ WriteText(p) \/ Finish(p)
  \/ Kill(p)

LEMMA OthersRest ==
  ASSUME TypeOK, NEW p \in Proc, NEW q \in Proc, q # p, StepOf(p)
  PROVE  Rests(q)
<1>1. CASE \E o \in Options : Start(p, o)
  BY <1>1 DEF Start, Goto, TypeOK, Rests, history
<1>2. CASE Classify(p)
  <2>1. /\ \E place : pc' = [pc EXCEPT ![p] = place]
        /\ \/ UNCHANGED <<at, status>>
           \/ \E c : status' = [status EXCEPT ![p][at[p]] = c]
              /\ \E n : at' = [at EXCEPT ![p] = n]
        /\ UNCHANGED <<opt, version, wrote>>
    BY <1>2 DEF Classify, Throw, Goto, procVars, history
  <2> QED
    BY <2>1 DEF TypeOK, Rests
<1>3. CASE Decide(p) \/ Finish(p) \/ Kill(p)
  BY <1>3 DEF Decide, Finish, Kill, Goto, TypeOK, Rests, procVars, history
<1>4. CASE Skip(p)
  BY <1>4 DEF Skip, Goto, TypeOK, Rests, history
<1>5. CASE MakeDirectory(p) \/ Truncate(p) \/ WriteText(p)
  BY <1>5 DEF MakeDirectory, Truncate, WriteText, Throw, Goto, Change, TypeOK,
              Rests, procVars, history
<1> QED
  BY <1>1, <1>2, <1>3, <1>4, <1>5 DEF StepOf

Knows(p) == pc[p] \in {"decide", "apply", "write", "done"}
Before(p) == pc[p] \in {"idle", "classify", "decide"}

(* Before it decides a process has written nothing; after that it has      *)
(* classified everything, and it writes only if it may.                    *)
ProcOK(p) ==
  /\ pc[p] = "idle" => \A i \in Index : status[p][i] = "unknown"
  /\ pc[p] = "classify" => \A i \in Index : i < at[p] => status[p][i] # "unknown"
  /\ Knows(p) => \A i \in Index : status[p][i] # "unknown"
  /\ pc[p] = "decide" => at[p] = 1
  /\ pc[p] = "write" => IsFile(at[p]) /\ Planned(p, at[p])
  /\ pc[p] \in {"apply", "write"} => Writes(p)
  /\ pc[p] = "done" => opt[p].dryRun \/ (Writes(p) /\ at[p] = Len(Artifacts) + 1)
  /\ Before(p) => wrote[p] = {}
  /\ wrote[p] # {} => Writes(p)

ProcInv == \A p \in Proc : ProcOK(p)

LEMMA RestingProc == ASSUME NEW q \in Proc, ProcOK(q), Rests(q) PROVE ProcOK(q)'
BY DEF Rests, ProcOK, Knows, Before, Writes, Conflicts, Planned, IsFile

LEMMA ProcInit == Init => ProcInv
<1> SUFFICES ASSUME Init, NEW p \in Proc PROVE ProcOK(p)
  BY DEF ProcInv
<1>1. /\ pc[p] = "idle" /\ wrote[p] = {}
      /\ \A i \in Index : status[p][i] = "unknown"
  BY DEF Init
<1> QED
  BY <1>1 DEF ProcOK, Knows, Before

(* A process that gives up keeps what it has written and why it could.     *)
LEMMA EndedProc ==
  ASSUME TypeOK, NEW p \in Proc, ProcOK(p), pc'[p] \in {"conflict", "error", "killed"},
         opt'[p] = opt[p], status'[p] = status[p], wrote'[p] = wrote[p]
  PROVE  ProcOK(p)'
BY DEF ProcOK, Knows, Before, Writes, Conflicts

(* One that goes on among the artifacts keeps options and classification.  *)
LEMMA ApplyingProc ==
  ASSUME TypeOK, NEW p \in Proc, ProcOK(p), pc[p] \in {"apply", "write"},
         pc'[p] \in {"apply", "write", "done"},
         opt'[p] = opt[p], status'[p] = status[p],
         pc'[p] = "write" => IsFile(at'[p]) /\ Planned(p, at'[p]),
         pc'[p] = "done" => at'[p] = Len(Artifacts) + 1
  PROVE  ProcOK(p)'
BY DEF ProcOK, Knows, Before, Writes, Conflicts, Planned, IsFile

LEMMA ProcStep == TypeInv /\ ProcInv /\ [Next]_vars => ProcInv'
<1> SUFFICES ASSUME TypeInv, ProcInv, [Next]_vars, NEW q \in Proc
             PROVE  ProcOK(q)'
  BY DEF ProcInv
<1>0. TypeOK /\ ProcOK(q)
  BY DEF TypeInv, ProcInv
<1>1. ASSUME NEW p \in Proc, StepOf(p), q # p PROVE ProcOK(q)'
  BY <1>0, <1>1, OthersRest, RestingProc
<1>2. ASSUME NEW o \in Options, Start(q, o) PROVE ProcOK(q)'
  <2>1. /\ pc[q] = "idle" /\ pc'[q] = "classify" /\ at'[q] = 1
        /\ status'[q] = status[q] /\ wrote'[q] = wrote[q]
    BY <1>0, <1>2 DEF Start, Goto, TypeInv, TypeOK, history
  <2> QED
    BY <1>0, <2>1, IndexFacts DEF ProcOK, Knows, Before
<1>3. CASE Classify(q)
  <2>1. CASE Throw(q, "classify")
    BY <1>0, <2>1, EndedProc DEF Throw, Goto, TypeOK, procVars, history
  <2>2. CASE ~Throw(q, "classify")
    <3> DEFINE found == Classification(q, at[q])
    <3>1. /\ pc[q] = "classify" /\ at[q] \in Index
          /\ pc'[q] = IF IsLast(q) THEN "decide" ELSE "classify"
          /\ at'[q] = IF IsLast(q) THEN 1 ELSE at[q] + 1
          /\ status' = [status EXCEPT ![q][at[q]] = found]
          /\ wrote'[q] = wrote[q]
      BY <1>0, <1>3, <2>2 DEF Classify, Goto, TypeOK, history
    <3>2. found # "unknown"
      BY ClassificationTypes
    <3> HIDE DEF found
    <3>3. \A i \in Index : status'[q][i] = IF i = at[q] THEN found ELSE status[q][i]
      BY <1>0, <3>1 DEF TypeOK
    <3>4. \A i \in Index : i < at[q] => status[q][i] # "unknown"
      BY <1>0, <3>1 DEF ProcOK
    <3>5. \A i \in Index : i <= at[q] => status'[q][i] # "unknown"
      BY <3>1, <3>2, <3>3, <3>4, IndexFacts
    <3>6. wrote'[q] = {}
      BY <1>0, <3>1 DEF ProcOK, Before
    <3>7. CASE IsLast(q)
      <4>1. \A i \in Index : status'[q][i] # "unknown"
        BY <3>5, <3>7, IndexFacts DEF IsLast
      <4> QED
        BY <3>1, <3>6, <3>7, <4>1 DEF ProcOK, Knows, Before
    <3>8. CASE ~IsLast(q)
      <4>1. \A i \in Index : i < at'[q] => status'[q][i] # "unknown"
        BY <3>1, <3>5, <3>8, IndexFacts
      <4> QED
        BY <3>1, <3>6, <3>8, <4>1 DEF ProcOK, Knows, Before
    <3> QED
      BY <3>7, <3>8
  <2> QED
    BY <2>1, <2>2
<1>4. CASE Decide(q)
  <2>1. /\ pc[q] = "decide" /\ opt'[q] = opt[q] /\ at'[q] = at[q]
        /\ status'[q] = status[q] /\ wrote'[q] = wrote[q]
        /\ pc'[q] = IF Writes(q) THEN "apply"
                    ELSE IF Conflicts(q) = {} THEN "done" ELSE "conflict"
    BY <1>0, <1>4 DEF Decide, Goto, TypeOK, procVars, history
  <2>2. wrote'[q] = {} /\ \A i \in Index : status'[q][i] # "unknown"
    BY <1>0, <2>1 DEF ProcOK, Knows, Before
  <2>3. Writes(q)' <=> Writes(q)
    BY <2>1 DEF Writes, Conflicts
  <2>4. pc'[q] = "done" => opt'[q].dryRun
    BY <1>0, <2>1 DEF Writes, TypeOK, Options
  <2>5. pc'[q] \in {"apply", "done", "conflict"} /\ (pc'[q] = "apply" => Writes(q)')
    BY <2>1, <2>3
  <2> QED
    BY <2>2, <2>4, <2>5 DEF ProcOK, Knows, Before
<1>5. CASE Skip(q)
  BY <1>0, <1>5, ApplyingProc DEF Skip, Goto, TypeOK, history
<1>6. CASE MakeDirectory(q)
  <2>1. CASE Throw(q, "apply")
    BY <1>0, <2>1, EndedProc DEF Throw, Goto, TypeOK, procVars, history
  <2>2. CASE ~Throw(q, "apply")
    BY <1>0, <1>6, <2>2, ApplyingProc DEF MakeDirectory, Goto, TypeOK
  <2> QED
    BY <2>1, <2>2
<1>7. CASE Truncate(q)
  <2>1. CASE Throw(q, "apply")
    BY <1>0, <2>1, EndedProc DEF Throw, Goto, TypeOK, procVars, history
  <2>2. CASE ~Throw(q, "apply")
    BY <1>0, <1>7, <2>2, ApplyingProc DEF Truncate, Goto, TypeOK, procVars
  <2> QED
    BY <2>1, <2>2
<1>8. CASE WriteText(q)
  BY <1>0, <1>8, ApplyingProc DEF WriteText, Goto, TypeOK
<1>9. CASE Finish(q)
  BY <1>0, <1>9, ApplyingProc DEF Finish, Goto, TypeOK, procVars
<1>10. CASE Kill(q)
  BY <1>0, <1>10, EndedProc DEF Kill, TypeOK, procVars, history
<1>11. CASE StackChanges \/ UNCHANGED vars \/ \E i \in Index : UserWrites(i)
  <2>1. Rests(q)
    BY <1>11 DEF StackChanges, UserWrites, Rests, vars, procVars, history
  <2> QED
    BY <1>0, <2>1, RestingProc
<1>12. ASSUME NEW p \in Proc, StepOf(p) PROVE ProcOK(q)'
  BY <1>1, <1>2, <1>3, <1>4, <1>5, <1>6, <1>7, <1>8, <1>9, <1>10, <1>12 DEF StepOf
<1> QED
  BY <1>11, <1>12 DEF Next, StepOf

-----------------------------------------------------------------------------
(* What a process knows of a path that others left alone since.            *)

PathOK(p, i) ==
  i \notin touched[p] =>
    /\ IsFile(i) /\ Planned(p, i) /\ ~opt[p].force => node[i] # "own"
    /\ status[p][i] = "skip" => node[i] = Wanted(p, i)
    /\ /\ pc[p] \in {"apply", "write", "done"} /\ ~opt[p].dryRun
       /\ Planned(p, i) /\ i < at[p]
       => node[i] = Wanted(p, i)
    /\ pc[p] = "write" /\ i = at[p] => node[i] = "empty"

PathInv == \A p \in Proc : \A i \in Index : PathOK(p, i)

(* A path changes only by becoming a directory where one belongs, unless   *)
(* it is i.                                                                *)
TreeKept(i) ==
  \A j \in Index : j # i => \/ node'[j] = node[j]
                            \/ ~IsFile(j) /\ node'[j] = "directory"

LEMMA TreeIsKept ==
  ASSUME TypeOK, NEW i \in Index, NEW text,
         node' = [WithDirectories(i) EXCEPT ![i] = text]
  PROVE  TreeKept(i) /\ node'[i] = text
BY IndexFacts DEF TypeOK, WithDirectories, TreeKept

LEMMA TouchTells ==
  ASSUME TypeOK, NEW others, NEW i \in Index, Touch(others, i), NEW q \in Proc
  PROVE  /\ touched[q] \subseteq touched'[q]
         /\ q \in others => i \in touched'[q] \/ status[q][i] = "unknown"
BY DEF TypeOK, Touch

(* What a process knows survives what the others and the user do.          *)
LEMMA RestingPath ==
  ASSUME TypeOK, NEW q \in Proc, NEW j \in Index,
         ProcOK(q), PathOK(q, j), Rests(q), touched[q] \subseteq touched'[q],
         \/ j \in touched'[q] \/ status[q][j] = "unknown"
         \/ node'[j] = node[j]
         \/ ~IsFile(j) /\ node'[j] = "directory"
  PROVE  PathOK(q, j)'
<1> SUFFICES ASSUME j \notin touched'[q] PROVE PathOK(q, j)'
  BY DEF PathOK
<1>1. CASE status[q][j] = "unknown"
  BY <1>1 DEF ProcOK, Rests, PathOK, Planned
<1>2. CASE node'[j] = node[j]
  BY <1>2 DEF Rests, PathOK, Planned, Wanted, Generated, IsFile
<1>3. CASE ~IsFile(j) /\ node'[j] = "directory"
  BY <1>3 DEF ProcOK, Rests, PathOK, Planned, Wanted, IsFile
<1> QED
  BY <1>1, <1>2, <1>3

LEMMA PathInit == Init => PathInv
<1> SUFFICES ASSUME Init, NEW p \in Proc, NEW i \in Index PROVE PathOK(p, i)
  BY DEF PathInv
<1>1. pc[p] = "idle" /\ status[p][i] = "unknown"
  BY DEF Init
<1> QED
  BY <1>1 DEF PathOK, Planned

(* A process that ends without success leaves the paths as they are.       *)
LEMMA EndedPath ==
  ASSUME NEW p \in Proc, NEW i \in Index, PathOK(p, i),
         pc'[p] \in {"conflict", "error", "killed"},
         UNCHANGED <<node, opt, version, status, touched>>
  PROVE  PathOK(p, i)'
BY DEF PathOK, Planned, Wanted, Generated, IsFile

(* Steps of other processes.                                               *)
LEMMA PathOfOthers ==
  ASSUME TypeOK, ProcInv, PathInv, NEW p \in Proc, StepOf(p),
         NEW q \in Proc, q # p, NEW j \in Index
  PROVE  PathOK(q, j)'
<1>1. ProcOK(q) /\ PathOK(q, j) /\ Rests(q)
  BY OthersRest DEF ProcInv, PathInv
<1>2. CASE UNCHANGED <<node, touched>>
  BY <1>1, <1>2, RestingPath
<1>3. ASSUME NEW i \in Index, Touch(Proc \ {p}, i), TreeKept(i)
      PROVE  PathOK(q, j)'
  <2>1. /\ touched[q] \subseteq touched'[q]
        /\ i \in touched'[q] \/ status[q][i] = "unknown"
    BY <1>3, TouchTells
  <2>2. CASE j = i
    BY <1>1, <2>1, <2>2, RestingPath
  <2>3. CASE j # i
    BY <1>1, <1>3, <2>1, <2>3, RestingPath DEF TreeKept
  <2> QED
    BY <2>2, <2>3
<1>4. \/ UNCHANGED <<node, touched>>
      \/ \E i \in Index : Touch(Proc \ {p}, i) /\ TreeKept(i)
  <2>1. CASE MakeDirectory(p) \/ Truncate(p)
    BY <2>1, TreeIsKept DEF MakeDirectory, Truncate, Change, Throw, history
  <2>2. CASE WriteText(p)
    <3>1. at[p] \in Index /\ Touch(Proc \ {p}, at[p])
      BY <2>2 DEF WriteText, Goto, Change, TypeOK
    <3>2. TreeKept(at[p])
      BY <2>2 DEF WriteText, TreeKept, TypeOK
    <3> QED
      BY <3>1, <3>2
  <2> QED
    BY <2>1, <2>2 DEF StepOf, Start, Classify, Decide, Skip, Finish, Kill, Throw, history
<1> QED
  BY <1>2, <1>3, <1>4

(* What a classification says of a path.                                   *)
LEMMA ClassificationFacts ==
  ASSUME TypeOK, NEW p \in Proc, NEW i \in Index
  PROVE  /\ Classification(p, i) = "skip" => node[i] = Wanted(p, i)
         /\ IsFile(i) /\ Classification(p, i) \in {"create", "update"} /\ ~opt[p].force
              => node[i] # "own"
<1>1. Generated(p, i) \in Texts
  BY TextFacts DEF TypeOK, Generated, Texts
<1>2. CASE node[i] = "absent"
  BY <1>1, <1>2, TextFacts DEF Classification
<1>3. CASE ~IsFile(i) /\ node[i] # "absent"
  BY <1>3 DEF Classification, Wanted
<1>4. CASE IsFile(i) /\ node[i] = "directory"
  BY <1>1, <1>4, TextFacts DEF Classification
<1>5. CASE IsFile(i) /\ node[i] \notin {"absent", "directory"} /\ node[i] = Generated(p, i)
  BY <1>5 DEF Classification, Wanted
<1>6. CASE IsFile(i) /\ node[i] \notin {"absent", "directory"} /\ node[i] # Generated(p, i)
  <2>1. Classification(p, i) =
          IF opt[p].force \/ node[i] \in HasMarker THEN "update" ELSE "conflict"
    BY <1>6 DEF Classification
  <2> QED
    BY <2>1, TextFacts
<1> QED
  BY <1>2, <1>3, <1>4, <1>5, <1>6

(* The process's own steps.                                                *)
LEMMA PathOfOwn ==
  ASSUME TypeInv, ProcInv, PathInv, NEW p \in Proc, StepOf(p), NEW j \in Index
  PROVE  PathOK(p, j)'
<1>0. TypeOK /\ ProcOK(p) /\ PathOK(p, j)
  BY DEF TypeInv, ProcInv, PathInv
<1>1. ASSUME NEW o \in Options, Start(p, o) PROVE PathOK(p, j)'
  <2>1. status'[p][j] = "unknown" /\ pc'[p] = "classify"
    BY <1>0, <1>1 DEF Start, Goto, ProcOK, TypeOK
  <2> QED
    BY <2>1 DEF PathOK, Planned
<1>2. CASE Throw(p, "classify") \/ Throw(p, "apply") \/ Kill(p)
  BY <1>0, <1>2, EndedPath DEF Throw, Goto, Kill, TypeOK, procVars, history
<1>3. CASE Classify(p) /\ ~Throw(p, "classify")
  <2> DEFINE found == Classification(p, at[p])
  <2>1. /\ pc'[p] \in {"classify", "decide"} /\ at[p] \in Index
        /\ status' = [status EXCEPT ![p][at[p]] = found]
        /\ UNCHANGED <<node, opt, version, touched>>
    BY <1>0, <1>3 DEF Classify, Goto, TypeOK, history
  <2> HIDE DEF found
  <2>2. status'[p][j] = IF j = at[p] THEN found ELSE status[p][j]
    BY <1>0, <2>1 DEF TypeOK
  <2>3. CASE j = at[p]
    <3>1. /\ found = "skip" => node[j] = Wanted(p, j)
          /\ IsFile(j) /\ found \in {"create", "update"} /\ ~opt[p].force
               => node[j] # "own"
      BY <1>0, <2>3, ClassificationFacts DEF found
    <3> QED
      BY <2>1, <2>2, <2>3, <3>1 DEF PathOK, Planned, Wanted, Generated, IsFile
  <2>4. CASE j # at[p]
    BY <1>0, <2>1, <2>2, <2>4 DEF PathOK, Planned, Wanted, Generated, IsFile
  <2> QED
    BY <2>3, <2>4
<1>4. CASE Decide(p)
  <2>1. /\ at'[p] = 1 /\ pc'[p] # "write"
        /\ UNCHANGED <<node, opt, version, status, touched>>
    BY <1>0, <1>4 DEF Decide, Goto, ProcOK, TypeOK, procVars, history
  <2> QED
    BY <1>0, <2>1, IndexFacts DEF PathOK, Planned, Wanted, Generated, IsFile
<1>5. CASE Skip(p)
  <2>1. /\ at[p] \in Index /\ at'[p] = at[p] + 1 /\ pc[p] = "apply" /\ pc'[p] = "apply"
        /\ ~Planned(p, at[p])
        /\ UNCHANGED <<node, opt, version, status, touched>>
    BY <1>0, <1>5 DEF Skip, Goto, TypeOK, history
  <2>2. j < at'[p] => j < at[p] \/ ~Planned(p, j)
    BY <2>1, IndexFacts
  <2> QED
    BY <1>0, <2>1, <2>2 DEF PathOK, Planned, Wanted, Generated, IsFile
<1>6. CASE MakeDirectory(p) /\ ~Throw(p, "apply")
  <2> DEFINE i == at[p]
  <2>1. /\ i \in Index /\ ~IsFile(i) /\ at'[p] = i + 1 /\ Touch(Proc \ {p}, i)
        /\ pc[p] = "apply" /\ pc'[p] = "apply"
        /\ node' = [WithDirectories(i) EXCEPT ![i] = "directory"]
        /\ UNCHANGED <<opt, version, status>>
    BY <1>0, <1>6 DEF MakeDirectory, Goto, Change, TypeOK
  <2>2. TreeKept(i) /\ node'[i] = "directory"
    BY <1>0, <2>1, TreeIsKept
  <2>3. touched[p] \subseteq touched'[p]
    BY <1>0, <2>1, TouchTells
  <2>4. j < at'[p] => j < i \/ j = i
    BY <2>1, IndexFacts
  <2>5. CASE node'[j] = "directory" /\ ~IsFile(j)
    BY <2>1, <2>5 DEF PathOK, Wanted, IsFile
  <2>6. CASE j # i /\ node'[j] = node[j]
    BY <1>0, <2>1, <2>3, <2>4, <2>6 DEF PathOK, Planned, Wanted, Generated, IsFile
  <2> QED
    BY <2>1, <2>2, <2>5, <2>6 DEF TreeKept
<1>7. CASE Truncate(p) /\ ~Throw(p, "apply")
  <2> DEFINE i == at[p]
  <2>1. /\ i \in Index /\ IsFile(i) /\ Planned(p, i) /\ Touch(Proc \ {p}, i)
        /\ pc[p] = "apply" /\ pc'[p] = "write"
        /\ node' = [WithDirectories(i) EXCEPT ![i] = "empty"]
        /\ UNCHANGED <<opt, version, status, at>>
    BY <1>0, <1>7 DEF Truncate, Goto, Change, TypeOK, procVars
  <2>2. TreeKept(i) /\ node'[i] = "empty"
    BY <1>0, <2>1, TreeIsKept
  <2>3. touched[p] \subseteq touched'[p]
    BY <1>0, <2>1, TouchTells
  <2>4. CASE j = i
    <3>1. ~(j < at'[p]) /\ status'[p][j] # "skip" /\ node'[j] = "empty"
      BY <2>1, <2>2, <2>4, IndexFacts DEF Planned
    <3> QED
      BY <3>1 DEF PathOK
  <2>5. CASE j # i /\ node'[j] = "directory" /\ ~IsFile(j)
    BY <2>1, <2>5 DEF PathOK, Wanted, IsFile
  <2>6. CASE j # i /\ node'[j] = node[j]
    BY <1>0, <2>1, <2>3, <2>6 DEF PathOK, Planned, Wanted, Generated, IsFile
  <2> QED
    BY <2>2, <2>4, <2>5, <2>6 DEF TreeKept
<1>8. CASE WriteText(p)
  <2> DEFINE i == at[p]
  <2>1. PICK text \in Written(p, i) : node' = [node EXCEPT ![i] = text]
    BY <1>8 DEF WriteText
  <2>2. /\ i \in Index /\ at'[p] = i + 1 /\ Touch(Proc \ {p}, i)
        /\ pc[p] = "write" /\ pc'[p] = "apply" /\ IsFile(i) /\ Planned(p, i)
        /\ UNCHANGED <<opt, version, status>>
    BY <1>0, <1>8 DEF WriteText, Goto, Change, ProcOK, TypeOK
  <2>3. touched[p] \subseteq touched'[p]
    BY <1>0, <2>2, TouchTells
  <2>4. j < at'[p] => j < i \/ j = i
    BY <2>2, IndexFacts
  <2>5. CASE j # i
    <3>1. node'[j] = node[j]
      BY <1>0, <2>1, <2>5 DEF TypeOK
    <3> QED
      BY <1>0, <2>2, <2>3, <2>4, <2>5, <3>1
         DEF PathOK, Planned, Wanted, Generated, IsFile
  <2>6. CASE j = i /\ j \notin touched'[p]
    <3>1. node[j] = "empty"
      BY <1>0, <2>2, <2>3, <2>6 DEF PathOK
    <3>2. Written(p, j) = {Generated(p, j)}
      BY <3>1 DEF Written, Generated
    <3>3. node'[j] = Generated(p, j)
      BY <1>0, <2>1, <2>2, <2>6, <3>2 DEF TypeOK
    <3>4. Generated(p, j) # "own"
      BY <1>0, InitAssumption DEF Generated, TypeOK
    <3>5. Wanted(p, j)' = Generated(p, j) /\ status'[p][j] # "skip"
      BY <2>2, <2>6 DEF Wanted, Generated, Planned, IsFile
    <3> QED
      BY <2>2, <3>3, <3>4, <3>5 DEF PathOK
  <2>7. CASE j \in touched'[p]
    BY <2>7 DEF PathOK
  <2> QED
    BY <2>5, <2>6, <2>7
<1>9. CASE Finish(p)
  <2>1. /\ pc[p] = "apply" /\ pc'[p] = "done"
        /\ UNCHANGED <<node, opt, version, status, touched, at>>
    BY <1>0, <1>9 DEF Finish, Goto, TypeOK, procVars, history
  <2> QED
    BY <1>0, <2>1 DEF PathOK, Planned, Wanted, Generated, IsFile
<1> QED
  BY <1>1, <1>2, <1>3, <1>4, <1>5, <1>6, <1>7, <1>8, <1>9 DEF StepOf

LEMMA PathStep == TypeInv /\ ProcInv /\ PathInv /\ [Next]_vars => PathInv'
<1> SUFFICES ASSUME TypeInv, ProcInv, PathInv, [Next]_vars,
                    NEW q \in Proc, NEW j \in Index
             PROVE  PathOK(q, j)'
  BY DEF PathInv, Index
<1>0. TypeOK /\ ProcOK(q) /\ PathOK(q, j)
  BY DEF TypeInv, ProcInv, PathInv
<1>1. ASSUME NEW p \in Proc, StepOf(p) PROVE PathOK(q, j)'
  BY <1>0, <1>1, PathOfOthers, PathOfOwn
<1>2. ASSUME NEW i \in Index, UserWrites(i) PROVE PathOK(q, j)'
  <2>1. Rests(q) /\ Touch(Proc, i) /\ TreeKept(i)
    BY <1>0, <1>2, TreeIsKept DEF UserWrites, Rests, procVars
  <2>2. touched[q] \subseteq touched'[q] /\ (i \in touched'[q] \/ status[q][i] = "unknown")
    BY <1>0, <2>1, TouchTells
  <2> QED
    BY <1>0, <2>1, <2>2, RestingPath DEF TreeKept
<1>3. CASE StackChanges \/ UNCHANGED vars
  <2>1. Rests(q) /\ UNCHANGED <<node, touched>>
    BY <1>3 DEF StackChanges, Rests, vars, procVars, history
  <2> QED
    BY <1>0, <2>1, RestingPath
<1> QED
  BY <1>1, <1>2, <1>3 DEF Next, StepOf

-----------------------------------------------------------------------------
(* User text that is lost was put there after it was classified.           *)

LEMMA LostStep ==
  TypeInv /\ ProcInv /\ PathInv /\ SeenTextIsSafe /\ [Next]_vars => SeenTextIsSafe'
<1> SUFFICES ASSUME TypeInv, ProcInv, PathInv, SeenTextIsSafe, [Next]_vars,
                    NEW pair \in lost'
             PROVE  pair[2] \in touched'[pair[1]]
  BY DEF SeenTextIsSafe
<1>0. TypeOK
  BY DEF TypeInv
<1>1. CASE UNCHANGED <<lost, touched>>
  BY <1>1 DEF SeenTextIsSafe
<1>2. ASSUME NEW others, NEW i \in Index, Touch(others, i), pair \in lost
      PROVE  pair[2] \in touched'[pair[1]]
  <2>1. pair[1] \in Proc /\ pair[2] \in touched[pair[1]]
    BY <1>0, <1>2 DEF TypeOK, SeenTextIsSafe
  <2> QED
    BY <1>0, <1>2, <2>1, TouchTells
<1>3. ASSUME NEW p \in Proc, Truncate(p) \/ WriteText(p)
      PROVE  pair[2] \in touched'[pair[1]]
  <2>1. CASE Throw(p, "apply")
    BY <1>1, <2>1 DEF Throw, history
  <2>2. CASE ~Throw(p, "apply")
    <3>1. /\ at[p] \in Index /\ IsFile(at[p]) /\ Planned(p, at[p])
          /\ Touch(Proc \ {p}, at[p])
      BY <1>0, <1>3, <2>2 DEF Truncate, WriteText, Goto, Change, TypeOK, ProcInv, ProcOK
    <3>2. /\ lost' \subseteq lost \union {<<p, at[p]>>}
          /\ lost' # lost => node[at[p]] = "own" /\ ~opt[p].force
      BY <1>3, <2>2 DEF Truncate, WriteText
    <3>3. CASE pair \in lost
      BY <1>2, <3>1, <3>3
    <3>4. CASE pair \notin lost
      <4>1. pair = <<p, at[p]>> /\ at[p] \in touched[p]
        BY <3>1, <3>2, <3>4 DEF PathInv, PathOK
      <4>2. touched[p] \subseteq touched'[p]
        BY <1>0, <3>1, TouchTells
      <4> QED
        BY <4>1, <4>2
    <3> QED
      BY <3>3, <3>4
  <2> QED
    BY <2>1, <2>2
<1>4. ASSUME NEW p \in Proc, MakeDirectory(p) PROVE pair[2] \in touched'[pair[1]]
  BY <1>1, <1>2, <1>4 DEF MakeDirectory, Change, Throw, history
<1>5. ASSUME NEW i \in Index, UserWrites(i) PROVE pair[2] \in touched'[pair[1]]
  BY <1>2, <1>5 DEF UserWrites
<1>6. CASE StackChanges \/ UNCHANGED vars
  BY <1>1, <1>6 DEF StackChanges, vars, history
<1>7. ASSUME NEW p \in Proc, StepOf(p) PROVE pair[2] \in touched'[pair[1]]
  BY <1>1, <1>3, <1>4, <1>7
     DEF StepOf, Start, Classify, Decide, Skip, Finish, Kill, Throw, history
<1> QED
  BY <1>5, <1>6, <1>7 DEF Next, StepOf

InitInv == TypeInv /\ ProcInv /\ PathInv /\ SeenTextIsSafe

LEMMA InitInvariance == Spec => []InitInv
<1>1. Init => InitInv
  BY TypeInit, ProcInit, PathInit DEF InitInv, Init, SeenTextIsSafe
<1>2. InitInv /\ [Next]_vars => InitInv'
  BY TypeStep, ProcStep, PathStep, LostStep DEF InitInv
<1> QED
  BY <1>1, <1>2, PTL DEF Spec

(* Whatever other inits and the user do, a process without --force never   *)
(* overwrites user text that was there when it classified the path         *)
(* (workspace.ts:224-251, 266-281).                                        *)
THEOREM SeenTextStays == Spec => []SeenTextIsSafe
<1>1. InitInv => SeenTextIsSafe
  BY DEF InitInv
<1> QED
  BY <1>1, InitInvariance, PTL

(* A process with a conflict or --dry-run has changed nothing              *)
(* (workspace.ts:135-140).                                                 *)
THEOREM ConflictIsHarmless == Spec => []ConflictWritesNothing
<1>1. InitInv => ConflictWritesNothing
  BY DEF InitInv, ProcInv, ProcOK, Writes, ConflictWritesNothing
<1> QED
  BY <1>1, InitInvariance, PTL

(* A process that ended with success has left every artifact that others   *)
(* left alone as its scan called for (workspace.ts:142-152, 266-290).      *)
THEOREM SuccessIsComplete == Spec => []DoneIsComplete
<1>1. ASSUME InitInv PROVE DoneIsComplete
  <2> SUFFICES ASSUME NEW p \in Proc, pc[p] = "done", ~opt[p].dryRun,
                      NEW i \in Index \ touched[p]
               PROVE  node[i] = Wanted(p, i)
    BY DEF DoneIsComplete
  <2>1. ProcOK(p) /\ PathOK(p, i) /\ TypeOK
    BY <1>1 DEF InitInv, ProcInv, PathInv, TypeInv
  <2>2. i < at[p] /\ status[p][i] \notin {"unknown", "conflict"}
    BY <2>1, IndexFacts DEF ProcOK, Knows, Writes, Conflicts
  <2>3. status[p][i] = "skip" \/ Planned(p, i)
    BY <2>1, <2>2 DEF TypeOK, FileStatus, Planned
  <2> QED
    BY <2>1, <2>2, <2>3 DEF PathOK
<1> QED
  BY <1>1, InitInvariance, PTL

=============================================================================
