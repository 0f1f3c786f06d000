----------------------------- MODULE JsonlMemory -----------------------------
(***************************************************************************)
(* The JSONL memory store of the npm runtime (src/memory/store.ts) as the  *)
(* `apolo memory` processes use it (src/memory/cli.ts): one memory file,   *)
(* read as a whole, and replaced as a whole through a temporary file whose *)
(* name is the same for every process.                                     *)
(*                                                                         *)
(* Nothing locks the file.  Every await of the code is a point where       *)
(* another process may move or a signal may kill the process.              *)
(*                                                                         *)
(* An add stores one record, so a record is named after its adder, and so  *)
(* is the file system object an adder creates when it opens the temporary  *)
(* file.  Redaction, record fields and the text of the output are left out.*)
(***************************************************************************)
EXTENDS Naturals, Sequences

CONSTANTS Adder,     \* processes of `apolo memory add`
          Lister,    \* processes of `apolo memory list`, search, export, show
          NoFile,    \* no such path
          Limit,     \* how many records a listing shows, 20 by default
          Crashes    \* TRUE if processes may be killed

ASSUME MemoryAssumption ==
  /\ Adder \intersect Lister = {} /\ NoFile \notin Adder
  /\ Limit \in Nat \ {0}
  /\ Crashes \in BOOLEAN

VARIABLES
  pc,       \* where each process is
  file,     \* the object at the path of the memory file
  temp,     \* the object at the same path with .tmp
  content,  \* the content of each object
  known,    \* the records an adder has read
  handle,   \* the object an adder has opened for writing
  told,     \* the adders that said "Added memory", in that order
  found,    \* what a lister printed
  before,   \* history: told when the lister started
  overlapped \* history: whether two adds have been under way at once

disk == <<file, temp, content>>
addVars == <<known, handle, told>>
listVars == <<found, before>>
vars == <<pc, disk, addVars, listVars, overlapped>>

Process == Adder \union Lister

Places == {"idle", "stat", "read", "open", "write", "rename", "tell", "done",
           "error", "killed"}
Live(p) == pc[p] \notin {"idle", "done", "error", "killed"}

(* A file whose lines all parse, or one whose lines do not.                *)
Whole(records) == [parses |-> TRUE, records |-> records]
Garbled == [parses |-> FALSE, records |-> <<>>]
Content == [parses : BOOLEAN, records : Seq(Adder)]

Ids(records) == {records[i] : i \in DOMAIN records}

TypeOK ==
  /\ pc \in [Process -> Places]
  /\ file \in Adder \union {NoFile} /\ temp \in Adder \union {NoFile}
  /\ content \in [Adder -> Content]
  /\ known \in [Adder -> Seq(Adder)]
  /\ handle \in [Adder -> Adder \union {NoFile}]
  /\ \A a \in Adder : pc[a] \in {"write", "rename"} => handle[a] # NoFile
  /\ \A p \in Process : pc[p] = "read" => file # NoFile
  /\ told \in Seq(Adder)
  /\ found \in [Lister -> Seq(Adder)]
  /\ before \in [Lister -> Seq(Adder)]
  /\ overlapped \in BOOLEAN

Init ==
  /\ pc = [p \in Process |-> "idle"]
  /\ file = NoFile /\ temp = NoFile
  /\ content = [a \in Adder |-> Whole(<<>>)]
  /\ known = [a \in Adder |-> <<>>]
  /\ handle = [a \in Adder |-> NoFile]
  /\ told = <<>>
  /\ found = [l \in Lister |-> <<>>]
  /\ before = [l \in Lister |-> <<>>]
  /\ overlapped = FALSE

-----------------------------------------------------------------------------

Goto(p, from, to) ==
  /\ pc[p] = from
  /\ pc' = [pc EXCEPT ![p] = to]

StartAdd(a) ==
  /\ Goto(a, "idle", "stat")
  /\ overlapped' = (overlapped \/ \E b \in Adder : Live(b))
  /\ UNCHANGED <<disk, addVars, listVars>>

StartList(l) ==
  /\ Goto(l, "idle", "stat")
  /\ before' = [before EXCEPT ![l] = told]
  /\ UNCHANGED <<disk, addVars, found, overlapped>>

(* Mutation: the file is read whether it exists or not.                    *)
StatIgnored(p) ==
  /\ Goto(p, "stat", "read")
  /\ UNCHANGED <<disk, addVars, listVars, overlapped>>

(* readRecords: exists(filePath). Without a file there are no records.     *)
Stat(p) ==
  /\ Goto(p, "stat", IF file # NoFile THEN "read"
                     ELSE IF p \in Adder THEN "open" ELSE "done")
  /\ UNCHANGED <<disk, addVars, listVars, overlapped>>

(* readRecords: readFile and JSON.parse of every line.                     *)
ReadThrows(p) ==
  /\ Goto(p, "read", "error")
  /\ ~content[file].parses
  /\ UNCHANGED <<disk, addVars, listVars, overlapped>>

ReadToAdd(a) ==
  /\ Goto(a, "read", "open")
  /\ content[file].parses
  /\ known' = [known EXCEPT ![a] = content[file].records]
  /\ UNCHANGED <<disk, handle, told, listVars, overlapped>>

(* Mutation: the last ones of the file.                                    *)
SliceLast(records) ==
  SubSeq(records, IF Len(records) < Limit THEN 1 ELSE Len(records) - Limit + 1,
         Len(records))

(* filterRecords: the newest ones, up to the limit.                        *)
Slice(records) ==
  SubSeq(records, 1, IF Len(records) < Limit THEN Len(records) ELSE Limit)

ReadToList(l) ==
  /\ Goto(l, "read", "done")
  /\ content[file].parses
  /\ found' = [found EXCEPT ![l] = Slice(content[file].records)]
  /\ UNCHANGED <<disk, addVars, before, overlapped>>

(* Mutation: the memory file itself is opened.                             *)
OpenInPlace(a) ==
  LET object == IF file = NoFile THEN a ELSE file IN
    /\ Goto(a, "open", "write")
    /\ file' = object
    /\ content' = [content EXCEPT ![object] = Whole(<<>>)]
    /\ handle' = [handle EXCEPT ![a] = object]
    /\ UNCHANGED <<temp, known, told, listVars, overlapped>>

(* writeRecords: writeFile opens the temporary file, which truncates the   *)
(* object at that path or creates one ...                                  *)
OpenTemp(a) ==
  LET object == IF temp = NoFile THEN a ELSE temp IN
    /\ Goto(a, "open", "write")
    /\ temp' = object
    /\ content' = [content EXCEPT ![object] = Whole(<<>>)]
    /\ handle' = [handle EXCEPT ![a] = object]
    /\ UNCHANGED <<file, known, told, listVars, overlapped>>

(* ... and writes at offset 0. Where another process has written since,    *)
(* the end of a longer content stays behind the new one: cut inside a line *)
(* or, if the lengths happen to agree, between two.                        *)
Written(old, new) ==
  {Whole(new)} \union
  IF old.parses /\ old.records = <<>> THEN {} ELSE
    {Garbled} \union {Whole(new \o SubSeq(old.records, i, Len(old.records))) :
                        i \in 2..Len(old.records)}

(* Mutation: records.push.                                                 *)
NewRecordsPushed(a) == Append(known[a], a)

(* add: records.unshift(saved).                                            *)
NewRecords(a) == <<a>> \o known[a]

WriteTemp(a) ==
  /\ Goto(a, "write", "rename")
  /\ \E c \in Written(content[handle[a]], NewRecords(a)) :
       content' = [content EXCEPT ![handle[a]] = c]
  /\ UNCHANGED <<file, temp, addVars, listVars, overlapped>>

(* rename fails if another process has renamed the temporary file before.  *)
Rename(a) ==
  \/ /\ temp # NoFile
     /\ Goto(a, "rename", "tell")
     /\ file' = temp /\ temp' = NoFile
     /\ UNCHANGED <<content, addVars, listVars, overlapped>>
  \/ /\ temp = NoFile
     /\ Goto(a, "rename", "error")
     /\ UNCHANGED <<disk, addVars, listVars, overlapped>>

Tell(a) ==
  /\ Goto(a, "tell", "done")
  /\ told' = Append(told, a)
  /\ UNCHANGED <<disk, known, handle, listVars, overlapped>>

Kill(p) ==
  /\ Crashes /\ Live(p)
  /\ pc' = [pc EXCEPT ![p] = "killed"]
  /\ UNCHANGED <<disk, addVars, listVars, overlapped>>

AllEnded == \A p \in Process : pc[p] \in {"done", "error", "killed"}

Next ==
  \/ \E a \in Adder :
       \/ StartAdd(a) \/ ReadToAdd(a)
       \/ OpenTemp(a) \/ WriteTemp(a) \/ Rename(a) \/ Tell(a)
  \/ \E l \in Lister : StartList(l) \/ ReadToList(l)
  \/ \E p \in Process : Stat(p) \/ ReadThrows(p) \/ Kill(p)
  \/ AllEnded /\ UNCHANGED vars

Spec == Init /\ [][Next]_vars

=============================================================================
