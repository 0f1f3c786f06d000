---------------------------- MODULE MemoryProofs ----------------------------
(***************************************************************************)
(* Proofs about the JSONL memory store (JsonlMemory), for any number of    *)
(* adds and listings, any limit, with kills at any moment:                 *)
(*   TypeCorrect       the types;                                          *)
(*   AcknowledgedStays KeptUnlessOverlapped;                               *)
(*   ListingsAreWhole  ListingsComplete;                                   *)
(*   LogImplemented    AddsAtomically, the steps of MemoryLog.             *)
(***************************************************************************)
EXTENDS MemorySafety, TLAPS

-----------------------------------------------------------------------------
(* Sequences of records.                                                   *)

LEMMA WholeFacts ==
  ASSUME NEW s \in Seq(Adder)
  PROVE  /\ Whole(s) \in Content /\ Whole(s).records = s /\ Whole(s).parses
         /\ Garbled \in Content /\ ~Garbled.parses
BY DEF Whole, Garbled, Content

LEMMA WrittenTypes ==
  ASSUME NEW old \in Content, NEW new \in Seq(Adder)
  PROVE  Written(old, new) \subseteq Content
<1>1. old.records \in Seq(Adder)
  BY DEF Content
<1>2. ASSUME NEW i \in 2..Len(old.records)
      PROVE  Whole(new \o SubSeq(old.records, i, Len(old.records))) \in Content
  <2>1. SubSeq(old.records, i, Len(old.records)) \in Seq(Adder)
    BY <1>1, <1>2
  <2>2. new \o SubSeq(old.records, i, Len(old.records)) \in Seq(Adder)
    BY <2>1
  <2> QED
    BY <2>2, WholeFacts
<1>3. Whole(new) \in Content /\ Garbled \in Content
  BY WholeFacts
<1> QED
  BY <1>2, <1>3 DEF Written

LEMMA SliceFacts ==
  ASSUME NEW s \in Seq(Adder)
  PROVE  /\ Slice(s) \in Seq(Adder)
         /\ Len(Slice(s)) = IF Len(s) < Limit THEN Len(s) ELSE Limit
         /\ \A i \in 1..Len(Slice(s)) : i \in DOMAIN s /\ Slice(s)[i] = s[i]
BY MemoryAssumption DEF Slice

LEMMA NewRecordsFacts ==
  ASSUME NEW a \in Adder, known[a] \in Seq(Adder)
  PROVE  /\ NewRecords(a) \in Seq(Adder)
         /\ Len(NewRecords(a)) = Len(known[a]) + 1
         /\ NewRecords(a)[1] = a
         /\ \A i \in 2..(Len(known[a]) + 1) : NewRecords(a)[i] = known[a][i - 1]
BY DEF NewRecords

-----------------------------------------------------------------------------
(* Types.                                                                  *)

LEMMA TypeInit == Init => TypeOK
<1> SUFFICES ASSUME Init PROVE TypeOK
  OBVIOUS
<1>1. <<>> \in Seq(Adder) /\ Whole(<<>>) \in Content
  <2>1. <<>> \in Seq(Adder)
    OBVIOUS
  <2> QED
    BY <2>1, WholeFacts
<1>2. /\ pc \in [Process -> Places] /\ overlapped \in BOOLEAN
      /\ \A p \in Process : pc[p] = "idle"
  BY DEF Init, Places
<1>3. content \in [Adder -> Content]
  BY <1>1 DEF Init
<1>4. /\ known \in [Adder -> Seq(Adder)] /\ told \in Seq(Adder)
      /\ found \in [Lister -> Seq(Adder)] /\ before \in [Lister -> Seq(Adder)]
  BY <1>1 DEF Init
<1>5. handle \in [Adder -> Adder \union {NoFile}] /\ file = NoFile /\ temp = NoFile
  BY DEF Init
<1> QED
  BY <1>2, <1>3, <1>4, <1>5 DEF TypeOK, Process

LEMMA TypeStep == TypeOK /\ [Next]_vars => TypeOK'
<1> SUFFICES ASSUME TypeOK, [Next]_vars PROVE TypeOK'
  OBVIOUS
<1>1. ASSUME NEW a \in Adder, StartAdd(a) PROVE TypeOK'
  BY <1>1 DEF StartAdd, Goto, TypeOK, Places, Process, disk, addVars, listVars
<1>2. ASSUME NEW a \in Adder, ReadToAdd(a) PROVE TypeOK'
  <2>1. content[file].records \in Seq(Adder)
    BY <1>2, MemoryAssumption DEF ReadToAdd, Goto, TypeOK, Content, Process
  <2> QED
    BY <1>2, <2>1 DEF ReadToAdd, Goto, TypeOK, Places, Process, disk, listVars
<1>3. ASSUME NEW a \in Adder, OpenTemp(a) PROVE TypeOK'
  <2> DEFINE object == IF temp = NoFile THEN a ELSE temp
  <2>1. object \in Adder /\ Whole(<<>>) \in Content /\ object # NoFile
    <3>1. <<>> \in Seq(Adder)
      OBVIOUS
    <3> QED
      BY <3>1, WholeFacts, MemoryAssumption DEF TypeOK
  <2>2. /\ pc[a] = "open" /\ pc' = [pc EXCEPT ![a] = "write"]
        /\ temp' = object /\ handle' = [handle EXCEPT ![a] = object]
        /\ content' = [content EXCEPT ![object] = Whole(<<>>)]
        /\ UNCHANGED <<file, known, told, found, before, overlapped>>
    BY <1>3 DEF OpenTemp, Goto, listVars
  <2> HIDE DEF object
  <2> QED
    BY <2>1, <2>2 DEF TypeOK, Places, Process
<1>4. ASSUME NEW a \in Adder, WriteTemp(a) PROVE TypeOK'
  <2>1. handle[a] \in Adder /\ known[a] \in Seq(Adder) /\ content[handle[a]] \in Content
    BY <1>4 DEF WriteTemp, Goto, TypeOK
  <2>2. PICK c \in Content : content' = [content EXCEPT ![handle[a]] = c]
    BY <1>4, <2>1, WrittenTypes, NewRecordsFacts DEF WriteTemp
  <2>3. /\ pc[a] = "write" /\ pc' = [pc EXCEPT ![a] = "rename"]
        /\ UNCHANGED <<file, temp, known, handle, told, found, before, overlapped>>
    BY <1>4 DEF WriteTemp, Goto, addVars, listVars
  <2> QED
    BY <2>1, <2>2, <2>3 DEF TypeOK, Places, Process
<1>5. ASSUME NEW a \in Adder, Rename(a) PROVE TypeOK'
  BY <1>5 DEF Rename, Goto, TypeOK, Places, Process, disk, addVars, listVars
<1>6. ASSUME NEW a \in Adder, Tell(a) PROVE TypeOK'
  BY <1>6 DEF Tell, Goto, TypeOK, Places, Process, disk, listVars
<1>7. ASSUME NEW l \in Lister, StartList(l) PROVE TypeOK'
  BY <1>7 DEF StartList, Goto, TypeOK, Places, Process, disk, addVars
<1>8. ASSUME NEW l \in Lister, ReadToList(l) PROVE TypeOK'
  <2>1. content[file].records \in Seq(Adder)
    BY <1>8, MemoryAssumption DEF ReadToList, Goto, TypeOK, Content, Process
  <2>2. Slice(content[file].records) \in Seq(Adder)
    BY <2>1, SliceFacts
  <2> QED
    BY <1>8, <2>2 DEF ReadToList, Goto, TypeOK, Places, Process, disk, addVars
<1>9. ASSUME NEW p \in Process, Stat(p) \/ ReadThrows(p) \/ Kill(p) PROVE TypeOK'
  BY <1>9 DEF Stat, ReadThrows, Kill, Goto, TypeOK, Places, Process, disk, addVars, listVars
<1>10. CASE UNCHANGED vars
  BY <1>10 DEF TypeOK, vars, disk, addVars, listVars
<1> QED
  BY <1>1, <1>2, <1>3, <1>4, <1>5, <1>6, <1>7, <1>8, <1>9, <1>10 DEF Next

(* The types of the memory model hold for every instance of it             *)
(* (memory/store.ts:84-139).                                               *)
THEOREM TypeCorrect == Spec => []TypeOK
BY TypeInit, TypeStep, PTL DEF Spec

-----------------------------------------------------------------------------
(* The files, as long as adds do not overlap: who adds holds the temporary *)
(* file, which is not the memory file, and knows what is stored.           *)

Records == Stored.records
Early == {"idle", "stat", "read", "open"}
Holding == {"write", "rename"}
Unstored == Early \union Holding

Alone == \A a, b \in Adder : Live(a) /\ Live(b) => a = b

AddOK(a) ==
  /\ pc[a] \in Early => file # a /\ temp # a
  /\ pc[a] \in Holding => temp # NoFile /\ handle[a] = temp
  /\ pc[a] = "write" => content[temp] = Whole(<<>>)
  /\ pc[a] = "rename" => content[temp] = Whole(NewRecords(a))
  /\ pc[a] \in {"idle", "stat", "read"} => known[a] = <<>>
  /\ pc[a] \in {"open"} \union Holding => known[a] = Records

DiskInv ==
  /\ Alone
  /\ \A a \in Adder : AddOK(a)
  /\ file # NoFile => temp # file
  /\ Stored.parses

LEMMA StoredTypes == ASSUME TypeOK PROVE Stored \in Content /\ Records \in Seq(Adder)
<1>1. <<>> \in Seq(Adder)
  OBVIOUS
<1>2. Stored \in Content
  BY <1>1, WholeFacts DEF TypeOK, Stored
<1> QED
  BY <1>2 DEF Records, Content

LEMMA ProcessFacts == Adder \subseteq Process /\ Lister \subseteq Process
                      /\ \A p \in Process : p \in Adder \/ p \in Lister
BY DEF Process

(* Only p moves, and only to a place to.                                   *)
Moves(p, to) == pc' = [pc EXCEPT ![p] = to]

LEMMA MovesFacts ==
  ASSUME TypeOK, NEW p \in Process, NEW to, Moves(p, to)
  PROVE  pc'[p] = to /\ \A q \in Process \ {p} : pc'[q] = pc[q]
BY DEF TypeOK, Moves

(* What an add does leaves those who do not add, or not yet, as they are.  *)
LEMMA OtherAdds ==
  ASSUME TypeOK, DiskInv, NEW p \in Adder, NEW to, Moves(p, to), NEW b \in Adder, b # p,
         \A q \in Adder \ {p} : ~Live(q),
         known'[b] = known[b], file' \in {file, temp}, temp' \in {temp, p, NoFile}
  PROVE  AddOK(b)'
<1>1. pc'[b] = pc[b] /\ ~Live(b) /\ pc[b] \in Places
  BY ProcessFacts, MovesFacts DEF TypeOK
<1>2. CASE pc[b] = "idle"
  <2>1. file # b /\ temp # b /\ known[b] = <<>> /\ b # NoFile
    BY <1>2, MemoryAssumption DEF DiskInv, AddOK, Early
  <2> QED
    BY <1>1, <1>2, <2>1 DEF AddOK, Early, Holding
<1>3. CASE pc[b] \in {"done", "error", "killed"}
  BY <1>1, <1>3 DEF AddOK, Early, Holding
<1> QED
  BY <1>1, <1>2, <1>3 DEF Live

LEMMA StillAlone ==
  ASSUME TypeOK, NEW p \in Adder, NEW to, Moves(p, to), \A q \in Adder \ {p} : ~Live(q)
  PROVE  Alone'
<1>1. ASSUME NEW q \in Adder, q # p PROVE ~Live(q)'
  BY <1>1, ProcessFacts, MovesFacts DEF Live
<1> QED
  BY <1>1 DEF Alone

(* A step of somebody who leaves the files and the adds alone.             *)
LEMMA DiskRests ==
  ASSUME TypeOK, DiskInv, NEW p \in Process, NEW to, Moves(p, to), UNCHANGED disk,
         UNCHANGED <<known, handle>>,
         p \in Lister \/ to \in {"tell", "done", "error", "killed"},
         p \in Adder => Live(p)
  PROVE  DiskInv'
<1>1. UNCHANGED <<file, temp, content, Stored>>
  BY DEF disk, Stored
<1>2. ASSUME NEW a \in Adder PROVE AddOK(a)' /\ (Live(a)' => Live(a))
  <2>1. a # p => pc'[a] = pc[a]
    BY ProcessFacts, MovesFacts
  <2>2. a = p => pc'[a] \in {"tell", "done", "error", "killed"} /\ Live(a)
    BY MovesFacts, MemoryAssumption
  <2>3. AddOK(a)
    BY DEF DiskInv
  <2>4. CASE a # p
    BY <1>1, <2>1, <2>3, <2>4 DEF AddOK, Records, NewRecords, Live
  <2>5. CASE a = p
    BY <2>2, <2>5 DEF AddOK, Early, Holding
  <2> QED
    BY <2>4, <2>5
<1> QED
  BY <1>1, <1>2 DEF DiskInv, Alone

LEMMA DiskInit == Init => DiskInv
<1> SUFFICES ASSUME Init PROVE DiskInv
  OBVIOUS
<1>1. \A a \in Adder : pc[a] = "idle" /\ ~Live(a) /\ known[a] = <<>> /\ a # NoFile
  BY MemoryAssumption DEF Init, Live, Process
<1>2. file = NoFile /\ temp = NoFile /\ Stored.parses
  BY DEF Init, Stored, Whole
<1> QED
  BY <1>1, <1>2 DEF DiskInv, Alone, AddOK, Holding

LEMMA DiskOfAdds ==
  ASSUME TypeOK, DiskInv, NEW a \in Adder,
         \/ StartAdd(a) /\ ~overlapped'
         \/ ReadToAdd(a) \/ OpenTemp(a) \/ WriteTemp(a) \/ Rename(a) \/ Stat(a)
  PROVE  DiskInv'
<1>0. a \in Process /\ a # NoFile /\ AddOK(a)
  BY ProcessFacts, MemoryAssumption DEF DiskInv
<1>1. \A q \in Adder \ {a} : ~Live(q)
  BY DEF StartAdd, ReadToAdd, OpenTemp, WriteTemp, Rename, Stat, Goto, DiskInv, Alone, Live
<1>2. ASSUME NEW to, Moves(a, to), \A b \in Adder \ {a} : known'[b] = known[b],
             file' \in {file, temp}, temp' \in {temp, a, NoFile}
      PROVE  Alone' /\ \A b \in Adder \ {a} : AddOK(b)'
  BY <1>1, <1>2, StillAlone, OtherAdds
<1>3. CASE StartAdd(a)
  <2>1. /\ pc[a] = "idle" /\ Moves(a, "stat")
        /\ UNCHANGED <<file, temp, content, Stored, known, handle>>
    BY <1>3 DEF StartAdd, Goto, Moves, disk, addVars, Stored
  <2>2. pc'[a] = "stat"
    BY <1>0, <2>1, MovesFacts
  <2>3. AddOK(a)'
    BY <1>0, <2>1, <2>2 DEF AddOK, Early, Holding
  <2> QED
    BY <1>2, <2>1, <2>3 DEF DiskInv
<1>4. CASE Stat(a)
  <2>1. /\ pc[a] = "stat" /\ Moves(a, IF file # NoFile THEN "read" ELSE "open")
        /\ UNCHANGED <<file, temp, content, Stored, known, handle>>
    BY <1>4 DEF Stat, Goto, Moves, disk, addVars, Stored
  <2>2. pc'[a] = IF file # NoFile THEN "read" ELSE "open"
    BY <1>0, <2>1, MovesFacts
  <2>3. file = NoFile => Records = <<>>
    BY DEF Records, Stored, Whole
  <2>4. AddOK(a)'
    BY <1>0, <2>1, <2>2, <2>3 DEF AddOK, Early, Holding, Records
  <2> QED
    BY <1>2, <2>1, <2>4 DEF DiskInv
<1>5. CASE ReadToAdd(a)
  <2>1. /\ pc[a] = "read" /\ Moves(a, "open")
        /\ known' = [known EXCEPT ![a] = content[file].records]
        /\ UNCHANGED <<file, temp, content, Stored, handle>>
    BY <1>5 DEF ReadToAdd, Goto, Moves, disk, Stored
  <2>2. pc'[a] = "open" /\ known'[a] = Records
    BY <1>0, <2>1, MovesFacts DEF Records, Stored, TypeOK
  <2>3. AddOK(a)'
    BY <1>0, <2>1, <2>2 DEF AddOK, Early, Holding, Records
  <2>4. \A b \in Adder \ {a} : known'[b] = known[b]
    BY <2>1 DEF TypeOK
  <2> QED
    BY <1>2, <2>1, <2>3, <2>4 DEF DiskInv
<1>6. CASE OpenTemp(a)
  <2> DEFINE object == IF temp = NoFile THEN a ELSE temp
  <2>1. /\ pc[a] = "open" /\ Moves(a, "write")
        /\ temp' = object /\ handle' = [handle EXCEPT ![a] = object]
        /\ content' = [content EXCEPT ![object] = Whole(<<>>)]
        /\ UNCHANGED <<file, known>>
    BY <1>6 DEF OpenTemp, Goto, Moves
  <2>2. object \in Adder /\ object # NoFile /\ object # file /\ object \in {temp, a}
    BY <1>0, <2>1 DEF DiskInv, AddOK, Early, TypeOK
  <2> HIDE DEF object
  <2>3. Stored' = Stored
    BY <2>1, <2>2 DEF Stored, TypeOK
  <2>4. pc'[a] = "write" /\ handle'[a] = object /\ content'[object] = Whole(<<>>)
    BY <1>0, <2>1, <2>2, MovesFacts DEF TypeOK
  <2>5. known'[a] = Records'
    BY <1>0, <2>1, <2>3 DEF AddOK, Records
  <2>6. AddOK(a)'
    BY <2>1, <2>2, <2>4, <2>5 DEF AddOK, Early, Holding
  <2> QED
    BY <1>2, <2>1, <2>2, <2>3, <2>6 DEF DiskInv
<1>7. CASE WriteTemp(a)
  <2>1. /\ pc[a] = "write" /\ Moves(a, "rename")
        /\ UNCHANGED <<file, temp, known, handle>>
    BY <1>7 DEF WriteTemp, Goto, Moves, addVars
  <2>2. /\ handle[a] = temp /\ temp \in Adder /\ temp # file
        /\ content[temp] = Whole(<<>>)
    BY <1>0, <2>1 DEF DiskInv, AddOK, Holding, TypeOK
  <2>3. Written(content[temp], NewRecords(a)) = {Whole(NewRecords(a))}
    BY <2>2 DEF Written, Whole
  <2>4. content' = [content EXCEPT ![temp] = Whole(NewRecords(a))]
    BY <1>7, <2>2, <2>3 DEF WriteTemp
  <2>5. Stored' = Stored
    BY <2>1, <2>2, <2>4 DEF Stored, TypeOK
  <2>6. pc'[a] = "rename" /\ content'[temp] = Whole(NewRecords(a))
    BY <1>0, <2>1, <2>2, <2>4, MovesFacts DEF TypeOK
  <2>7. NewRecords(a)' = NewRecords(a)
    BY <2>1 DEF NewRecords
  <2>8. AddOK(a)'
    BY <1>0, <2>1, <2>5, <2>6, <2>7 DEF AddOK, Early, Holding, Records
  <2> QED
    BY <1>2, <2>1, <2>5, <2>8 DEF DiskInv
<1>8. CASE Rename(a)
  <2>1. /\ pc[a] = "rename" /\ temp # NoFile /\ Moves(a, "tell")
        /\ file' = temp /\ temp' = NoFile
        /\ UNCHANGED <<content, known, handle>>
    BY <1>0, <1>8 DEF Rename, Goto, Moves, addVars, AddOK, Holding
  <2>2. Stored' = Whole(NewRecords(a))
    BY <1>0, <2>1 DEF AddOK, Stored
  <2>3. pc'[a] = "tell"
    BY <1>0, <2>1, MovesFacts
  <2>4. AddOK(a)'
    BY <2>3 DEF AddOK, Early, Holding
  <2> QED
    BY <1>2, <2>1, <2>2, <2>4 DEF DiskInv, Whole
<1> QED
  BY <1>3, <1>4, <1>5, <1>6, <1>7, <1>8

-----------------------------------------------------------------------------
(* The records: each once, the last one added in front, none of an add     *)
(* that has yet to rename.                                                 *)

Distinct(records) == \A i, j \in DOMAIN records : records[i] = records[j] => i = j

RecordsInv ==
  /\ Distinct(Records)
  /\ \A i \in DOMAIN Records : pc[Records[i]] \notin Unstored
  /\ \A a \in Adder : pc[a] = "tell" => Records # <<>> /\ Records[1] = a
  /\ \A i \in DOMAIN told : pc[told[i]] = "done"
  /\ \A i \in DOMAIN told : told[i] \in Ids(Records)
  /\ NewestFirst(Records)
  /\ \A p \in Process : pc[p] # "error"

LEMMA RecordsInit == Init => RecordsInv
<1> SUFFICES ASSUME Init PROVE RecordsInv
  OBVIOUS
<1>1. Records = <<>> /\ told = <<>> /\ \A p \in Process : pc[p] = "idle"
  BY DEF Init, Records, Stored, Whole
<1> QED
  BY <1>1, ProcessFacts DEF RecordsInv, Distinct, NewestFirst

(* A step that leaves records and acknowledgements alone.                  *)
LEMMA RecordsRest ==
  ASSUME TypeOK, RecordsInv, NEW p \in Process, NEW to, Moves(p, to),
         Stored' = Stored, told' = told,
         \/ pc[p] \in Unstored /\ to \notin {"tell", "error"}
         \/ to = "killed" /\ pc[p] # "done"
  PROVE  RecordsInv'
<1>1. Records' = Records /\ Records \in Seq(Adder) /\ told \in Seq(Adder)
  BY StoredTypes DEF Records, TypeOK
<1>2. /\ pc'[p] = to /\ \A q \in Process \ {p} : pc'[q] = pc[q]
      /\ to \notin {"tell", "error"}
  BY MovesFacts
<1>3. ASSUME NEW i \in DOMAIN Records PROVE pc'[Records[i]] \notin Unstored
  <2>1. Records[i] \in Process /\ pc[Records[i]] \notin Unstored
    BY <1>1, ProcessFacts DEF RecordsInv
  <2>2. Records[i] = p => to = "killed"
    BY <2>1
  <2> QED
    BY <1>2, <2>1, <2>2 DEF Unstored, Early, Holding
<1>4. ASSUME NEW a \in Adder, pc'[a] = "tell" PROVE Records # <<>> /\ Records[1] = a
  BY <1>2, <1>4, ProcessFacts DEF RecordsInv
<1>5. ASSUME NEW i \in DOMAIN told PROVE pc'[told[i]] = "done"
  <2>1. told[i] \in Process /\ pc[told[i]] = "done" /\ "done" \notin Unstored
    BY <1>1, ProcessFacts DEF RecordsInv, Unstored, Early, Holding
  <2> QED
    BY <1>2, <2>1
<1>6. \A q \in Process : pc'[q] # "error"
  BY <1>2 DEF RecordsInv
<1>7. /\ Distinct(Records)' /\ NewestFirst(Records)'
      /\ \A i \in DOMAIN told : told[i] \in Ids(Records)
  BY <1>1 DEF RecordsInv, Distinct, NewestFirst
<1> QED
  BY <1>1, <1>3, <1>4, <1>5, <1>6, <1>7 DEF RecordsInv, Ids

(* What a rename puts in place.                                            *)
LEMMA RenameStores ==
  ASSUME TypeOK, DiskInv, NEW a \in Adder, Rename(a)
  PROVE  /\ pc[a] = "rename" /\ Moves(a, "tell") /\ told' = told
         /\ Stored'.parses /\ Records' = <<a>> \o Records
<1>1. /\ pc[a] = "rename" /\ temp # NoFile /\ known[a] = Records
      /\ content[temp] = Whole(NewRecords(a))
  BY DEF Rename, Goto, DiskInv, AddOK, Holding
<1>2. /\ Moves(a, "tell") /\ file' = temp /\ UNCHANGED <<content, told>>
  BY <1>1 DEF Rename, Goto, Moves, addVars
<1>3. Stored' = Whole(<<a>> \o Records)
  BY <1>1, <1>2 DEF Stored, NewRecords
<1> QED
  BY <1>1, <1>2, <1>3 DEF Records, Whole

LEMMA ConsFacts ==
  ASSUME NEW s \in Seq(Adder), NEW a \in Adder
  PROVE  /\ <<a>> \o s \in Seq(Adder) /\ Len(<<a>> \o s) = Len(s) + 1
         /\ (<<a>> \o s)[1] = a
         /\ \A i \in 2..(Len(s) + 1) : (<<a>> \o s)[i] = s[i - 1]
OBVIOUS

LEMMA RecordsOfRename ==
  ASSUME TypeOK, DiskInv, RecordsInv, NEW a \in Adder, Rename(a)
  PROVE  RecordsInv'
<1>1. /\ pc[a] = "rename" /\ Moves(a, "tell") /\ told' = told
      /\ Records' = <<a>> \o Records
  BY RenameStores
<1>2. /\ pc'[a] = "tell" /\ \A q \in Process \ {a} : pc'[q] = pc[q]
  BY <1>1, MovesFacts, ProcessFacts
<1> DEFINE new == <<a>> \o Records
<1>3. /\ Records \in Seq(Adder) /\ new \in Seq(Adder) /\ Len(new) = Len(Records) + 1
      /\ new[1] = a /\ \A i \in 2..Len(new) : new[i] = Records[i - 1]
  BY StoredTypes, ConsFacts
<1>4. told \in Seq(Adder)
  BY DEF TypeOK
<1> HIDE DEF new
<1>5. /\ \A i \in DOMAIN Records : Records[i] # a
      /\ \A i \in DOMAIN told : told[i] # a
  BY <1>1 DEF RecordsInv, Unstored, Holding
<1>6. ASSUME NEW i \in DOMAIN new, i # 1
      PROVE  i \in 2..Len(new) /\ i - 1 \in DOMAIN Records /\ new[i] = Records[i - 1]
  BY <1>3, <1>6
<1>7. Distinct(new)
  <2> SUFFICES ASSUME NEW i \in DOMAIN new, NEW j \in DOMAIN new, new[i] = new[j]
               PROVE  i = j
    BY DEF Distinct
  <2>1. CASE i = 1 \/ j = 1
    BY <1>3, <1>5, <1>6, <2>1
  <2>2. CASE i # 1 /\ j # 1
    <3>1. i - 1 = j - 1
      BY <1>6, <2>2 DEF RecordsInv, Distinct
    <3> QED
      BY <1>3, <3>1
  <2> QED
    BY <2>1, <2>2
<1>8. ASSUME NEW i \in DOMAIN new PROVE pc'[new[i]] \notin Unstored
  <2>1. CASE i = 1
    BY <1>2, <1>3, <2>1 DEF Unstored, Early, Holding
  <2>2. CASE i # 1
    <3>1. new[i] = Records[i - 1] /\ i - 1 \in DOMAIN Records
      BY <1>6, <2>2
    <3>2. new[i] \in Process \ {a} /\ pc[new[i]] \notin Unstored
      BY <1>3, <1>5, <3>1, ProcessFacts DEF RecordsInv
    <3> QED
      BY <1>2, <3>2
  <2> QED
    BY <2>1, <2>2
<1>9. ASSUME NEW b \in Adder, pc'[b] = "tell" PROVE new # <<>> /\ new[1] = b
  <2>1. b = a
    BY <1>1, <1>2, <1>9, ProcessFacts DEF DiskInv, Alone, Live
  <2> QED
    BY <1>3, <2>1
<1>10. ASSUME NEW i \in DOMAIN told
       PROVE  pc'[told[i]] = "done" /\ told[i] \in Ids(new)
  <2>1. pc[told[i]] = "done" /\ told[i] \in Process \ {a}
    BY <1>4, <1>5, ProcessFacts DEF RecordsInv
  <2>2. PICK j \in DOMAIN Records : told[i] = Records[j]
    BY DEF RecordsInv, Ids
  <2>3. j + 1 \in 2..Len(new) /\ new[j + 1] = Records[j]
    BY <1>3
  <2> QED
    BY <1>2, <1>3, <2>1, <2>2, <2>3 DEF Ids
<1>11. ASSUME NEW i \in DOMAIN new, NEW j \in DOMAIN new,
              NEW m \in DOMAIN told, NEW n \in DOMAIN told,
              new[i] = told[m], new[j] = told[n], i < j
       PROVE  n < m
  <2>1. i # 1 /\ j # 1
    BY <1>3, <1>5, <1>11
  <2>2. /\ i - 1 \in DOMAIN Records /\ new[i] = Records[i - 1]
        /\ j - 1 \in DOMAIN Records /\ new[j] = Records[j - 1]
        /\ i - 1 < j - 1
    BY <1>3, <1>6, <1>11, <2>1
  <2> DEFINE k == i - 1
             l == j - 1
  <2>3. /\ k \in DOMAIN Records /\ Records[k] = told[m]
        /\ l \in DOMAIN Records /\ Records[l] = told[n] /\ k < l
    BY <1>11, <2>2
  <2> HIDE DEF k, l
  <2>4. NewestFirst(Records)
    BY DEF RecordsInv
  <2> QED
    BY <2>3, <2>4 DEF NewestFirst
<1>12. NewestFirst(Records)'
  BY <1>1, <1>11 DEF NewestFirst, new
<1>13. \A q \in Process : pc'[q] # "error"
  BY <1>2 DEF RecordsInv
<1>14. Records' = new
  BY <1>1 DEF new
<1>15. Distinct(Records)' /\ \A i \in DOMAIN Records' : pc'[Records'[i]] \notin Unstored
  BY <1>7, <1>8, <1>14 DEF Distinct
<1>16. \A b \in Adder : pc'[b] = "tell" => Records' # <<>> /\ Records'[1] = b
  BY <1>9, <1>14
<1>17. \A i \in DOMAIN told' : pc'[told'[i]] = "done" /\ told'[i] \in Ids(Records')
  BY <1>1, <1>10, <1>14
<1> QED
  BY <1>12, <1>13, <1>15, <1>16, <1>17 DEF RecordsInv, Ids

(* A sequence whose element a, if it has it, comes first, stays newest     *)
(* first when a is acknowledged.                                           *)
LEMMA TellKeepsOrder ==
  ASSUME NEW s \in Seq(Adder), NEW a \in Adder, told \in Seq(Adder),
         told' = Append(told, a), NewestFirst(s), Distinct(s),
         \A i \in DOMAIN s : s[i] = a => i = 1
  PROVE  \A i, j \in DOMAIN s : \A m, n \in DOMAIN told' :
           s[i] = told'[m] /\ s[j] = told'[n] /\ i < j => n < m
<1> DEFINE new == Append(told, a)
<1>1. /\ DOMAIN new = 1..(Len(told) + 1) /\ new[Len(told) + 1] = a
      /\ \A m \in 1..Len(told) : m \in DOMAIN told /\ new[m] = told[m]
  OBVIOUS
<1> HIDE DEF new
<1>2. ASSUME NEW i \in DOMAIN s, NEW j \in DOMAIN s, NEW m \in DOMAIN new,
             NEW n \in DOMAIN new, s[i] = new[m], s[j] = new[n], i < j
      PROVE  n < m
  <2>1. n # Len(told) + 1
    BY <1>1, <1>2
  <2>2. n \in 1..Len(told)
    BY <1>1, <2>1
  <2>3. CASE m = Len(told) + 1
    BY <2>2, <2>3
  <2>4. CASE m # Len(told) + 1
    <3>1. m \in 1..Len(told)
      BY <1>1, <2>4
    <3> QED
      BY <1>1, <1>2, <2>2, <3>1 DEF NewestFirst
  <2> QED
    BY <2>3, <2>4
<1> QED
  BY <1>2 DEF new

LEMMA RecordsOfTell ==
  ASSUME TypeOK, DiskInv, RecordsInv, NEW a \in Adder, Tell(a)
  PROVE  RecordsInv'
<1>1. /\ pc[a] = "tell" /\ Moves(a, "done") /\ told' = Append(told, a)
      /\ Stored' = Stored /\ Records' = Records
  BY DEF Tell, Goto, Moves, disk, Stored, Records
<1>2. /\ pc'[a] = "done" /\ \A q \in Process \ {a} : pc'[q] = pc[q]
  BY <1>1, MovesFacts, ProcessFacts
<1>3. Records \in Seq(Adder) /\ told \in Seq(Adder) /\ Records # <<>> /\ Records[1] = a
  BY <1>1, StoredTypes DEF RecordsInv, TypeOK
<1>4. /\ \A i \in DOMAIN told' : told'[i] = a \/ \E j \in DOMAIN told : told'[i] = told[j]
  BY <1>1, <1>3
<1>5. ASSUME NEW i \in DOMAIN Records PROVE pc'[Records[i]] \notin Unstored
  BY <1>2, <1>3, ProcessFacts DEF RecordsInv, Unstored, Early, Holding
<1>6. ASSUME NEW i \in DOMAIN told'
      PROVE  pc'[told'[i]] = "done" /\ told'[i] \in Ids(Records)
  <2>1. CASE told'[i] = a
    <3>1. 1 \in DOMAIN Records
      BY <1>3
    <3>2. a \in Ids(Records)
      BY <1>3, <3>1 DEF Ids
    <3> QED
      BY <1>2, <2>1, <3>2
  <2>2. CASE told'[i] # a
    <3>1. PICK j \in DOMAIN told : told'[i] = told[j]
      BY <1>4, <2>2
    <3>2. told[j] \in Process /\ pc[told[j]] = "done" /\ told[j] \in Ids(Records)
      BY <1>3, ProcessFacts DEF RecordsInv
    <3>3. pc'[told[j]] = "done"
      BY <1>2, <3>2
    <3> QED
      BY <3>1, <3>2, <3>3
  <2> QED
    BY <2>1, <2>2
<1>7. \A i \in DOMAIN Records : Records[i] = a => i = 1
  BY <1>3 DEF RecordsInv, Distinct
<1>8. NewestFirst(Records)'
  BY <1>1, <1>3, <1>7, TellKeepsOrder DEF RecordsInv, NewestFirst
<1>9. /\ \A b \in Adder : pc'[b] # "tell"
      /\ \A q \in Process : pc'[q] # "error"
  BY <1>1, <1>2, ProcessFacts DEF DiskInv, Alone, Live, RecordsInv
<1>10. Distinct(Records)'
  BY <1>1 DEF RecordsInv, Distinct
<1> QED
  BY <1>1, <1>5, <1>6, <1>8, <1>9, <1>10 DEF RecordsInv, Ids

-----------------------------------------------------------------------------
(* Listings: what was found is a part of the records as they were, and     *)
(* what was acknowledged before the listing is the beginning of told.      *)

BeforeOK(l) == \A i \in DOMAIN before[l] : i \in DOMAIN told /\ before[l][i] = told[i]

Shown(l) ==
  /\ Len(found[l]) < Limit => {before[l][i] : i \in DOMAIN before[l]} \subseteq Ids(found[l])
  /\ \A m, n \in DOMAIN before[l] :
       m < n /\ before[l][m] \in Ids(found[l]) => before[l][n] \in Ids(found[l])

FoundOK(l) ==
  /\ Distinct(found[l])
  /\ \A i \in DOMAIN found[l] : /\ pc[found[l][i]] \notin Unstored
                                /\ pc[found[l][i]] = "tell" => i = 1

ListOK(l) ==
  /\ pc[l] \in {"idle", "stat", "read"} => found[l] = <<>>
  /\ pc[l] = "done" => Shown(l)
  /\ BeforeOK(l) /\ FoundOK(l) /\ NewestFirst(found[l])

ListInv == \A l \in Lister : ListOK(l)

LEMMA ListInit == Init => ListInv
<1> SUFFICES ASSUME Init, NEW l \in Lister PROVE ListOK(l)
  BY DEF ListInv
<1>1. pc[l] = "idle" /\ found[l] = <<>> /\ before[l] = <<>>
  BY ProcessFacts DEF Init
<1> QED
  BY <1>1 DEF ListOK, BeforeOK, FoundOK, Distinct, NewestFirst

(* Adds that go on, and listings that start or stop, leave what is shown.  *)
LEMMA ListRests ==
  ASSUME TypeOK, NEW l \in Lister, ListOK(l), NEW p \in Process, NEW to, Moves(p, to),
         pc[p] \in Unstored \/ to \in {"done", "killed"},
         p = l => to = "killed" \/ (to \in {"stat", "read"} /\ pc[l] \in {"idle", "stat"}),
         found'[l] = found[l], p # l => before'[l] = before[l],
         BeforeOK(l)', NewestFirst(found[l])'
  PROVE  ListOK(l)'
<1>1. /\ pc'[p] = to /\ \A q \in Process \ {p} : pc'[q] = pc[q]
      /\ l \in Process /\ found[l] \in Seq(Adder)
  BY MovesFacts, ProcessFacts DEF TypeOK
<1>2. pc'[l] \in {"idle", "stat", "read"} => found'[l] = <<>>
  BY <1>1 DEF ListOK
<1>3. ASSUME pc'[l] = "done" PROVE Shown(l)'
  <2>1. p # l
    BY <1>1, <1>3
  <2>2. Shown(l) /\ found'[l] = found[l] /\ before'[l] = before[l]
    BY <1>1, <1>3, <2>1 DEF ListOK
  <2> QED
    BY <2>2 DEF Shown, Ids
<1>4. ASSUME NEW i \in DOMAIN found[l]
      PROVE  /\ pc'[found[l][i]] \notin Unstored
             /\ pc'[found[l][i]] = "tell" => i = 1
  <2>1. /\ found[l][i] \in Process /\ pc[found[l][i]] \notin Unstored
        /\ pc[found[l][i]] = "tell" => i = 1
    BY <1>1, ProcessFacts DEF ListOK, FoundOK
  <2> QED
    BY <1>1, <2>1 DEF Unstored, Early, Holding
<1>5. FoundOK(l)'
  BY <1>4 DEF ListOK, FoundOK, Distinct
<1> QED
  BY <1>2, <1>3, <1>5 DEF ListOK

(* ... as long as nothing is acknowledged.                                 *)
LEMMA ListRestsUntold ==
  ASSUME TypeOK, NEW l \in Lister, ListOK(l), NEW p \in Process, NEW to, Moves(p, to),
         pc[p] \in Unstored \/ to \in {"done", "killed"},
         p = l => to = "killed" \/ (to \in {"stat", "read"} /\ pc[l] \in {"idle", "stat"}),
         found'[l] = found[l], before'[l] = before[l], told' = told
  PROVE  ListOK(l)'
<1>1. BeforeOK(l)' /\ NewestFirst(found[l])'
  BY DEF ListOK, BeforeOK, NewestFirst
<1> QED
  BY <1>1, ListRests

LEMMA ListOfTell ==
  ASSUME TypeOK, NEW l \in Lister, ListOK(l), NEW a \in Adder, Tell(a)
  PROVE  ListOK(l)'
<1>1. /\ pc[a] = "tell" /\ Moves(a, "done") /\ told' = Append(told, a)
      /\ found' = found /\ before' = before /\ a # l /\ a \in Process
  BY MemoryAssumption, ProcessFacts DEF Tell, Goto, Moves, listVars
<1>2. /\ told \in Seq(Adder) /\ found[l] \in Seq(Adder)
      /\ Distinct(found[l]) /\ NewestFirst(found[l])
      /\ \A i \in DOMAIN found[l] : found[l][i] = a => i = 1
  BY <1>1 DEF TypeOK, ListOK, FoundOK
<1>3. NewestFirst(found[l])'
  BY <1>1, <1>2, TellKeepsOrder DEF NewestFirst
<1>4. \A i \in DOMAIN told : i \in DOMAIN told' /\ told'[i] = told[i]
  BY <1>1, <1>2
<1>5. BeforeOK(l)'
  BY <1>1, <1>4 DEF ListOK, BeforeOK
<1> QED
  BY <1>1, <1>3, <1>5, ListRests

LEMMA ListOfStart ==
  ASSUME TypeOK, NEW l \in Lister, ListOK(l), StartList(l)
  PROVE  ListOK(l)'
<1>1. /\ pc[l] = "idle" /\ Moves(l, "stat") /\ told' = told /\ found' = found
      /\ before'[l] = told /\ l \in Process
  BY ProcessFacts DEF StartList, Goto, Moves, addVars, TypeOK
<1>2. BeforeOK(l)' /\ NewestFirst(found[l])'
  BY <1>1 DEF ListOK, BeforeOK, NewestFirst
<1> QED
  BY <1>1, <1>2, ListRests DEF Unstored, Early

(* Without a memory file nothing was ever acknowledged.                    *)
LEMMA ListOfNothing ==
  ASSUME TypeOK, RecordsInv, NEW l \in Lister, ListOK(l), Stat(l), file = NoFile
  PROVE  ListOK(l)'
<1>1. /\ pc[l] = "stat" /\ pc'[l] = "done"
      /\ UNCHANGED <<found, before, told>> /\ found[l] = <<>>
  BY MemoryAssumption, ProcessFacts
     DEF Stat, Goto, addVars, listVars, TypeOK, ListOK
<1>2. Ids(Records) = {}
  BY DEF Records, Stored, Whole, Ids
<1>3. \A i \in DOMAIN before[l] : FALSE
  BY <1>2 DEF RecordsInv, ListOK, BeforeOK
<1>4. Shown(l)'
  BY <1>1, <1>3 DEF Shown
<1>5. BeforeOK(l)' /\ FoundOK(l)' /\ NewestFirst(found[l])'
  BY <1>1, <1>3 DEF BeforeOK, FoundOK, NewestFirst, Distinct
<1> QED
  BY <1>1, <1>4, <1>5 DEF ListOK

LEMMA ListOfRead ==
  ASSUME TypeOK, RecordsInv, NEW l \in Lister, ListOK(l), ReadToList(l)
  PROVE  ListOK(l)'
<1> DEFINE shown == Slice(Records)
<1>1. /\ pc[l] = "read" /\ Moves(l, "done") /\ UNCHANGED <<before, told>>
      /\ file # NoFile /\ found' = [found EXCEPT ![l] = Slice(content[file].records)]
  BY ProcessFacts DEF ReadToList, Goto, Moves, addVars, TypeOK
<1>2. /\ found'[l] = shown /\ pc'[l] = "done"
      /\ \A q \in Process \ {l} : pc'[q] = pc[q]
  BY <1>1, MovesFacts, ProcessFacts DEF TypeOK, Records, Stored
<1>3. /\ Records \in Seq(Adder) /\ shown \in Seq(Adder)
      /\ Len(shown) = IF Len(Records) < Limit THEN Len(Records) ELSE Limit
      /\ \A i \in 1..Len(shown) : i \in DOMAIN Records /\ shown[i] = Records[i]
  BY StoredTypes, SliceFacts
<1>4. DOMAIN shown = 1..Len(shown) /\ DOMAIN Records = 1..Len(Records)
  BY <1>3
<1> HIDE DEF shown
<1>5. Distinct(shown) /\ NewestFirst(shown)
  BY <1>3, <1>4 DEF RecordsInv, Distinct, NewestFirst
<1>6. ASSUME NEW i \in DOMAIN shown
      PROVE  /\ pc'[shown[i]] \notin Unstored
             /\ pc'[shown[i]] = "tell" => i = 1
  <2>1. i \in DOMAIN Records /\ shown[i] = Records[i] /\ Records[i] \in Adder
    BY <1>3, <1>4
  <2>2. Records[i] \in Process \ {l}
    BY <2>1, ProcessFacts, MemoryAssumption
  <2>3. pc[Records[i]] = "tell" => Records[1] = Records[i] /\ 1 \in DOMAIN Records
    BY <1>3, <1>4, <2>1 DEF RecordsInv
  <2> QED
    BY <1>2, <2>1, <2>2, <2>3 DEF RecordsInv, Distinct
<1>7. FoundOK(l)' /\ NewestFirst(found[l])' /\ BeforeOK(l)'
  BY <1>1, <1>2, <1>5, <1>6 DEF FoundOK, Distinct, NewestFirst, BeforeOK, ListOK
<1>8. ASSUME NEW n \in DOMAIN before[l]
      PROVE  /\ n \in DOMAIN told /\ before[l][n] = told[n]
             /\ \E j \in DOMAIN Records : before[l][n] = Records[j]
  BY DEF RecordsInv, Ids, ListOK, BeforeOK
<1>9. ASSUME Len(shown) < Limit, NEW n \in DOMAIN before[l]
      PROVE  before[l][n] \in Ids(shown)
  <2>1. PICK j \in DOMAIN Records : before[l][n] = Records[j]
    BY <1>8
  <2>2. j \in DOMAIN shown
    BY <1>3, <1>4, <1>9, MemoryAssumption
  <2> QED
    BY <1>3, <1>4, <2>1, <2>2 DEF Ids
<1>10. ASSUME NEW m \in DOMAIN before[l], NEW n \in DOMAIN before[l],
              m < n, before[l][m] \in Ids(shown)
       PROVE  before[l][n] \in Ids(shown)
  <2>1. PICK i \in DOMAIN shown : before[l][m] = shown[i]
    BY <1>10 DEF Ids
  <2>2. PICK j \in DOMAIN Records : before[l][n] = Records[j]
    BY <1>8
  <2>3. /\ i \in DOMAIN Records /\ Records[i] = told[m] /\ m \in DOMAIN told
        /\ Records[j] = told[n] /\ n \in DOMAIN told
    BY <1>3, <1>4, <1>8, <2>1, <2>2
  <2>4. m \in Nat /\ n \in Nat /\ i \in Nat /\ j \in Nat
    <3>1. told \in Seq(Adder)
      BY DEF TypeOK
    <3> QED
      BY <1>3, <2>3, <3>1
  <2>5. ~(i < j)
    BY <1>10, <2>3, <2>4 DEF RecordsInv, NewestFirst
  <2>6. j \in DOMAIN shown
    BY <1>3, <1>4, <2>1, <2>2, <2>5
  <2> QED
    BY <1>3, <1>4, <2>2, <2>6 DEF Ids
<1>11. Shown(l)'
  BY <1>1, <1>2, <1>9, <1>10 DEF Shown
<1> QED
  BY <1>2, <1>7, <1>11 DEF ListOK

-----------------------------------------------------------------------------
(* All of it together, until two adds overlap.                             *)

SerialInv == DiskInv /\ RecordsInv /\ ListInv
MemoryInv == TypeOK /\ (~overlapped => SerialInv)

(* What goes on before a rename, and a kill.                               *)
LEMMA QuietStep ==
  ASSUME TypeOK, RecordsInv, ListInv, NEW p \in Process, NEW to, Moves(p, to),
         Stored' = Stored, UNCHANGED <<told, found, before>>,
         \/ pc[p] \in Unstored /\ p \in Adder /\ to \notin {"tell", "error"}
         \/ /\ p \in Lister /\ pc[p] \in {"idle", "stat"} /\ to \in {"stat", "read"}
         \/ to = "killed" /\ Live(p)
  PROVE  RecordsInv' /\ ListInv'
<1>1. /\ Adder \intersect Lister = {} /\ {"idle", "stat"} \subseteq Unstored
      /\ Live(p) => pc[p] # "done"
      /\ pc[p] \in Places
  BY MemoryAssumption DEF Unstored, Early, Live, TypeOK
<1>2. RecordsInv'
  BY <1>1, RecordsRest
<1>3. ASSUME NEW l \in Lister PROVE ListOK(l)'
  <2>1. pc[p] \in Unstored \/ to \in {"done", "killed"}
    BY <1>1
  <2>2. p = l => to = "killed" \/ (to \in {"stat", "read"} /\ pc[l] \in {"idle", "stat"})
    BY <1>1
  <2>3. ListOK(l)
    BY DEF ListInv
  <2> QED
    BY <2>1, <2>2, <2>3, ListRestsUntold
<1> QED
  BY <1>2, <1>3 DEF ListInv

(* What is stored changes only with a rename.                              *)
LEMMA StoredStays ==
  ASSUME TypeOK, DiskInv, NEW a \in Adder,
         StartAdd(a) \/ ReadToAdd(a) \/ OpenTemp(a) \/ WriteTemp(a) \/ Stat(a)
  PROVE  Stored' = Stored
<1>1. AddOK(a)
  BY DEF DiskInv
<1>2. CASE StartAdd(a) \/ ReadToAdd(a) \/ Stat(a)
  BY <1>2 DEF StartAdd, ReadToAdd, Stat, disk, Stored
<1>3. CASE OpenTemp(a)
  <2> DEFINE object == IF temp = NoFile THEN a ELSE temp
  <2>1. object # file
    BY <1>1, <1>3 DEF OpenTemp, Goto, DiskInv, AddOK, Early
  <2>2. content' = [content EXCEPT ![object] = Whole(<<>>)] /\ file' = file
    BY <1>3 DEF OpenTemp
  <2> HIDE DEF object
  <2> QED
    BY <2>1, <2>2 DEF Stored, TypeOK
<1>4. CASE WriteTemp(a)
  <2>1. handle[a] # file /\ file' = file
    BY <1>1, <1>4 DEF WriteTemp, Goto, DiskInv, AddOK, Holding
  <2>2. \E c : content' = [content EXCEPT ![handle[a]] = c]
    BY <1>4 DEF WriteTemp
  <2> QED
    BY <2>1, <2>2 DEF Stored, TypeOK
<1> QED
  BY <1>2, <1>3, <1>4

LEMMA AddStep ==
  ASSUME TypeOK, SerialInv, NEW a \in Adder,
         \/ StartAdd(a) /\ ~overlapped'
         \/ ReadToAdd(a) \/ OpenTemp(a) \/ WriteTemp(a) \/ Rename(a) \/ Tell(a) \/ Stat(a)
  PROVE  SerialInv'
<1>0. DiskInv /\ RecordsInv /\ ListInv /\ a \in Process /\ a \notin Lister
  BY ProcessFacts, MemoryAssumption DEF SerialInv
<1>1. CASE Rename(a)
  <2>1. /\ pc[a] = "rename" /\ Moves(a, "tell") /\ told' = told
        /\ UNCHANGED <<found, before>>
    BY <1>0, <1>1, RenameStores DEF Rename, listVars
  <2>2. ASSUME NEW l \in Lister PROVE ListOK(l)'
    <3>1. ListOK(l) /\ pc[a] \in Unstored /\ a # l
      BY <1>0, <2>1 DEF ListInv, Unstored, Holding
    <3> QED
      BY <1>0, <2>1, <3>1, ListRestsUntold
  <2> QED
    BY <1>0, <1>1, <2>2, DiskOfAdds, RecordsOfRename DEF SerialInv, ListInv
<1>2. CASE Tell(a)
  <2>1. /\ pc[a] = "tell" /\ Moves(a, "done") /\ UNCHANGED disk
        /\ UNCHANGED <<known, handle>>
    BY <1>2 DEF Tell, Goto, Moves
  <2>2. DiskInv'
    BY <1>0, <2>1, DiskRests DEF Live
  <2> QED
    BY <1>0, <1>2, <2>2, RecordsOfTell, ListOfTell DEF SerialInv, ListInv
<1>3. ASSUME \/ StartAdd(a) /\ ~overlapped'
             \/ ReadToAdd(a) \/ OpenTemp(a) \/ WriteTemp(a) \/ Stat(a)
      PROVE  SerialInv'
  <2>1. DiskInv' /\ Stored' = Stored
    BY <1>0, <1>3, DiskOfAdds, StoredStays
  <2>2. /\ \E to \in {"stat", "read", "open", "write", "rename"} : Moves(a, to)
        /\ pc[a] \in Unstored /\ UNCHANGED <<told, found, before>>
    BY <1>0, <1>3 DEF StartAdd, ReadToAdd, OpenTemp, WriteTemp, Stat, Goto, Moves,
                      addVars, listVars, Unstored, Early, Holding
  <2> QED
    BY <1>0, <2>1, <2>2, QuietStep DEF SerialInv
<1> QED
  BY <1>1, <1>2, <1>3

LEMMA ListStep ==
  ASSUME TypeOK, SerialInv, NEW l \in Lister,
         StartList(l) \/ ReadToList(l) \/ Stat(l)
  PROVE  SerialInv'
<1>0. DiskInv /\ RecordsInv /\ ListInv /\ l \in Process /\ l \notin Adder
  BY ProcessFacts, MemoryAssumption DEF SerialInv
<1>1. /\ \E to \in {"stat", "read", "done"} : Moves(l, to)
      /\ pc[l] \in {"idle", "stat", "read"} /\ UNCHANGED disk /\ UNCHANGED <<known, handle, told>>
  BY <1>0 DEF StartList, ReadToList, Stat, Goto, Moves, addVars
<1>2. DiskInv' /\ Stored' = Stored
  BY <1>0, <1>1, DiskRests DEF disk, Stored
<1>3. RecordsInv'
  BY <1>0, <1>1, <1>2, RecordsRest DEF Unstored, Early
<1>4. ASSUME NEW k \in Lister PROVE ListOK(k)'
  <2>0. ListOK(k) /\ pc[l] \in Unstored
    BY <1>0, <1>1 DEF ListInv, Unstored, Early
  <2>1. CASE k # l
    <3>1. found'[k] = found[k] /\ before'[k] = before[k]
      BY <2>1 DEF StartList, ReadToList, Stat, listVars, TypeOK
    <3> QED
      BY <1>0, <1>1, <2>0, <2>1, <3>1, ListRestsUntold
  <2>2. CASE k = l /\ StartList(l)
    BY <2>0, <2>2, ListOfStart
  <2>3. CASE k = l /\ ReadToList(l)
    BY <1>0, <2>0, <2>3, ListOfRead
  <2>4. CASE k = l /\ Stat(l) /\ file = NoFile
    BY <1>0, <2>0, <2>4, ListOfNothing
  <2>5. CASE k = l /\ Stat(l) /\ file # NoFile
    <3>1. /\ pc[l] = "stat" /\ Moves(l, "read")
          /\ UNCHANGED <<found, before, told>>
      BY <2>5 DEF Stat, Goto, Moves, listVars, addVars
    <3> QED
      BY <1>0, <2>0, <2>5, <3>1, ListRestsUntold
  <2> QED
    BY <2>1, <2>2, <2>3, <2>4, <2>5
<1> QED
  BY <1>2, <1>3, <1>4 DEF SerialInv, ListInv

LEMMA SerialStep ==
  ASSUME TypeOK, SerialInv, [Next]_vars, ~overlapped'
  PROVE  SerialInv'
<1>0. DiskInv /\ RecordsInv /\ ListInv
  BY DEF SerialInv
<1>1. ASSUME NEW a \in Adder,
             \/ StartAdd(a) \/ ReadToAdd(a) \/ OpenTemp(a) \/ WriteTemp(a) \/ Rename(a)
             \/ Tell(a)
      PROVE  SerialInv'
  BY <1>1, AddStep
<1>2. ASSUME NEW l \in Lister, StartList(l) \/ ReadToList(l) PROVE SerialInv'
  BY <1>2, ListStep
<1>3. ASSUME NEW p \in Process, Stat(p) PROVE SerialInv'
  BY <1>3, ProcessFacts, AddStep, ListStep
<1>4. ASSUME NEW p \in Process, ReadThrows(p) PROVE FALSE
  <2>1. file # NoFile /\ ~content[file].parses
    BY <1>4 DEF ReadThrows, Goto, TypeOK
  <2> QED
    BY <1>0, <2>1 DEF DiskInv, Stored
<1>5. ASSUME NEW p \in Process, Kill(p) PROVE SerialInv'
  <2>1. /\ Live(p) /\ Moves(p, "killed") /\ UNCHANGED disk
        /\ UNCHANGED <<known, handle, told, found, before>>
    BY <1>5 DEF Kill, Moves, addVars, listVars
  <2>2. DiskInv' /\ Stored' = Stored
    BY <1>0, <2>1, DiskRests DEF disk, Stored
  <2> QED
    BY <1>0, <2>1, <2>2, QuietStep DEF SerialInv
<1>6. CASE UNCHANGED vars
  <2>1. UNCHANGED <<pc, file, temp, content, known, handle, told, found, before>>
    BY <1>6 DEF vars, disk, addVars, listVars
  <2>2. Stored' = Stored /\ Records' = Records
    BY <2>1 DEF Stored, Records
  <2>3. ASSUME NEW a \in Adder PROVE AddOK(a)'
    BY <1>0, <2>1, <2>2 DEF DiskInv, AddOK, NewRecords
  <2>4. DiskInv'
    BY <1>0, <2>1, <2>2, <2>3 DEF DiskInv, Alone, Live
  <2>5. RecordsInv'
    BY <1>0, <2>1, <2>2 DEF RecordsInv, Distinct, NewestFirst, Ids
  <2>6. ASSUME NEW l \in Lister PROVE ListOK(l)'
    <3>1. ListOK(l)
      BY <1>0 DEF ListInv
    <3> QED
      BY <2>1, <3>1 DEF ListOK, BeforeOK, FoundOK, Shown, Distinct, NewestFirst, Ids
  <2> QED
    BY <2>4, <2>5, <2>6 DEF SerialInv, ListInv
<1> QED
  BY <1>1, <1>2, <1>3, <1>4, <1>5, <1>6 DEF Next

LEMMA OverlapStays == TypeOK /\ [Next]_vars /\ overlapped => overlapped'
BY DEF TypeOK, Next, vars, StartAdd, ReadToAdd, OpenTemp, WriteTemp, Rename, Tell,
       StartList, ReadToList, Stat, ReadThrows, Kill

LEMMA MemoryInvariance == Spec => []MemoryInv
<1>1. Init => MemoryInv
  BY TypeInit, DiskInit, RecordsInit, ListInit DEF MemoryInv, SerialInv
<1>2. MemoryInv /\ [Next]_vars => MemoryInv'
  BY TypeStep, SerialStep, OverlapStays DEF MemoryInv
<1> QED
  BY <1>1, <1>2, PTL DEF Spec

(* Until two adds overlap, what was acknowledged is in the file, newest    *)
(* first, and nothing fails, whoever is killed (store.ts:84-87, 118-127).  *)
THEOREM AcknowledgedStays == Spec => []KeptUnlessOverlapped
<1>1. MemoryInv => KeptUnlessOverlapped
  BY DEF MemoryInv, SerialInv, DiskInv, RecordsInv, KeptUnlessOverlapped, ToldIsKept,
         Records
<1> QED
  BY <1>1, MemoryInvariance, PTL

(* A listing shows what was acknowledged before it began, and at the limit *)
(* leaves out only older records than it shows (store.ts:110-139).         *)
THEOREM ListingsAreWhole == Spec => []ListingsComplete
<1>1. MemoryInv => ListingsComplete
  BY DEF MemoryInv, SerialInv, ListInv, ListOK, Shown, ListingsComplete
<1> QED
  BY <1>1, MemoryInvariance, PTL

(* Until two adds overlap, each step of the store is a step of the log     *)
(* that MemoryLog describes, or none of it (store.ts:118-127).             *)
THEOREM LogImplemented == Spec => AddsAtomically
<1>1. ASSUME MemoryInv, [Next]_vars
      PROVE  [overlapped' \/ Log!Next \/ UNCHANGED <<Stored, told>>]_vars
  <2> SUFFICES ASSUME ~overlapped', Next
               PROVE  Log!Next \/ UNCHANGED <<Stored, told>> \/ UNCHANGED vars
    BY <1>1
  <2>0. TypeOK /\ DiskInv /\ RecordsInv
    BY <1>1, OverlapStays DEF MemoryInv, SerialInv
  <2>1. ASSUME NEW a \in Adder, Rename(a) PROVE Log!Next
    <3>1. /\ pc[a] = "rename" /\ told' = told /\ Records' = <<a>> \o Records
      BY <2>0, <2>1, RenameStores
    <3>2. \A i \in DOMAIN Records : Records[i] # a
      BY <2>0, <3>1 DEF RecordsInv, Unstored, Holding
    <3> QED
      BY <3>1, <3>2 DEF Log!Next, Log!Add, Log!Among, Records
  <2>2. ASSUME NEW a \in Adder, Tell(a) PROVE Log!Next
    <3>1. /\ pc[a] = "tell" /\ Stored' = Stored /\ told' = Append(told, a)
      BY <2>2 DEF Tell, Goto, disk, Stored
    <3>2. Records # <<>> /\ Records[1] = a /\ Records \in Seq(Adder)
      BY <2>0, <3>1, StoredTypes DEF RecordsInv
    <3>3. 1 \in DOMAIN Records /\ Records[1] = a
      BY <3>2
    <3>4. \A i \in DOMAIN told : told[i] # a
      BY <2>0, <3>1 DEF RecordsInv
    <3> QED
      BY <3>1, <3>3, <3>4 DEF Log!Next, Log!Acknowledge, Log!Among, Records
  <2>3. ASSUME NEW a \in Adder,
               StartAdd(a) \/ ReadToAdd(a) \/ OpenTemp(a) \/ WriteTemp(a)
        PROVE  UNCHANGED <<Stored, told>>
    BY <2>0, <2>3, StoredStays DEF StartAdd, ReadToAdd, OpenTemp, WriteTemp, addVars
  <2>4. ASSUME NEW l \in Lister, StartList(l) \/ ReadToList(l)
        PROVE  UNCHANGED <<Stored, told>>
    BY <2>4 DEF StartList, ReadToList, addVars, disk, Stored
  <2>5. ASSUME NEW p \in Process, Stat(p) \/ ReadThrows(p) \/ Kill(p)
        PROVE  UNCHANGED <<Stored, told>>
    BY <2>5 DEF Stat, ReadThrows, Kill, addVars, disk, Stored
  <2> QED
    BY <2>1, <2>2, <2>3, <2>4, <2>5 DEF Next
<1> QED
  BY <1>1, MemoryInvariance, PTL DEF Spec, AddsAtomically

=============================================================================
