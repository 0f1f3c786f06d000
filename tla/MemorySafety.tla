---------------------------- MODULE MemorySafety ----------------------------
(***************************************************************************)
(* What the JSONL memory store guarantees: properties of JsonlMemory.      *)
(***************************************************************************)
EXTENDS JsonlMemory

Stored == IF file = NoFile THEN Whole(<<>>) ELSE content[file]

(* Positions in told and in a list of records agree, newest first.         *)
NewestFirst(records) ==
  \A i, j \in DOMAIN records : \A m, n \in DOMAIN told :
    records[i] = told[m] /\ records[j] = told[n] /\ i < j => n < m

-----------------------------------------------------------------------------

(* "Added memory" is a promise: every acknowledged record is in the file,  *)
(* and the file can be read (store.ts:84-87).                              *)
ToldIsKept == Stored.parses /\ {told[i] : i \in DOMAIN told} \subseteq Ids(Stored.records)

(* It is kept as long as no two adds were under way at the same time,      *)
(* whatever is killed at whatever moment and however many listings go on:  *)
(* no add and no listing fails, and the newest record comes first.         *)
KeptUnlessOverlapped ==
  ~overlapped =>
    /\ ToldIsKept
    /\ NewestFirst(Stored.records)
    /\ \A p \in Process : pc[p] # "error"

(* A listing shows every record acknowledged before it started, or, at the *)
(* limit, only leaves out older ones than it shows (store.ts:110-139).     *)
ListingsComplete ==
  ~overlapped => \A l \in Lister : pc[l] = "done" =>
    /\ Len(found[l]) < Limit =>
         {before[l][i] : i \in DOMAIN before[l]} \subseteq Ids(found[l])
    /\ NewestFirst(found[l])
    /\ \A m, n \in DOMAIN before[l] :
         m < n /\ before[l][m] \in Ids(found[l]) => before[l][n] \in Ids(found[l])

Log == INSTANCE MemoryLog WITH Entry <- Adder, entries <- Stored.records

(* Until two adds overlap, every step is a step of the abstract log or     *)
(* leaves it alone: readers see a record come in one step, between the     *)
(* truncation and the write of the temporary file they see nothing of it.  *)
AddsAtomically == [][overlapped' \/ Log!Next \/ UNCHANGED <<Stored, told>>]_vars

=============================================================================
