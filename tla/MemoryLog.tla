------------------------------ MODULE MemoryLog ------------------------------
(***************************************************************************)
(* What a memory file promises to somebody who only adds and lists: a      *)
(* record is added as a whole or not at all, the newest first, none is     *)
(* ever dropped, and only an added record is acknowledged.                 *)
(***************************************************************************)
EXTENDS Naturals, Sequences

CONSTANT Entry     \* the records that may be added, each by its own add

VARIABLES entries, \* the records of the file, newest first
          told     \* the acknowledged ones, in the order of acknowledgement

Among(e, s) == \E i \in DOMAIN s : s[i] = e

Init == entries = <<>> /\ told = <<>>

Add(e) ==
  /\ ~Among(e, entries)
  /\ entries' = <<e>> \o entries
  /\ UNCHANGED told

Acknowledge(e) ==
  /\ Among(e, entries) /\ ~Among(e, told)
  /\ told' = Append(told, e)
  /\ UNCHANGED entries

Next == \E e \in Entry : Add(e) \/ Acknowledge(e)

Spec == Init /\ [][Next]_<<entries, told>>

=============================================================================
