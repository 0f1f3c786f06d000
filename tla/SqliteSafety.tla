---------------------------- MODULE SqliteSafety ----------------------------
(***************************************************************************)
(* What the Python memory store keeps: properties of SqliteMemory.         *)
(***************************************************************************)
EXTENDS SqliteMemory

TypeOK ==
  /\ schema \in BOOLEAN
  /\ DOMAIN rows \subseteq Caller /\ \A i \in DOMAIN rows : rows[i] \in Row
  /\ links \subseteq Caller \X Caller
  /\ DOMAIN notes \subseteq {NoteOf[i] : i \in Caller}
  /\ \A n \in DOMAIN notes : notes[n] \in Body \union {NoBody}
  /\ caller \in [Caller -> [at : Places \union Over, then : {"idle", "read", "row"},
                            call : {"write", "rewrite", "compact"},
                            id : Caller, row : Row]]
  /\ clashed \subseteq Caller
  /\ ~schema => rows = <<>>

-----------------------------------------------------------------------------

(* What compaction hides, it tells as far as a summary goes: whatever is   *)
(* stopped in between, and whatever is added or compacted at the same      *)
(* time, a hidden record is linked to a committed summary, which tells the *)
(* body the record has now, whole if it is not longer than 400 characters  *)
(* and else its first 400, or was itself rewritten since.  What is beyond  *)
(* these is told nowhere, and stays in the hidden row alone.  Only a       *)
(* record that was rewritten while it was being compacted, or when it was  *)
(* hidden, may be hidden untold (store.py:164-196).                        *)
HiddenIsTold ==
  \A i \in DOMAIN rows \ clashed :
    rows[i].hidden =>
      \E s \in DOMAIN rows :
        /\ <<s, i>> \in links
        /\ \/ rows[s].body.by # s
           \/ \E t \in rows[s].body.tells :
                /\ t[1] = i /\ t[2].by = rows[i].body.by
                /\ t[2].whole \/ rows[i].body.long

(* No other record has the name of i's note.                               *)
OwnNote(i) == \A j \in Caller \ {i} : NoteOf[j] # NoteOf[i]

(* A row that has the path of a note has the note, with its own body: the  *)
(* note is written first, so a call that stops leaves a note too many and  *)
(* never one too few.  Only a rewrite that goes on or was stopped, or one  *)
(* that clashed with another, may be in between, and a record that shares  *)
(* the name of its note with another may lose it to that one               *)
(* (store.py:88-135, 255).                                                 *)
NotesMatchRows ==
  \A i \in DOMAIN rows \ clashed :
    rows[i].noted /\ OwnNote(i) =>
      \/ NoteOf[i] \in DOMAIN notes /\ notes[NoteOf[i]] = rows[i].body
      \/ \E p \in Caller : caller[p].call = "rewrite" /\ caller[p].id = i
                           /\ caller[p].at # "done"

=============================================================================
