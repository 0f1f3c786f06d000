---------------------------- MODULE SqliteMemory ----------------------------
(***************************************************************************)
(* The Python memory store (src/memory/store.py, migrations.py): rows in a *)
(* SQLite database and Markdown notes beside it.  Each caller makes one    *)
(* call: it writes a new record, gets a record and writes it back with     *)
(* another body, or compacts some records into a summary.                  *)
(*                                                                         *)
(* SQLite makes a transaction one step, or none when the database stays    *)
(* locked; between the transactions of a call anything may happen.  A      *)
(* record is named after the caller that has added it, a body after the    *)
(* caller that wrote it.  A body is long when it has more than 400         *)
(* characters, the part of it that a summary keeps.  Calls that only read  *)
(* are left out.                                                           *)
(***************************************************************************)
EXTENDS Naturals, FiniteSets

CONSTANTS Caller,
          NoteOf, \* the file name of each record's note
          NoBody  \* what a note holds whose write was cut short

VARIABLES
  schema,    \* whether the migration was applied
  rows,      \* the committed rows, by record id
  links,     \* the rows of memory_compactions: <<summary, source>>
  notes,     \* the body of each note, by file name
  caller,    \* each caller: where it is, its call and its record
  clashed    \* history: the records of which two calls got in each other's way

vars == <<schema, rows, links, notes, caller, clashed>>

Places == {"idle", "begin", "read", "note", "create", "row", "mark"}
Over == {"done", "failed"}

(* What a summary keeps of a body: its first 400 characters.               *)
Excerpt == [by : Caller, whole : BOOLEAN]
ExcerptOf(body) == [by |-> body.by, whole |-> ~body.long]

Body == [by : Caller, long : BOOLEAN, tells : SUBSET (Caller \X Excerpt)]

(* A row carries its body, whether a compaction hides it, and whether it   *)
(* has the path of a note.                                                 *)
Row == [body : Body, hidden : BOOLEAN, noted : BOOLEAN]
NewRow(p, long, hidden, noted) ==
  [body |-> [by |-> p, long |-> long, tells |-> {}], hidden |-> hidden, noted |-> noted]

Init ==
  /\ schema \in BOOLEAN
  /\ rows = <<>> /\ links = {} /\ notes = <<>>
  /\ caller = [p \in Caller |->
                 [at |-> "idle", call |-> "write", then |-> "idle", id |-> p,
                  row |-> NewRow(p, FALSE, FALSE, FALSE)]]
  /\ clashed = {}

Goto(p, place) == caller' = [caller EXCEPT ![p].at = place]
Put(f, i, v) == [j \in DOMAIN f \union {i} |-> IF j = i THEN v ELSE f[j]]

-----------------------------------------------------------------------------
(* initialize, before every access to the database.                        *)

(* Mutation: the tables are taken to be there.                             *)
PrepareNothing(p) ==
  /\ caller[p].at = "begin"
  /\ Goto(p, caller[p].then)
  /\ UNCHANGED <<schema, rows, links, notes, clashed>>

Prepare(p) ==
  /\ caller[p].at = "begin"
  /\ Goto(p, IF schema THEN caller[p].then ELSE "create")
  /\ UNCHANGED <<schema, rows, links, notes, clashed>>

(* The version is inserted into a table with a primary key: whoever comes  *)
(* second with it fails.                                                   *)
ApplyMigrations(p) ==
  /\ caller[p].at = "create"
  /\ Goto(p, IF schema THEN "failed" ELSE caller[p].then)
  /\ schema' = TRUE
  /\ UNCHANGED <<rows, links, notes, clashed>>

-----------------------------------------------------------------------------
(* The calls.                                                              *)

(* Decisions and summaries have a note, other records where asked for.     *)
StartWrite(p) ==
  /\ caller[p].at = "idle"
  /\ \E long, noted \in BOOLEAN :
       caller' = [caller EXCEPT ![p].call = "write",
                                ![p].row = NewRow(p, long, FALSE, noted),
                                ![p].at = IF noted THEN "note" ELSE "begin",
                                ![p].then = "row"]
  /\ UNCHANGED <<schema, rows, links, notes, clashed>>

StartRead(p) ==
  /\ caller[p].at = "idle"
  /\ \E call \in {"rewrite", "compact"} :
       caller' = [caller EXCEPT ![p].at = "begin", ![p].then = "read", ![p].call = call]
  /\ UNCHANGED <<schema, rows, links, notes, clashed>>

(* Calls that have read record i and have yet to write it, or to mark it.   *)
Rewriting(i) ==
  {p \in Caller : caller[p].call = "rewrite" /\ caller[p].id = i
                 /\ caller[p].at \in {"note", "begin", "create", "row"}
                 /\ caller[p].then = "row"}
Sources(p) == {t[1] : t \in caller[p].row.body.tells}
Compacting(i) ==
  {p \in Caller : i \in Sources(p) /\ caller[p].at \notin Over}

(* get, and the record given back to write with another body: it keeps its *)
(* id, and with it whether it was compacted.                               *)
Get(p) ==
  /\ caller[p].at = "read" /\ caller[p].call = "rewrite"
  /\ IF rows = <<>>
     THEN Goto(p, "done") /\ UNCHANGED clashed
     ELSE \E i \in DOMAIN rows, long, noted \in BOOLEAN :
            /\ caller' = [caller EXCEPT
                            ![p].id = i,
                            ![p].row = NewRow(p, long, rows[i].hidden, noted),
                            ![p].at = IF noted THEN "note" ELSE "begin",
                            ![p].then = "row"]
            /\ clashed' = IF rows[i].hidden \/ Rewriting(i) \union Compacting(i) # {}
                          THEN clashed \union {i} ELSE clashed
  /\ UNCHANGED <<schema, rows, links, notes>>

(* The records that some query, with its filters and its limit, may find.  *)
Found == {s \in SUBSET DOMAIN rows : s # {}}

(* A summary has the titles and the excerpts of its sources: it is long if *)
(* one of them was, and may be long if none was.                           *)
Summary(p, s, long) ==
  [body |-> [by |-> p, long |-> long, tells |-> {<<i, ExcerptOf(rows[i].body)>> : i \in s}],
   hidden |-> FALSE, noted |-> TRUE]

(* The query of compact, and the summary it makes of what was found.       *)
Query(p) ==
  /\ caller[p].at = "read" /\ caller[p].call = "compact"
  /\ \/ Goto(p, "done") /\ UNCHANGED clashed
     \/ \E s \in Found, long \in BOOLEAN :
          /\ (\E i \in s : rows[i].body.long) => long
          /\ caller' = [caller EXCEPT ![p].at = "note", ![p].then = "row",
                                      ![p].row = Summary(p, s, long)]
          /\ clashed' = clashed \union {i \in s : Rewriting(i) # {}}
  /\ UNCHANGED <<schema, rows, links, notes>>

(* A note is named after the title and the first eight characters of the   *)
(* id, so that two records may have one note between them.                 *)
Noted(p, text) == notes' = Put(notes, NoteOf[caller[p].id], text)

(* Mutation: a note that cannot be written is passed over.                 *)
WriteNoteOrNot(p) ==
  /\ caller[p].at = "note"
  /\ \/ Noted(p, caller[p].row.body)
     \/ UNCHANGED notes
  /\ Goto(p, "begin")
  /\ UNCHANGED <<schema, rows, links, clashed>>

(* The note comes first.  A write that is cut short ends the call.         *)
WriteNote(p) ==
  /\ caller[p].at = "note"
  /\ \/ /\ Noted(p, caller[p].row.body)
        /\ Goto(p, "begin")
     \/ /\ Noted(p, NoBody)
        /\ Goto(p, "failed")
  /\ UNCHANGED <<schema, rows, links, clashed>>

(* INSERT ... ON CONFLICT(id) DO UPDATE, committed.                        *)
InsertRow(p) ==
  /\ caller[p].at = "row"
  /\ rows' = Put(rows, caller[p].id, caller[p].row)
  /\ Goto(p, IF caller[p].call = "compact" THEN "mark" ELSE "done")
  /\ UNCHANGED <<schema, links, notes, clashed>>

(* Mutation: what is marked is what the query finds now.                   *)
MarkedByQuery(p) == DOMAIN rows \ {p}

Marked(p) == Sources(p)

(* The sources are marked, and linked to the summary, in one transaction.  *)
MarkCompacted(p) ==
  /\ caller[p].at = "mark"
  /\ rows' = [i \in DOMAIN rows |->
                [rows[i] EXCEPT !.hidden = @ \/ i \in Marked(p)]]
  /\ links' = links \union {<<p, i>> : i \in Marked(p)}
  /\ Goto(p, "done")
  /\ UNCHANGED <<schema, notes, clashed>>

(* A kill, a database that stays locked, a directory that cannot be made:  *)
(* an open transaction is rolled back.                                     *)
Stop(p) ==
  /\ caller[p].at \notin Over \union {"idle"}
  /\ Goto(p, "failed")
  /\ UNCHANGED <<schema, rows, links, notes, clashed>>

-----------------------------------------------------------------------------

Step(p) ==
  \/ StartWrite(p) \/ StartRead(p) \/ Prepare(p) \/ ApplyMigrations(p)
  \/ Get(p) \/ Query(p) \/ WriteNote(p) \/ InsertRow(p) \/ MarkCompacted(p)
  \/ Stop(p)

AllOver ==
  /\ \A p \in Caller : caller[p].at \in Over
  /\ UNCHANGED vars

Next == (\E p \in Caller : Step(p)) \/ AllOver

Spec == Init /\ [][Next]_vars

=============================================================================
