---------------------------- MODULE SqliteProofs ----------------------------
(***************************************************************************)
(* Proofs about the Python memory store (SqliteMemory), for any set of     *)
(* callers and every way in which their calls interleave and stop:         *)
(*   TypeCorrect          the types, and no row before the migration;      *)
(*   NoteForEveryRow      NotesMatchRows;                                  *)
(*   NothingHiddenUntold  HiddenIsTold.                                    *)
(* The module assumes nothing of its constants: any two records may have   *)
(* the name of their note in common.                                       *)
(***************************************************************************)
EXTENDS SqliteSafety, TLAPS

CallRec == [at : Places \union Over, then : {"idle", "read", "row"},
            call : {"write", "rewrite", "compact"}, id : Caller, row : Row]

-----------------------------------------------------------------------------
(* What a step does to the callers: one of them moves, the others stay.    *)

Others(p) ==
  /\ caller' \in [Caller -> CallRec]
  /\ \A q \in Caller \ {p} : caller'[q] = caller[q]

Holds(p, id, row) == caller'[p].id = id /\ caller'[p].row = row

Moves(p, place) ==
  /\ Others(p)
  /\ caller'[p].at = place
  /\ caller'[p].then = caller[p].then /\ caller'[p].call = caller[p].call
  /\ Holds(p, caller[p].id, caller[p].row)

(* A new row has a body of its caller's, which tells nothing.              *)
LEMMA NewRowFacts ==
  ASSUME NEW p \in Caller, NEW long \in BOOLEAN, NEW hidden \in BOOLEAN,
         NEW noted \in BOOLEAN
  PROVE  /\ NewRow(p, long, hidden, noted) \in Row
         /\ NewRow(p, long, hidden, noted).body.by = p
         /\ NewRow(p, long, hidden, noted).body.tells = {}
         /\ NewRow(p, long, hidden, noted).hidden = hidden
         /\ NewRow(p, long, hidden, noted).noted = noted
  BY DEF NewRow, Row, Body

LEMMA GotoMoves ==
  ASSUME TypeOK, NEW p \in Caller, NEW place \in Places \union Over, Goto(p, place)
  PROVE  Moves(p, place)
<1>1. caller \in [Caller -> CallRec] /\ caller[p] \in CallRec
  BY DEF TypeOK, CallRec
<1> DEFINE new == [caller[p] EXCEPT !.at = place]
<1>2. new \in CallRec /\ caller' = [caller EXCEPT ![p] = new]
  BY <1>1 DEF Goto, CallRec
<1>3. /\ new.at = place /\ new.then = caller[p].then /\ new.call = caller[p].call
      /\ new.id = caller[p].id /\ new.row = caller[p].row
  BY <1>1 DEF CallRec
<1> QED
  BY <1>1, <1>2, <1>3 DEF Moves, Others, Holds

LEMMA StartWriteMoves ==
  ASSUME TypeOK, NEW p \in Caller, StartWrite(p)
  PROVE  \E long, noted \in BOOLEAN :
           /\ Others(p)
           /\ caller'[p].at = IF noted THEN "note" ELSE "begin"
           /\ caller'[p].then = "row" /\ caller'[p].call = "write"
           /\ Holds(p, caller[p].id, NewRow(p, long, FALSE, noted))
<1>1. caller \in [Caller -> CallRec] /\ caller[p] \in CallRec
  BY DEF TypeOK, CallRec
<1>2. PICK long, noted \in BOOLEAN :
        caller' = [caller EXCEPT ![p].call = "write",
                                 ![p].row = NewRow(p, long, FALSE, noted),
                                 ![p].at = IF noted THEN "note" ELSE "begin",
                                 ![p].then = "row"]
  BY DEF StartWrite
<1> DEFINE row == NewRow(p, long, FALSE, noted)
           new == [caller[p] EXCEPT !.call = "write", !.row = row,
                                    !.at = IF noted THEN "note" ELSE "begin",
                                    !.then = "row"]
<1>3. row \in Row
  BY NewRowFacts
<1>4. caller' = [caller EXCEPT ![p] = new]
  BY <1>1, <1>2
<1> HIDE DEF row
<1>5. new \in CallRec
  BY <1>1, <1>3 DEF CallRec, Places, Over
<1>6. /\ new.at = IF noted THEN "note" ELSE "begin"
      /\ new.then = "row" /\ new.call = "write" /\ new.id = caller[p].id
      /\ new.row = row
  BY <1>1 DEF CallRec
<1> HIDE DEF new
<1>7. caller'[p] = new /\ Others(p)
  BY <1>1, <1>4, <1>5 DEF Others
<1> QED
  BY <1>6, <1>7, Zenon DEF Holds, row

LEMMA StartReadMoves ==
  ASSUME TypeOK, NEW p \in Caller, StartRead(p)
  PROVE  \E call \in {"rewrite", "compact"} :
           /\ Others(p)
           /\ caller'[p].at = "begin" /\ caller'[p].then = "read"
           /\ caller'[p].call = call
           /\ Holds(p, caller[p].id, caller[p].row)
<1>1. caller \in [Caller -> CallRec] /\ caller[p] \in CallRec
  BY DEF TypeOK, CallRec
<1>2. PICK call \in {"rewrite", "compact"} :
        caller' = [caller EXCEPT ![p].at = "begin", ![p].then = "read", ![p].call = call]
  BY DEF StartRead
<1> DEFINE new == [caller[p] EXCEPT !.at = "begin", !.then = "read", !.call = call]
<1>3. new \in CallRec /\ caller' = [caller EXCEPT ![p] = new]
  BY <1>1, <1>2 DEF CallRec, Places, Over
<1>4. /\ new.at = "begin" /\ new.then = "read" /\ new.call = call
      /\ new.id = caller[p].id /\ new.row = caller[p].row
  BY <1>1 DEF CallRec
<1> QED
  BY <1>1, <1>3, <1>4 DEF Others, Holds

(* What get finds is held, with the caller's own body.                     *)
LEMMA GetMoves ==
  ASSUME TypeOK, NEW p \in Caller, Get(p)
  PROVE  \/ Moves(p, "done") /\ rows = <<>> /\ UNCHANGED clashed
         \/ \E i \in DOMAIN rows, long, noted \in BOOLEAN :
              /\ Others(p)
              /\ caller'[p].at = IF noted THEN "note" ELSE "begin"
              /\ caller'[p].then = "row" /\ caller'[p].call = caller[p].call
              /\ Holds(p, i, NewRow(p, long, rows[i].hidden, noted))
              /\ clashed' = IF rows[i].hidden \/ Rewriting(i) \union Compacting(i) # {}
                            THEN clashed \union {i} ELSE clashed
<1>1. caller \in [Caller -> CallRec] /\ caller[p] \in CallRec
  BY DEF TypeOK, CallRec
<1>2. CASE rows = <<>>
  BY <1>2, GotoMoves DEF Get, Over
<1>3. CASE rows # <<>>
  <2>1. PICK i \in DOMAIN rows, long, noted \in BOOLEAN :
          /\ caller' = [caller EXCEPT ![p].id = i,
                          ![p].row = NewRow(p, long, rows[i].hidden, noted),
                          ![p].at = IF noted THEN "note" ELSE "begin",
                          ![p].then = "row"]
          /\ clashed' = IF rows[i].hidden \/ Rewriting(i) \union Compacting(i) # {}
                        THEN clashed \union {i} ELSE clashed
    BY <1>3 DEF Get
  <2> DEFINE row == NewRow(p, long, rows[i].hidden, noted)
             new == [caller[p] EXCEPT !.id = i, !.row = row,
                       !.at = IF noted THEN "note" ELSE "begin", !.then = "row"]
  <2>2. i \in Caller /\ rows[i].hidden \in BOOLEAN
    BY DEF TypeOK, Row
  <2>3. row \in Row
    BY <2>2, NewRowFacts
  <2>4. caller' = [caller EXCEPT ![p] = new]
    BY <1>1, <2>1
  <2> HIDE DEF row
  <2>5. new \in CallRec
    BY <1>1, <2>2, <2>3 DEF CallRec, Places, Over
  <2>6. /\ new.at = IF noted THEN "note" ELSE "begin"
        /\ new.then = "row" /\ new.call = caller[p].call /\ new.id = i
        /\ new.row = row
    BY <1>1 DEF CallRec
  <2>7. caller'[p] = new /\ Others(p)
    BY <1>1, <2>4, <2>5 DEF Others
  <2>8. Holds(p, i, row)
    BY <2>6, <2>7 DEF Holds
  <2> HIDE DEF new
  <2>9. /\ caller'[p].at = IF noted THEN "note" ELSE "begin"
        /\ caller'[p].then = "row" /\ caller'[p].call = caller[p].call
    BY <2>6, <2>7
  <2> QED
    BY <2>1, <2>7, <2>8, <2>9, Zenon DEF row
<1> QED
  BY <1>2, <1>3

(* What the query finds is told.                                           *)
LEMMA QueryMoves ==
  ASSUME TypeOK, NEW p \in Caller, Query(p)
  PROVE  \/ Moves(p, "done") /\ UNCHANGED clashed
         \/ \E s \in SUBSET DOMAIN rows, long \in BOOLEAN :
              /\ Others(p)
              /\ caller'[p].at = "note" /\ caller'[p].then = "row"
              /\ caller'[p].call = "compact"
              /\ Holds(p, caller[p].id, Summary(p, s, long))
              /\ clashed' = clashed \union {i \in s : Rewriting(i) # {}}
<1>1. caller \in [Caller -> CallRec] /\ caller[p] \in CallRec
  BY DEF TypeOK, CallRec
<1>2. CASE Goto(p, "done") /\ UNCHANGED clashed
  BY <1>2, GotoMoves DEF Over
<1>3. CASE ~(Goto(p, "done") /\ UNCHANGED clashed)
  <2>1. PICK s \in Found, long \in BOOLEAN :
          /\ caller' = [caller EXCEPT ![p].at = "note", ![p].then = "row",
                                      ![p].row = Summary(p, s, long)]
          /\ clashed' = clashed \union {i \in s : Rewriting(i) # {}}
    BY <1>3 DEF Query
  <2> DEFINE new == [caller[p] EXCEPT !.at = "note", !.then = "row",
                                      !.row = Summary(p, s, long)]
  <2>2. s \in SUBSET DOMAIN rows
    BY DEF Found
  <2>3. \A i \in s : i \in Caller /\ ExcerptOf(rows[i].body) \in Excerpt
    BY <2>2 DEF TypeOK, Row, Body, Excerpt, ExcerptOf
  <2>4. {<<i, ExcerptOf(rows[i].body)>> : i \in s} \in SUBSET (Caller \X Excerpt)
    BY <2>3
  <2>5. Summary(p, s, long) \in Row
    BY <2>4 DEF Summary, Row, Body
  <2>6. new \in CallRec /\ caller' = [caller EXCEPT ![p] = new]
    BY <1>1, <2>1, <2>5 DEF CallRec, Places, Over
  <2>7. /\ new.at = "note" /\ new.then = "row" /\ new.call = caller[p].call
        /\ new.id = caller[p].id /\ new.row = Summary(p, s, long)
    BY <1>1 DEF CallRec
  <2>8. caller[p].call = "compact"
    BY DEF Query
  <2>9. caller'[p] = new /\ Others(p)
    BY <1>1, <2>6 DEF Others
  <2> HIDE DEF new
  <2>10. Holds(p, caller[p].id, Summary(p, s, long))
    BY <2>7, <2>9, Zenon DEF Holds
  <2> QED
    BY <2>1, <2>2, <2>7, <2>8, <2>9, <2>10, Zenon
<1> QED
  BY <1>2, <1>3

LEMMA MarkFacts ==
  ASSUME NEW p \in Caller, MarkCompacted(p), TypeOK
  PROVE  /\ DOMAIN rows' = DOMAIN rows
         /\ \A i \in DOMAIN rows :
              /\ rows'[i] \in Row
              /\ rows'[i].body = rows[i].body /\ rows'[i].noted = rows[i].noted
              /\ i \notin Sources(p) => rows'[i].hidden = rows[i].hidden
<1>1. rows' = [i \in DOMAIN rows |->
                 [rows[i] EXCEPT !.hidden = @ \/ i \in Sources(p)]]
  BY DEF MarkCompacted, Marked
<1>2. ASSUME NEW i \in DOMAIN rows
      PROVE  /\ rows'[i] \in Row
             /\ rows'[i].body = rows[i].body /\ rows'[i].noted = rows[i].noted
             /\ i \notin Sources(p) => rows'[i].hidden = rows[i].hidden
  <2>1. rows[i] \in Row
    BY DEF TypeOK
  <2>2. rows'[i] = [rows[i] EXCEPT !.hidden = rows[i].hidden \/ i \in Sources(p)]
    BY <1>1
  <2>3. (rows[i].hidden \/ i \in Sources(p)) \in BOOLEAN
    OBVIOUS
  <2>4. rows'[i] \in Row
    BY <2>1, <2>2, <2>3 DEF Row
  <2>5. rows'[i].body = rows[i].body /\ rows'[i].noted = rows[i].noted
    BY <2>1, <2>2 DEF Row
  <2>6. rows'[i].hidden = (rows[i].hidden \/ i \in Sources(p))
    BY <2>1, <2>2, Zenon DEF Row
  <2>7. rows[i].hidden \in BOOLEAN
    BY <2>1 DEF Row
  <2> QED
    BY <2>4, <2>5, <2>6, <2>7
<1> QED
  BY <1>1, <1>2

-----------------------------------------------------------------------------
(* Where a caller can be, and what it then holds: a caller that writes a   *)
(* record back holds the id of a row, any other its own; a row of its own  *)
(* is there only once it has been inserted.                                *)
PlaceOK(p) ==
  /\ caller[p].at = "mark" => caller[p].call = "compact"
  /\ caller[p].at \in {"note", "row"} => caller[p].then = "row"
  /\ caller[p].at = "read" => caller[p].then = "read"
  /\ IF caller[p].at = "idle" THEN caller[p].call = "write"
                              ELSE caller[p].then # "idle"
  /\ caller[p].at \in {"read", "row", "mark"} => schema
  /\ caller[p].call # "rewrite" => caller[p].id = p
  /\ caller[p].call = "rewrite" =>
       IF caller[p].then = "row" THEN caller[p].id \in DOMAIN rows
                                 ELSE caller[p].id = p
  /\ caller[p].row.body.by = p

PlaceInv == \A p \in Caller : PlaceOK(p)

RowsInv ==
  \A i \in DOMAIN rows : /\ caller[i].call # "rewrite"
                         /\ caller[i].at \in {"mark", "done", "failed"}

CallInv == TypeOK /\ PlaceInv /\ RowsInv

LEMMA InitCallInv == Init => CallInv
  BY DEF Init, CallInv, TypeOK, PlaceInv, PlaceOK, RowsInv, Places, Over, Row, Body,
         NewRow

(* A step that leaves the database and the notes alone keeps the types.    *)
LEMMA TypesKept ==
  ASSUME TypeOK, NEW p \in Caller, Others(p), clashed' \subseteq Caller,
         UNCHANGED <<rows, links, notes>>, schema' \in BOOLEAN, schema => schema'
  PROVE  TypeOK'
  BY DEF TypeOK, Others, CallRec

(* It is enough to look at the caller that moves.                          *)
LEMMA CallInvKept ==
  ASSUME CallInv, NEW p \in Caller, Others(p), DOMAIN rows \subseteq DOMAIN rows',
         schema => schema', TypeOK', PlaceOK(p)',
         DOMAIN rows' = DOMAIN rows \/ DOMAIN rows' = DOMAIN rows \union {p},
         p \in DOMAIN rows' =>
           caller'[p].call # "rewrite" /\ caller'[p].at \in {"mark", "done", "failed"}
  PROVE  CallInv'
<1>1. ASSUME NEW q \in Caller \ {p} PROVE PlaceOK(q)'
  BY <1>1 DEF CallInv, PlaceInv, PlaceOK, Others
<1>2. ASSUME NEW i \in DOMAIN rows', i # p
      PROVE  caller'[i].call # "rewrite" /\ caller'[i].at \in {"mark", "done", "failed"}
  BY <1>2 DEF CallInv, RowsInv, TypeOK, Others
<1> QED
  BY <1>1, <1>2 DEF CallInv, PlaceInv, RowsInv

LEMMA NextCallInv == CallInv /\ [Next]_vars => CallInv'
<1> SUFFICES ASSUME CallInv, [Next]_vars PROVE CallInv'
  OBVIOUS
<1>t. TypeOK
  BY DEF CallInv
<1>o. ASSUME NEW p \in Caller
      PROVE  PlaceOK(p) /\ (p \in DOMAIN rows => caller[p].call # "rewrite"
                                /\ caller[p].at \in {"mark", "done", "failed"})
  BY DEF CallInv, PlaceInv, RowsInv
<1>1. ASSUME NEW p \in Caller, StartWrite(p) PROVE CallInv'
  <2>1. PICK long, noted \in BOOLEAN :
           /\ Others(p)
           /\ caller'[p].at = IF noted THEN "note" ELSE "begin"
           /\ caller'[p].then = "row" /\ caller'[p].call = "write"
           /\ Holds(p, caller[p].id, NewRow(p, long, FALSE, noted))
    BY <1>t, <1>1, StartWriteMoves
  <2>2. UNCHANGED <<schema, rows, links, notes, clashed>> /\ caller[p].at = "idle"
    BY <1>1 DEF StartWrite
  <2>3. TypeOK'
    BY <1>t, <2>1, <2>2, TypesKept DEF TypeOK
  <2>4. caller'[p].row.body.by = p
    BY <2>1 DEF Holds, NewRow
  <2>5. PlaceOK(p)'
    BY <1>o, <2>1, <2>2, <2>3, <2>4 DEF PlaceOK, Holds
  <2> QED
    BY <1>o, <2>1, <2>2, <2>3, <2>4, <2>5, CallInvKept DEF RowsInv, CallInv
<1>2. ASSUME NEW p \in Caller, StartRead(p) PROVE CallInv'
  <2>1. PICK call \in {"rewrite", "compact"} :
           /\ Others(p)
           /\ caller'[p].at = "begin" /\ caller'[p].then = "read"
           /\ caller'[p].call = call
           /\ Holds(p, caller[p].id, caller[p].row)
    BY <1>t, <1>2, StartReadMoves
  <2>2. UNCHANGED <<schema, rows, links, notes, clashed>> /\ caller[p].at = "idle"
    BY <1>2 DEF StartRead
  <2>3. TypeOK'
    BY <1>t, <2>1, <2>2, TypesKept DEF TypeOK
  <2>5. PlaceOK(p)'
    BY <1>o, <2>1, <2>2, <2>3 DEF PlaceOK, Holds
  <2> QED
    BY <1>o, <2>1, <2>2, <2>3, <2>5, CallInvKept DEF RowsInv, CallInv
<1>3. ASSUME NEW p \in Caller, Prepare(p) PROVE CallInv'
  <2>1. /\ caller[p].at = "begin"
        /\ Goto(p, IF schema THEN caller[p].then ELSE "create")
        /\ UNCHANGED <<schema, rows, links, notes, clashed>>
    BY <1>3 DEF Prepare
  <2>2. Moves(p, IF schema THEN caller[p].then ELSE "create")
    BY <1>t, <2>1, GotoMoves DEF TypeOK, Places
  <2>3. TypeOK'
    BY <1>t, <2>1, <2>2, TypesKept DEF TypeOK, Moves
  <2>4. caller[p].then \in {"read", "row"}
    BY <1>t, <1>o, <2>1 DEF TypeOK, PlaceOK
  <2>5. PlaceOK(p)'
    BY <1>o, <2>1, <2>2, <2>3, <2>4 DEF PlaceOK, Moves, Holds
  <2> QED
    BY <1>o, <2>1, <2>2, <2>3, <2>5, CallInvKept DEF RowsInv, CallInv, Moves
<1>4. ASSUME NEW p \in Caller, ApplyMigrations(p) PROVE CallInv'
  <2>1. /\ caller[p].at = "create"
        /\ Goto(p, IF schema THEN "failed" ELSE caller[p].then)
        /\ schema' = TRUE
        /\ UNCHANGED <<rows, links, notes, clashed>>
    BY <1>4 DEF ApplyMigrations
  <2>2. Moves(p, IF schema THEN "failed" ELSE caller[p].then)
    BY <1>t, <2>1, GotoMoves DEF TypeOK, Places, Over
  <2>3. TypeOK'
    BY <1>t, <2>1, <2>2, TypesKept DEF TypeOK, Moves
  <2>4. caller[p].then \in {"read", "row"}
    BY <1>t, <1>o, <2>1 DEF TypeOK, PlaceOK
  <2>5. PlaceOK(p)'
    BY <1>o, <2>1, <2>2, <2>3, <2>4 DEF PlaceOK, Moves, Holds
  <2> QED
    BY <1>o, <2>1, <2>2, <2>3, <2>5, CallInvKept DEF RowsInv, CallInv, Moves
<1>5. ASSUME NEW p \in Caller, Get(p) PROVE CallInv'
  <2>1. UNCHANGED <<schema, rows, links, notes>> /\ caller[p].at = "read"
    BY <1>5 DEF Get
  <2>2. CASE Moves(p, "done") /\ rows = <<>> /\ UNCHANGED clashed
    <3>1. TypeOK'
      BY <1>t, <2>1, <2>2, TypesKept DEF TypeOK, Moves
    <3>2. PlaceOK(p)'
      BY <1>o, <2>1, <2>2 DEF PlaceOK, Moves, Holds
    <3> QED
      BY <1>o, <2>1, <2>2, <3>1, <3>2, CallInvKept DEF Moves
  <2>3. ASSUME NEW i \in DOMAIN rows, NEW long \in BOOLEAN, NEW noted \in BOOLEAN,
               /\ Others(p)
               /\ caller'[p].at = IF noted THEN "note" ELSE "begin"
               /\ caller'[p].then = "row" /\ caller'[p].call = caller[p].call
               /\ Holds(p, i, NewRow(p, long, rows[i].hidden, noted))
               /\ clashed' = IF rows[i].hidden \/ Rewriting(i) \union Compacting(i) # {}
                             THEN clashed \union {i} ELSE clashed
        PROVE  CallInv'
    <3>1. clashed' \subseteq Caller
      BY <1>t, <2>3 DEF TypeOK
    <3>2. TypeOK'
      BY <1>t, <2>1, <2>3, <3>1, TypesKept DEF TypeOK
    <3>3. caller'[p].row.body.by = p /\ caller'[p].id = i
      BY <1>t, <2>3, NewRowFacts DEF Holds, TypeOK, Row
    <3>4. caller[p].call = "rewrite"
      BY <1>5 DEF Get
    <3>5. PlaceOK(p)'
      BY <1>o, <2>1, <2>3, <3>3, <3>4 DEF PlaceOK
    <3> QED
      BY <1>o, <2>1, <2>3, <3>2, <3>5, CallInvKept
  <2> QED
    BY <1>t, <1>5, <2>2, <2>3, GetMoves
<1>6. ASSUME NEW p \in Caller, Query(p) PROVE CallInv'
  <2>1. UNCHANGED <<schema, rows, links, notes>> /\ caller[p].at = "read"
    BY <1>6 DEF Query
  <2>2. CASE Moves(p, "done") /\ UNCHANGED clashed
    <3>1. TypeOK'
      BY <1>t, <2>1, <2>2, TypesKept DEF TypeOK, Moves
    <3>2. PlaceOK(p)'
      BY <1>o, <2>1, <2>2 DEF PlaceOK, Moves, Holds
    <3> QED
      BY <1>o, <2>1, <2>2, <3>1, <3>2, CallInvKept DEF Moves
  <2>3. ASSUME NEW s \in SUBSET DOMAIN rows, NEW long \in BOOLEAN,
               /\ Others(p)
               /\ caller'[p].at = "note" /\ caller'[p].then = "row"
               /\ caller'[p].call = "compact"
               /\ Holds(p, caller[p].id, Summary(p, s, long))
               /\ clashed' = clashed \union {i \in s : Rewriting(i) # {}}
        PROVE  CallInv'
    <3>1. clashed' \subseteq Caller
      BY <1>t, <2>3 DEF TypeOK
    <3>2. TypeOK'
      BY <1>t, <2>1, <2>3, <3>1, TypesKept DEF TypeOK
    <3>3. caller'[p].row.body.by = p /\ caller'[p].id = caller[p].id
      BY <2>3 DEF Holds, Summary
    <3>4. caller[p].call = "compact"
      BY <1>6 DEF Query
    <3>5. PlaceOK(p)'
      BY <1>o, <2>1, <2>3, <3>3, <3>4 DEF PlaceOK
    <3> QED
      BY <1>o, <2>1, <2>3, <3>2, <3>5, CallInvKept
  <2> QED
    BY <1>t, <1>6, <2>2, <2>3, QueryMoves
<1>7. ASSUME NEW p \in Caller, WriteNote(p) PROVE CallInv'
  <2>1. PICK place \in {"begin", "failed"}, text \in {caller[p].row.body, NoBody} :
          /\ Goto(p, place) /\ notes' = Put(notes, NoteOf[caller[p].id], text)
          /\ UNCHANGED <<schema, rows, links, clashed>> /\ caller[p].at = "note"
    BY <1>7 DEF WriteNote, Noted
  <2>2. Moves(p, place)
    BY <1>t, <2>1, GotoMoves DEF Places, Over
  <2>3. caller[p].id \in Caller /\ text \in Body \union {NoBody}
    BY <1>t, <2>1 DEF TypeOK, Row
  <2>4. DOMAIN notes' \subseteq {NoteOf[i] : i \in Caller}
        /\ \A i \in DOMAIN notes' : notes'[i] \in Body \union {NoBody}
    BY <1>t, <2>1, <2>3 DEF TypeOK, Put
  <2>5. TypeOK'
    BY <1>t, <2>1, <2>2, <2>4 DEF TypeOK, Moves, Others, CallRec
  <2>6. PlaceOK(p)'
    BY <1>o, <2>1, <2>2 DEF PlaceOK, Moves, Holds
  <2> QED
    BY <1>o, <2>1, <2>2, <2>5, <2>6, CallInvKept DEF Moves
<1>8. ASSUME NEW p \in Caller, InsertRow(p) PROVE CallInv'
  <2>1. PICK place \in {"mark", "done"} :
          /\ Goto(p, place) /\ place = IF caller[p].call = "compact" THEN "mark" ELSE "done"
          /\ rows' = Put(rows, caller[p].id, caller[p].row)
          /\ UNCHANGED <<schema, links, notes, clashed>> /\ caller[p].at = "row"
    BY <1>8 DEF InsertRow
  <2>2. Moves(p, place)
    BY <1>t, <2>1, GotoMoves DEF Places, Over
  <2>3. caller[p].id \in Caller /\ caller[p].row \in Row
    BY <1>t DEF TypeOK
  <2>4. /\ DOMAIN rows' = DOMAIN rows \union {caller[p].id}
        /\ \A i \in DOMAIN rows' : rows'[i] \in Row
    BY <1>t, <2>1, <2>3 DEF TypeOK, Put
  <2>5. schema
    BY <1>o, <2>1 DEF PlaceOK
  <2>6. TypeOK'
    BY <1>t, <2>1, <2>2, <2>3, <2>4, <2>5 DEF TypeOK, Moves, Others, CallRec
  <2>7. PlaceOK(p)'
    BY <1>o, <2>1, <2>2, <2>4, <2>5 DEF PlaceOK, Moves, Holds
  <2>8. DOMAIN rows' = DOMAIN rows \/ DOMAIN rows' = DOMAIN rows \union {p}
    <3>1. CASE caller[p].call = "rewrite"
      <4>1. caller[p].id \in DOMAIN rows
        BY <1>o, <2>1, <3>1 DEF PlaceOK
      <4> QED
        BY <2>4, <4>1
    <3>2. CASE caller[p].call # "rewrite"
      BY <1>o, <2>4, <3>2 DEF PlaceOK
    <3> QED
      BY <3>1, <3>2
  <2>9. p \notin DOMAIN rows
    BY <1>o, <2>1
  <2>10. p \in DOMAIN rows' => caller[p].call # "rewrite"
    BY <1>o, <2>1, <2>4, <2>9 DEF PlaceOK
  <2> QED
    BY <1>o, <2>1, <2>2, <2>4, <2>6, <2>7, <2>8, <2>10, CallInvKept DEF Moves
<1>9. ASSUME NEW p \in Caller, MarkCompacted(p) PROVE CallInv'
  <2>1. /\ Goto(p, "done") /\ links' = links \union {<<p, i>> : i \in Sources(p)}
        /\ UNCHANGED <<schema, notes, clashed>> /\ caller[p].at = "mark"
    BY <1>9 DEF MarkCompacted, Marked
  <2>2. Moves(p, "done")
    BY <1>t, <2>1, GotoMoves DEF Over
  <2>3. DOMAIN rows' = DOMAIN rows /\ \A i \in DOMAIN rows : rows'[i] \in Row
    BY <1>t, <1>9, MarkFacts
  <2>4. Sources(p) \subseteq Caller
    BY <1>t DEF TypeOK, Sources, Row, Body
  <2>5. schema
    BY <1>o, <2>1 DEF PlaceOK
  <2>6. TypeOK'
    BY <1>t, <2>1, <2>2, <2>3, <2>4, <2>5 DEF TypeOK, Moves, Others, CallRec
  <2>7. PlaceOK(p)'
    BY <1>o, <2>1, <2>2, <2>3 DEF PlaceOK, Moves, Holds
  <2> QED
    BY <1>o, <2>1, <2>2, <2>3, <2>6, <2>7, CallInvKept DEF Moves
<1>10. ASSUME NEW p \in Caller, Stop(p) PROVE CallInv'
  <2>1. /\ Goto(p, "failed") /\ UNCHANGED <<schema, rows, links, notes, clashed>>
        /\ caller[p].at # "idle"
    BY <1>10 DEF Stop
  <2>2. Moves(p, "failed")
    BY <1>t, <2>1, GotoMoves DEF Over
  <2>3. TypeOK'
    BY <1>t, <2>1, <2>2, TypesKept DEF TypeOK, Moves
  <2>4. PlaceOK(p)'
    BY <1>o, <2>1, <2>2 DEF PlaceOK, Moves, Holds
  <2> QED
    BY <1>o, <2>1, <2>2, <2>3, <2>4, CallInvKept DEF Moves
<1>11. CASE UNCHANGED vars
  BY <1>11 DEF vars, CallInv, TypeOK, PlaceInv, PlaceOK, RowsInv
<1> QED
  BY <1>1, <1>2, <1>3, <1>4, <1>5, <1>6, <1>7, <1>8, <1>9, <1>10, <1>11
     DEF Next, Step, AllOver

(* The variables have their types, and there are no rows before there is a *)
(* table for them (store.py:47-50, migrations.py).                        *)
THEOREM TypeCorrect == Spec => []TypeOK
<1>1. CallInv => TypeOK
  BY DEF CallInv
<1> QED
  BY InitCallInv, NextCallInv, <1>1, PTL DEF Spec

-----------------------------------------------------------------------------
(* Notes.  A call that holds a row with a note has written the note, and   *)
(* nobody else writes it before the row is inserted: of a new record       *)
(* nobody knows, and two calls that write the same record back clash.      *)
HasNote(p) ==
  /\ NoteOf[caller[p].id] \in DOMAIN notes
  /\ notes[NoteOf[caller[p].id]] = caller[p].row.body

NoteWritten(p) ==
  /\ OwnNote(caller[p].id)
  /\ caller[p].at \in {"begin", "create", "row"} /\ caller[p].then = "row"
  /\ caller[p].row.noted
  /\ caller[p].call = "rewrite" => caller[p].id \notin clashed

WritesBack(p) ==
  /\ caller[p].call = "rewrite" /\ caller[p].then = "row"
  /\ caller[p].at \in {"note", "begin", "create", "row"}

Unclashed ==
  \A p, q \in Caller :
    WritesBack(p) /\ WritesBack(q) /\ p # q /\ caller[p].id = caller[q].id =>
      caller[p].id \in clashed

NoteInv ==
  /\ \A p \in Caller : NoteWritten(p) => HasNote(p)
  /\ Unclashed
  /\ NotesMatchRows

LEMMA RewritingIs ==
  ASSUME NEW i PROVE Rewriting(i) = {p \in Caller : WritesBack(p) /\ caller[p].id = i}
  BY DEF Rewriting, WritesBack

LEMMA InitNoteInv == Init => NoteInv
<1> SUFFICES ASSUME Init PROVE NoteInv
  OBVIOUS
<1>1. \A p \in Caller : caller[p].at = "idle" /\ DOMAIN rows = {}
  BY DEF Init
<1>2. \A p \in Caller : ~NoteWritten(p) /\ ~WritesBack(p)
  BY <1>1 DEF NoteWritten, WritesBack
<1>3. NotesMatchRows
  BY DEF Init, NotesMatchRows
<1> QED
  BY <1>2, <1>3 DEF NoteInv, Unclashed

(* Steps that leave rows and notes alone.                                  *)
LEMMA NoteInvKept ==
  ASSUME NoteInv, CallInv, NEW p \in Caller, Others(p), UNCHANGED <<rows, notes>>,
         clashed \subseteq clashed',
         NoteWritten(p)' => HasNote(p)',
         \A q \in Caller \ {p} :
           WritesBack(p)' /\ WritesBack(q) /\ caller'[p].id = caller[q].id =>
             caller[q].id \in clashed',
         caller[p].call = "rewrite" /\ caller[p].id \in DOMAIN rows =>
           caller'[p].call = "rewrite" /\ caller'[p].id = caller[p].id
             /\ caller'[p].at # "done"
  PROVE  NoteInv'
<1>1. ASSUME NEW q \in Caller, NoteWritten(q)' PROVE HasNote(q)'
  BY <1>1 DEF NoteInv, NoteWritten, HasNote, Others
<1>2. Unclashed'
  BY DEF NoteInv, Unclashed, WritesBack, Others
<1>3. ASSUME NEW i \in DOMAIN rows \ clashed', rows[i].noted, OwnNote(i)
      PROVE  \/ NoteOf[i] \in DOMAIN notes /\ notes[NoteOf[i]] = rows[i].body
             \/ \E q \in Caller : caller'[q].call = "rewrite" /\ caller'[q].id = i
                                  /\ caller'[q].at # "done"
  <2>1. CASE NoteOf[i] \in DOMAIN notes /\ notes[NoteOf[i]] = rows[i].body
    BY <2>1
  <2>2. ASSUME NEW q \in Caller, caller[q].call = "rewrite", caller[q].id = i,
               caller[q].at # "done"
        PROVE  caller'[q].call = "rewrite" /\ caller'[q].id = i /\ caller'[q].at # "done"
    BY <1>3, <2>2 DEF Others
  <2> QED
    BY <1>3, <2>1, <2>2 DEF NoteInv, NotesMatchRows
<1> QED
  BY <1>1, <1>2, <1>3 DEF NoteInv, NotesMatchRows

LEMMA NextNoteInv == CallInv /\ NoteInv /\ [Next]_vars => NoteInv'
<1> SUFFICES ASSUME CallInv, NoteInv, [Next]_vars PROVE NoteInv'
  OBVIOUS
<1>t. TypeOK
  BY DEF CallInv
<1>o. ASSUME NEW p \in Caller
      PROVE  PlaceOK(p) /\ (p \in DOMAIN rows => caller[p].call # "rewrite"
                                /\ caller[p].at \in {"mark", "done", "failed"})
  BY DEF CallInv, PlaceInv, RowsInv
<1>1. ASSUME NEW p \in Caller, StartWrite(p) PROVE NoteInv'
  <2>1. PICK long, noted \in BOOLEAN :
           /\ Others(p)
           /\ caller'[p].at = IF noted THEN "note" ELSE "begin"
           /\ caller'[p].then = "row" /\ caller'[p].call = "write"
           /\ Holds(p, caller[p].id, NewRow(p, long, FALSE, noted))
    BY <1>t, <1>1, StartWriteMoves
  <2>2. UNCHANGED <<rows, notes, clashed>> /\ caller[p].call = "write"
    BY <1>o, <1>1 DEF StartWrite, PlaceOK
  <2>3. caller'[p].row.noted = noted
    BY <2>1 DEF Holds, NewRow
  <2>4. ~NoteWritten(p)' /\ ~WritesBack(p)'
    BY <2>1, <2>3 DEF NoteWritten, WritesBack
  <2> QED
    BY <2>1, <2>2, <2>4, NoteInvKept
<1>2. ASSUME NEW p \in Caller, StartRead(p) PROVE NoteInv'
  <2>1. Others(p) /\ caller'[p].then = "read"
    BY <1>t, <1>2, StartReadMoves
  <2>2. UNCHANGED <<rows, notes, clashed>> /\ caller[p].call = "write"
    BY <1>o, <1>2 DEF StartRead, PlaceOK
  <2>3. ~NoteWritten(p)' /\ ~WritesBack(p)'
    BY <2>1 DEF NoteWritten, WritesBack
  <2> QED
    BY <2>1, <2>2, <2>3, NoteInvKept
<1>3. ASSUME NEW p \in Caller, NEW place \in {"create", "read", "row", "failed"},
             caller[p].at \in {"begin", "create"} \/ place = "failed",
             Goto(p, place), UNCHANGED <<rows, links, notes, clashed>>
      PROVE  NoteInv'
  <2>1. Moves(p, place)
    BY <1>t, <1>3, GotoMoves DEF Places, Over
  <2>2. NoteWritten(p)' => NoteWritten(p)
    BY <1>3, <2>1 DEF NoteWritten, Moves, Holds
  <2>3. NoteWritten(p)' => HasNote(p)'
    BY <1>3, <2>1, <2>2 DEF NoteInv, HasNote, Moves, Holds
  <2>4. WritesBack(p)' => WritesBack(p)
    BY <1>3, <2>1 DEF WritesBack, Moves
  <2>5. ASSUME NEW q \in Caller \ {p}, WritesBack(p)', WritesBack(q),
               caller'[p].id = caller[q].id
        PROVE  caller[q].id \in clashed'
    BY <1>3, <2>1, <2>4, <2>5 DEF NoteInv, Unclashed, Moves, Holds
  <2> QED
    BY <1>3, <2>1, <2>3, <2>5, NoteInvKept DEF Moves, Holds
<1>4. ASSUME NEW p \in Caller, Prepare(p) PROVE NoteInv'
  <2>1. caller[p].then \in {"read", "row"} /\ caller[p].at = "begin"
    BY <1>t, <1>o, <1>4 DEF TypeOK, PlaceOK, Prepare
  <2> QED
    BY <1>3, <1>4, <2>1 DEF Prepare
<1>5. ASSUME NEW p \in Caller, ApplyMigrations(p) PROVE NoteInv'
  <2>1. caller[p].then \in {"read", "row"} /\ caller[p].at = "create"
    BY <1>t, <1>o, <1>5 DEF TypeOK, PlaceOK, ApplyMigrations
  <2> QED
    BY <1>3, <1>5, <2>1 DEF ApplyMigrations
<1>6. ASSUME NEW p \in Caller, Stop(p) PROVE NoteInv'
  BY <1>3, <1>6 DEF Stop
<1>7. ASSUME NEW p \in Caller, Get(p) PROVE NoteInv'
  <2>1. /\ UNCHANGED <<schema, rows, links, notes>> /\ caller[p].at = "read"
        /\ caller[p].call = "rewrite"
    BY <1>7 DEF Get
  <2>2. CASE Moves(p, "done") /\ rows = <<>> /\ UNCHANGED clashed
    <3>1. ~NoteWritten(p)' /\ ~WritesBack(p)'
      BY <2>2 DEF NoteWritten, WritesBack, Moves
    <3>2. DOMAIN rows = {}
      BY <2>2
    <3> QED
      BY <2>1, <2>2, <3>1, <3>2, NoteInvKept DEF Moves
  <2>3. ASSUME NEW i \in DOMAIN rows, NEW long \in BOOLEAN, NEW noted \in BOOLEAN,
               /\ Others(p)
               /\ caller'[p].at = IF noted THEN "note" ELSE "begin"
               /\ caller'[p].then = "row" /\ caller'[p].call = caller[p].call
               /\ Holds(p, i, NewRow(p, long, rows[i].hidden, noted))
               /\ clashed' = IF rows[i].hidden \/ Rewriting(i) \union Compacting(i) # {}
                             THEN clashed \union {i} ELSE clashed
        PROVE  NoteInv'
    <3>0. rows[i].hidden \in BOOLEAN
      BY <1>t DEF TypeOK, Row
    <3>1. caller'[p].row.noted = noted /\ caller'[p].id = i
      BY <2>3, <3>0, NewRowFacts DEF Holds
    <3>2. ~NoteWritten(p)'
      BY <2>3, <3>1 DEF NoteWritten
    <3>3. ASSUME NEW q \in Caller \ {p}, WritesBack(q), caller[q].id = i
          PROVE  i \in clashed'
      <4>1. q \in Rewriting(i)
        BY <3>3, RewritingIs
      <4> QED
        BY <2>3, <4>1
    <3>4. caller[p].id \notin DOMAIN rows
      BY <1>o, <2>1 DEF PlaceOK
    <3> QED
      BY <2>1, <2>3, <3>1, <3>2, <3>3, <3>4, NoteInvKept
  <2> QED
    BY <1>t, <1>7, <2>2, <2>3, GetMoves
<1>8. ASSUME NEW p \in Caller, Query(p) PROVE NoteInv'
  <2>1. /\ UNCHANGED <<schema, rows, links, notes>> /\ caller[p].call = "compact"
        /\ caller[p].at = "read"
    BY <1>8 DEF Query
  <2>2. CASE Moves(p, "done") /\ UNCHANGED clashed
    <3>1. ~NoteWritten(p)' /\ ~WritesBack(p)'
      BY <2>2 DEF NoteWritten, WritesBack, Moves
    <3> QED
      BY <2>1, <2>2, <3>1, NoteInvKept DEF Moves
  <2>3. ASSUME NEW s \in SUBSET DOMAIN rows, NEW long \in BOOLEAN, Others(p),
               caller'[p].at = "note", caller'[p].call = "compact",
               clashed' = clashed \union {i \in s : Rewriting(i) # {}}
        PROVE  NoteInv'
    <3>1. ~NoteWritten(p)' /\ ~WritesBack(p)'
      BY <2>3 DEF NoteWritten, WritesBack
    <3> QED
      BY <2>1, <2>3, <3>1, NoteInvKept
  <2> QED
    BY <1>t, <1>8, <2>2, <2>3, QueryMoves
<1>9. ASSUME NEW p \in Caller, WriteNote(p) PROVE NoteInv'
  <2> DEFINE i == caller[p].id
  <2>1. PICK place \in {"begin", "failed"}, text \in {caller[p].row.body, NoBody} :
          /\ Goto(p, place) /\ notes' = Put(notes, NoteOf[i], text)
          /\ place = "begin" => text = caller[p].row.body
          /\ UNCHANGED <<schema, rows, links, clashed>> /\ caller[p].at = "note"
    BY <1>9 DEF WriteNote, Noted
  <2>2. Moves(p, place)
    BY <1>t, <2>1, GotoMoves DEF Places, Over
  <2>3. /\ DOMAIN notes' = DOMAIN notes \union {NoteOf[i]} /\ notes'[NoteOf[i]] = text
        /\ \A n \in DOMAIN notes : n # NoteOf[i] => notes'[n] = notes[n]
    BY <2>1 DEF Put
  <2>4. caller[p].then = "row"
    BY <1>o, <2>1 DEF PlaceOK
  <2>5. i \in Caller
    BY <1>t DEF TypeOK
  <2>6. IF caller[p].call = "rewrite" THEN i \in DOMAIN rows /\ WritesBack(p)
        ELSE i = p /\ i \notin DOMAIN rows
    BY <1>o, <2>1, <2>4 DEF PlaceOK, WritesBack
  <2>7. ASSUME NEW q \in Caller, NoteWritten(q)' PROVE HasNote(q)'
    <3>1. CASE q = p
      BY <2>1, <2>2, <2>3, <2>7, <3>1 DEF NoteWritten, HasNote, Moves, Holds
    <3>2. CASE q # p
      <4>1. caller'[q] = caller[q] /\ NoteWritten(q) /\ HasNote(q)
        BY <2>1, <2>2, <2>7, <3>2 DEF Moves, Others, NoteWritten, NoteInv
      <4>2. ASSUME caller[q].id = i PROVE FALSE
        <5>1. CASE caller[q].call = "rewrite"
          BY <1>o, <2>6, <3>2, <4>1, <4>2, <5>1
             DEF NoteInv, Unclashed, NoteWritten, WritesBack, PlaceOK
        <5>2. CASE caller[q].call # "rewrite"
          <6>1. i = q
            BY <1>o, <4>2, <5>2 DEF PlaceOK
          <6>2. caller[q].at \notin {"mark", "done", "failed"}
            BY <4>1 DEF NoteWritten
          <6> QED
            BY <1>o, <2>6, <3>2, <6>1, <6>2
        <5> QED
          BY <5>1, <5>2
      <4>3. NoteOf[caller[q].id] # NoteOf[i]
        BY <2>5, <4>1, <4>2 DEF NoteWritten, OwnNote
      <4> QED
        BY <2>3, <4>1, <4>3 DEF HasNote
    <3> QED
      BY <3>1, <3>2
  <2>8. Unclashed'
    <3>1. \A q \in Caller : WritesBack(q)' => WritesBack(q) /\ caller'[q].id = caller[q].id
      BY <2>1, <2>2 DEF WritesBack, Moves, Holds, Others
    <3> QED
      BY <2>1, <3>1 DEF NoteInv, Unclashed
  <2>9. NotesMatchRows'
    <3>1. ASSUME NEW j \in DOMAIN rows \ clashed, rows[j].noted, OwnNote(j)
          PROVE  \/ NoteOf[j] \in DOMAIN notes' /\ notes'[NoteOf[j]] = rows[j].body
                 \/ \E q \in Caller : caller'[q].call = "rewrite" /\ caller'[q].id = j
                                      /\ caller'[q].at # "done"
      <4>1. CASE j = i
        BY <2>1, <2>2, <2>6, <3>1, <4>1 DEF Moves, Holds
      <4>2. CASE j # i /\ NoteOf[j] \in DOMAIN notes /\ notes[NoteOf[j]] = rows[j].body
        <5>1. NoteOf[j] # NoteOf[i]
          BY <2>5, <3>1, <4>2 DEF OwnNote
        <5> QED
          BY <2>3, <4>2, <5>1
      <4>3. ASSUME NEW q \in Caller, caller[q].call = "rewrite", caller[q].id = j,
                   caller[q].at # "done"
            PROVE  caller'[q].call = "rewrite" /\ caller'[q].id = j
                     /\ caller'[q].at # "done"
        BY <2>1, <2>2, <4>3 DEF Moves, Holds, Others
      <4> QED
        BY <3>1, <4>1, <4>2, <4>3 DEF NoteInv, NotesMatchRows
    <3> QED
      BY <2>1, <3>1 DEF NotesMatchRows, OwnNote
  <2> QED
    BY <2>7, <2>8, <2>9 DEF NoteInv
<1>10. ASSUME NEW p \in Caller, InsertRow(p) PROVE NoteInv'
  <2> DEFINE i == caller[p].id
  <2>1. PICK place \in {"mark", "done"} :
          /\ Goto(p, place) /\ rows' = Put(rows, i, caller[p].row)
          /\ UNCHANGED <<schema, links, notes, clashed>> /\ caller[p].at = "row"
    BY <1>10 DEF InsertRow
  <2>2. Moves(p, place)
    BY <1>t, <2>1, GotoMoves DEF Places, Over
  <2>3. /\ DOMAIN rows' = DOMAIN rows \union {i} /\ rows'[i] = caller[p].row
        /\ \A j \in DOMAIN rows : j # i => rows'[j] = rows[j]
    BY <2>1 DEF Put
  <2>4. caller[p].then = "row"
    BY <1>o, <2>1 DEF PlaceOK
  <2>5. \A q \in Caller :
          /\ caller'[q].id = caller[q].id /\ caller'[q].row = caller[q].row
          /\ caller'[q].then = caller[q].then /\ caller'[q].call = caller[q].call
          /\ caller'[q].at # caller[q].at => caller'[q].at \in {"mark", "done"}
    BY <2>2 DEF Moves, Holds, Others
  <2>0. UNCHANGED <<notes, clashed>>
    BY <2>1
  <2>6. ASSUME NEW q \in Caller, NoteWritten(q)' PROVE HasNote(q)'
    <3>1. /\ caller'[q].id = caller[q].id /\ caller'[q].row = caller[q].row
          /\ caller'[q].then = caller[q].then /\ caller'[q].call = caller[q].call
      BY <2>5
    <3>2. caller'[q].at = caller[q].at
      BY <2>5, <2>6 DEF NoteWritten
    <3>3. NoteWritten(q)
      BY <2>0, <2>6, <3>1, <3>2 DEF NoteWritten
    <3>4. HasNote(q)
      BY <3>3 DEF NoteInv
    <3> QED
      BY <2>0, <3>1, <3>4 DEF HasNote
  <2>7. Unclashed'
    BY <2>0, <2>5 DEF NoteInv, Unclashed, WritesBack
  <2>8. NotesMatchRows'
    <3>1. ASSUME NEW j \in DOMAIN rows' \ clashed, rows'[j].noted, OwnNote(j)
          PROVE  \/ NoteOf[j] \in DOMAIN notes /\ notes[NoteOf[j]] = rows'[j].body
                 \/ \E q \in Caller : caller'[q].call = "rewrite" /\ caller'[q].id = j
                                      /\ caller'[q].at # "done"
      <4>1. CASE j = i
        <5>1. NoteWritten(p)
          BY <2>1, <2>3, <2>4, <3>1, <4>1 DEF NoteWritten
        <5> QED
          BY <2>3, <4>1, <5>1 DEF NoteInv, HasNote
      <4>2. CASE j # i
        <5>1. ASSUME NEW q \in Caller, caller[q].call = "rewrite", caller[q].id = j,
                     caller[q].at # "done"
              PROVE  caller'[q].call = "rewrite" /\ caller'[q].id = j
                       /\ caller'[q].at # "done"
          BY <2>2, <4>2, <5>1 DEF Moves, Holds, Others
        <5> QED
          BY <2>3, <3>1, <4>2, <5>1 DEF NoteInv, NotesMatchRows
      <4> QED
        BY <4>1, <4>2
    <3> QED
      BY <2>1, <3>1 DEF NotesMatchRows
  <2> QED
    BY <2>6, <2>7, <2>8 DEF NoteInv
<1>11. ASSUME NEW p \in Caller, MarkCompacted(p) PROVE NoteInv'
  <2>1. /\ Goto(p, "done") /\ UNCHANGED <<schema, notes, clashed>>
        /\ caller[p].at = "mark"
    BY <1>11 DEF MarkCompacted
  <2>2. Moves(p, "done")
    BY <1>t, <2>1, GotoMoves DEF Over
  <2>3. /\ DOMAIN rows' = DOMAIN rows
        /\ \A j \in DOMAIN rows : rows'[j].body = rows[j].body
                                 /\ rows'[j].noted = rows[j].noted
    BY <1>t, <1>11, MarkFacts
  <2>4. caller[p].call = "compact"
    BY <1>o, <2>1 DEF PlaceOK
  <2>5. \A q \in Caller :
          /\ caller'[q].id = caller[q].id /\ caller'[q].row = caller[q].row
          /\ caller'[q].then = caller[q].then /\ caller'[q].call = caller[q].call
          /\ caller'[q].at # caller[q].at => caller'[q].at \in {"mark", "done"}
    BY <2>2 DEF Moves, Holds, Others
  <2>0. UNCHANGED <<notes, clashed>>
    BY <2>1
  <2>6. ASSUME NEW q \in Caller, NoteWritten(q)' PROVE HasNote(q)'
    <3>1. /\ caller'[q].id = caller[q].id /\ caller'[q].row = caller[q].row
          /\ caller'[q].then = caller[q].then /\ caller'[q].call = caller[q].call
      BY <2>5
    <3>2. caller'[q].at = caller[q].at
      BY <2>5, <2>6 DEF NoteWritten
    <3>3. NoteWritten(q)
      BY <2>0, <2>6, <3>1, <3>2 DEF NoteWritten
    <3>4. HasNote(q)
      BY <3>3 DEF NoteInv
    <3> QED
      BY <2>0, <3>1, <3>4 DEF HasNote
  <2>7. Unclashed'
    BY <2>0, <2>5 DEF NoteInv, Unclashed, WritesBack
  <2>8. NotesMatchRows'
    <3>1. \A q \in Caller : caller[q].call = "rewrite" => caller'[q] = caller[q]
      BY <2>2, <2>4 DEF Moves, Others
    <3>2. ASSUME NEW j \in DOMAIN rows \ clashed, rows'[j].noted, OwnNote(j)
          PROVE  \/ NoteOf[j] \in DOMAIN notes /\ notes[NoteOf[j]] = rows'[j].body
                 \/ \E q \in Caller : caller'[q].call = "rewrite" /\ caller'[q].id = j
                                      /\ caller'[q].at # "done"
      <4>1. rows[j].noted /\ rows'[j].body = rows[j].body
        BY <2>3, <3>2
      <4> QED
        BY <3>1, <3>2, <4>1 DEF NoteInv, NotesMatchRows
    <3> QED
      BY <2>0, <2>3, <3>2 DEF NotesMatchRows
  <2> QED
    BY <2>6, <2>7, <2>8 DEF NoteInv
<1>12. CASE UNCHANGED vars
  BY <1>12 DEF vars, NoteInv, NoteWritten, HasNote, Unclashed, WritesBack, NotesMatchRows
<1> QED
  BY <1>1, <1>2, <1>4, <1>5, <1>6, <1>7, <1>8, <1>9, <1>10, <1>11, <1>12
     DEF Next, Step, AllOver

(* A row that has the path of a note has that note with its own body, but  *)
(* for rewrites that stopped or clashed: the note is written before the    *)
(* row, and nobody else writes it in between (store.py:88-135).            *)
THEOREM NoteForEveryRow == Spec => []NotesMatchRows
<1>1. NoteInv => NotesMatchRows
  BY DEF NoteInv
<1> QED
  BY InitCallInv, NextCallInv, InitNoteInv, NextNoteInv, <1>1, PTL DEF Spec

-----------------------------------------------------------------------------
(* Compaction.  What a summary tells of a source is what the source says:  *)
(* from the query on, or whoever rewrites the source has clashed with it.  *)
Live(p) == caller[p].at \notin Over
Tells(p) == caller[p].row.body.tells

Told(i) ==
  \E s \in DOMAIN rows :
    /\ <<s, i>> \in links
    /\ rows[s].body.by # s \/ <<i, ExcerptOf(rows[i].body)>> \in rows[s].body.tells

(* Only a call that has clashed writes a hidden row back.                  *)
HiddenHeld ==
  \A p \in Caller :
    caller[p].row.hidden =>
      caller[p].call = "rewrite" /\ caller[p].then = "row" /\ caller[p].id \in clashed

SourcesTold ==
  \A p \in Caller : Live(p) =>
    \A t \in Tells(p) : /\ t[1] \in DOMAIN rows
                        /\ t[1] \notin clashed => ExcerptOf(rows[t[1]].body) = t[2]

SourcesApart ==
  \A p, q \in Caller : Live(p) /\ WritesBack(q) =>
    \A t \in Tells(p) : t[1] = caller[q].id => t[1] \in clashed

SummaryThere ==
  \A p \in Caller : caller[p].at = "mark" =>
    /\ p \in DOMAIN rows
    /\ rows[p].body.by = p => rows[p].body = caller[p].row.body

HiddenTold == \A i \in DOMAIN rows \ clashed : rows[i].hidden => Told(i)

TellInv == HiddenHeld /\ SourcesTold /\ SourcesApart /\ SummaryThere /\ HiddenTold

LEMMA InitTellInv == Init => TellInv
  BY DEF Init, TellInv, NewRow, Tells, Told, HiddenHeld, SourcesTold, SourcesApart,
         SummaryThere, HiddenTold

LEMMA CompactingIs ==
  ASSUME NEW i, NEW p \in Caller, NEW t \in Tells(p), Live(p), t[1] = i
  PROVE  p \in Compacting(i)
  BY DEF Compacting, Sources, Tells, Live

(* Steps that leave the database alone.                                    *)
LEMMA TellInvKept ==
  ASSUME TellInv, NEW p \in Caller, Others(p), UNCHANGED <<rows, links>>,
         clashed \subseteq clashed',
         caller'[p].at # "mark",
         caller'[p].row.hidden => /\ caller'[p].call = "rewrite" /\ caller'[p].then = "row"
                                  /\ caller'[p].id \in clashed',
         Live(p)' => \A t \in Tells(p)' :
                       /\ t[1] \in DOMAIN rows
                       /\ t[1] \notin clashed' => ExcerptOf(rows[t[1]].body) = t[2],
         Live(p)' => \A q \in Caller \ {p} : WritesBack(q) =>
                       \A t \in Tells(p)' : t[1] = caller[q].id => t[1] \in clashed',
         WritesBack(p)' => \A q \in Caller : Live(q) =>
                       \A t \in Tells(q) : t[1] = caller'[p].id => t[1] \in clashed',
         WritesBack(p)' => Live(p) /\ Tells(p)' \subseteq Tells(p)
  PROVE  TellInv'
<1>1. HiddenHeld'
  BY DEF TellInv, HiddenHeld, Others
<1>2. SourcesTold'
  BY DEF TellInv, SourcesTold, Live, Tells, Others
<1>3. SourcesApart'
  <2> SUFFICES ASSUME NEW q \in Caller, NEW r \in Caller, Live(q)', WritesBack(r)',
                      NEW t \in Tells(q)', t[1] = caller'[r].id
               PROVE  t[1] \in clashed'
    BY DEF SourcesApart
  <2>1. CASE q # p /\ r # p
    BY <2>1 DEF TellInv, SourcesApart, Live, WritesBack, Tells, Others
  <2>2. CASE q = p /\ r # p
    BY <2>2 DEF Live, WritesBack, Tells, Others
  <2>3. CASE q # p /\ r = p
    BY <2>3 DEF Live, WritesBack, Tells, Others
  <2>4. CASE q = p /\ r = p
    BY <2>4 DEF Live, WritesBack, Tells, Others
  <2> QED
    BY <2>1, <2>2, <2>3, <2>4
<1>4. SummaryThere'
  BY DEF TellInv, SummaryThere, Others
<1>5. HiddenTold'
  BY DEF TellInv, HiddenTold, Told
<1> QED
  BY <1>1, <1>2, <1>3, <1>4, <1>5 DEF TellInv

(* Steps that find nothing new either.                                     *)
LEMMA TellInvCalm ==
  ASSUME TellInv, NEW p \in Caller, Others(p), UNCHANGED <<rows, links, clashed>>,
         caller'[p].at # "mark", Live(p)' => Live(p),
         Tells(p)' \subseteq Tells(p),
         caller'[p].row.hidden => caller[p].row.hidden,
         caller[p].row.hidden => /\ caller'[p].call = caller[p].call
                                 /\ caller'[p].then = caller[p].then
                                 /\ caller'[p].id = caller[p].id,
         WritesBack(p)' => WritesBack(p) /\ caller'[p].id = caller[p].id
  PROVE  TellInv'
<1>1. Tells(p)' \subseteq Tells(p)
  OBVIOUS
<1>2. caller'[p].row.hidden => /\ caller'[p].call = "rewrite" /\ caller'[p].then = "row"
                               /\ caller'[p].id \in clashed'
  BY DEF TellInv, HiddenHeld
<1>3. WritesBack(p) => Live(p)
  BY DEF WritesBack, Live, Over
<1>4. Live(p)' => \A t \in Tells(p)' :
                    /\ t[1] \in DOMAIN rows
                    /\ t[1] \notin clashed' => ExcerptOf(rows[t[1]].body) = t[2]
  BY <1>1 DEF TellInv, SourcesTold
<1>5. Live(p)' => \A q \in Caller \ {p} : WritesBack(q) =>
                    \A t \in Tells(p)' : t[1] = caller[q].id => t[1] \in clashed'
  BY <1>1 DEF TellInv, SourcesApart
<1>6. WritesBack(p)' => \A q \in Caller : Live(q) =>
                    \A t \in Tells(q) : t[1] = caller'[p].id => t[1] \in clashed'
  BY DEF TellInv, SourcesApart
<1> QED
  BY <1>1, <1>2, <1>3, <1>4, <1>5, <1>6, TellInvKept

LEMMA NextTellInv == CallInv /\ TellInv /\ [Next]_vars => TellInv'
<1> SUFFICES ASSUME CallInv, TellInv, [Next]_vars PROVE TellInv'
  OBVIOUS
<1>t. TypeOK
  BY DEF CallInv
<1>o. ASSUME NEW p \in Caller
      PROVE  PlaceOK(p) /\ (p \in DOMAIN rows => caller[p].call # "rewrite"
                                /\ caller[p].at \in {"mark", "done", "failed"})
  BY DEF CallInv, PlaceInv, RowsInv
<1>1. ASSUME NEW p \in Caller, StartWrite(p) PROVE TellInv'
  <2>1. PICK long, noted \in BOOLEAN :
           /\ Others(p)
           /\ caller'[p].at = IF noted THEN "note" ELSE "begin"
           /\ caller'[p].then = "row" /\ caller'[p].call = "write"
           /\ Holds(p, caller[p].id, NewRow(p, long, FALSE, noted))
    BY <1>t, <1>1, StartWriteMoves
  <2>2. UNCHANGED <<rows, links, clashed>> /\ caller[p].at = "idle"
    BY <1>1 DEF StartWrite
  <2>3. ~caller[p].row.hidden
    BY <1>o, <2>2 DEF TellInv, HiddenHeld, PlaceOK
  <2>4. Tells(p)' = {}
    BY <2>1 DEF Holds, NewRow, Tells
  <2>5. ~caller'[p].row.hidden
    BY <2>1 DEF Holds, NewRow
  <2>6. ~WritesBack(p)' /\ Live(p)
    BY <2>1, <2>2 DEF WritesBack, Live, Over
  <2> QED
    BY <2>1, <2>2, <2>3, <2>4, <2>5, <2>6, TellInvCalm
<1>2. ASSUME NEW p \in Caller, StartRead(p) PROVE TellInv'
  <2>1. Others(p) /\ caller'[p].at = "begin" /\ caller'[p].then = "read"
        /\ Holds(p, caller[p].id, caller[p].row)
    BY <1>t, <1>2, StartReadMoves
  <2>2. UNCHANGED <<rows, links, clashed>> /\ caller[p].at = "idle"
    BY <1>2 DEF StartRead
  <2>3. ~caller[p].row.hidden
    BY <1>o, <2>2 DEF TellInv, HiddenHeld, PlaceOK
  <2>4. ~WritesBack(p)' /\ Live(p)
    BY <2>1, <2>2 DEF WritesBack, Live, Over
  <2> QED
    BY <2>1, <2>2, <2>3, <2>4, TellInvCalm DEF Holds, Tells
<1>3. ASSUME NEW p \in Caller, NEW place \in {"begin", "create", "read", "row", "failed"},
             caller[p].at \in {"note", "begin", "create"} \/ place = "failed",
             Goto(p, place), UNCHANGED <<rows, links, clashed>>
      PROVE  TellInv'
  <2>1. Moves(p, place)
    BY <1>t, <1>3, GotoMoves DEF Places, Over
  <2>2. WritesBack(p)' => WritesBack(p)
    BY <1>3, <2>1 DEF WritesBack, Moves
  <2>3. Live(p)' => Live(p)
    BY <1>3, <2>1 DEF Live, Over, Moves
  <2> QED
    BY <1>3, <2>1, <2>2, <2>3, TellInvCalm DEF Moves, Holds, Tells
<1>4. ASSUME NEW p \in Caller, Prepare(p) PROVE TellInv'
  <2>1. caller[p].then \in {"read", "row"} /\ caller[p].at = "begin"
    BY <1>t, <1>o, <1>4 DEF TypeOK, PlaceOK, Prepare
  <2> QED
    BY <1>3, <1>4, <2>1 DEF Prepare
<1>5. ASSUME NEW p \in Caller, ApplyMigrations(p) PROVE TellInv'
  <2>1. caller[p].then \in {"read", "row"} /\ caller[p].at = "create"
    BY <1>t, <1>o, <1>5 DEF TypeOK, PlaceOK, ApplyMigrations
  <2> QED
    BY <1>3, <1>5, <2>1 DEF ApplyMigrations
<1>6. ASSUME NEW p \in Caller, Stop(p) PROVE TellInv'
  BY <1>3, <1>6 DEF Stop
<1>7. ASSUME NEW p \in Caller, WriteNote(p) PROVE TellInv'
  BY <1>3, <1>7 DEF WriteNote
<1>8. ASSUME NEW p \in Caller, Get(p) PROVE TellInv'
  <2>1. /\ UNCHANGED <<rows, links>> /\ caller[p].at = "read"
        /\ caller[p].call = "rewrite"
    BY <1>8 DEF Get
  <2>2. ~caller[p].row.hidden
    BY <1>o, <2>1 DEF TellInv, HiddenHeld, PlaceOK
  <2>3. CASE Moves(p, "done") /\ UNCHANGED clashed
    <3>1. ~WritesBack(p)' /\ Live(p)
      BY <2>1, <2>3 DEF WritesBack, Live, Over, Moves
    <3> QED
      BY <2>1, <2>2, <2>3, <3>1, TellInvCalm DEF Moves, Holds, Tells
  <2>4. ASSUME NEW i \in DOMAIN rows, NEW long \in BOOLEAN, NEW noted \in BOOLEAN,
               /\ Others(p)
               /\ caller'[p].at = IF noted THEN "note" ELSE "begin"
               /\ caller'[p].then = "row" /\ caller'[p].call = caller[p].call
               /\ Holds(p, i, NewRow(p, long, rows[i].hidden, noted))
               /\ clashed' = IF rows[i].hidden \/ Rewriting(i) \union Compacting(i) # {}
                             THEN clashed \union {i} ELSE clashed
        PROVE  TellInv'
    <3>1. rows[i].hidden \in BOOLEAN /\ caller[p].row \in Row
      BY <1>t DEF TypeOK, Row
    <3>2. /\ caller'[p].row.hidden = rows[i].hidden
          /\ Tells(p)' = {} /\ caller'[p].id = i
      BY <2>4, <3>1, NewRowFacts DEF Holds, Tells
    <3>3. clashed \subseteq clashed' /\ (rows[i].hidden => i \in clashed')
      BY <2>4
    <3>4. Live(p) /\ Tells(p)' \subseteq Tells(p)
      BY <2>1, <3>2 DEF Live, Over
    <3>5. ASSUME NEW q \in Caller, Live(q), NEW t \in Tells(q), t[1] = i
          PROVE  i \in clashed'
      BY <2>4, <3>5, CompactingIs
    <3>6. Live(p)' => \A t \in Tells(p)' :
                        /\ t[1] \in DOMAIN rows
                        /\ t[1] \notin clashed' => ExcerptOf(rows[t[1]].body) = t[2]
      BY <3>3, <3>4 DEF TellInv, SourcesTold
    <3>7. Live(p)' => \A q \in Caller \ {p} : WritesBack(q) =>
                        \A t \in Tells(p)' : t[1] = caller[q].id => t[1] \in clashed'
      BY <3>3, <3>4 DEF TellInv, SourcesApart
    <3>8. caller'[p].row.hidden => /\ caller'[p].call = "rewrite"
                                   /\ caller'[p].then = "row"
                                   /\ caller'[p].id \in clashed'
      BY <2>1, <2>4, <3>2, <3>3
    <3> QED
      BY <2>1, <2>4, <3>2, <3>3, <3>4, <3>5, <3>6, <3>7, <3>8, TellInvKept
  <2> QED
    BY <1>t, <1>8, <2>3, <2>4, GetMoves
<1>9. ASSUME NEW p \in Caller, Query(p) PROVE TellInv'
  <2>1. /\ UNCHANGED <<rows, links>> /\ caller[p].at = "read"
        /\ caller[p].call = "compact"
    BY <1>9 DEF Query
  <2>2. ~caller[p].row.hidden
    BY <2>1 DEF TellInv, HiddenHeld
  <2>3. CASE Moves(p, "done") /\ UNCHANGED clashed
    <3>1. ~WritesBack(p)' /\ Live(p)
      BY <2>1, <2>3 DEF WritesBack, Live, Over, Moves
    <3> QED
      BY <2>1, <2>2, <2>3, <3>1, TellInvCalm DEF Moves, Holds, Tells
  <2>4. ASSUME NEW s \in SUBSET DOMAIN rows, NEW long \in BOOLEAN, Others(p),
               caller'[p].at = "note", caller'[p].call = "compact",
               Holds(p, caller[p].id, Summary(p, s, long)),
               clashed' = clashed \union {i \in s : Rewriting(i) # {}}
        PROVE  TellInv'
    <3>1. ~caller'[p].row.hidden /\ Tells(p)' = {<<i, ExcerptOf(rows[i].body)>> : i \in s}
      BY <2>4 DEF Holds, Summary, Tells
    <3>2. \A t \in Tells(p)' : t[1] \in s /\ ExcerptOf(rows[t[1]].body) = t[2]
      BY <3>1
    <3>3. ASSUME NEW q \in Caller, WritesBack(q), caller[q].id \in s
          PROVE  caller[q].id \in clashed'
      BY <2>4, <3>3, RewritingIs
    <3>4. ~WritesBack(p)'
      BY <2>4 DEF WritesBack
    <3> QED
      BY <2>1, <2>4, <3>1, <3>2, <3>3, <3>4, TellInvKept
  <2> QED
    BY <1>t, <1>9, <2>3, <2>4, QueryMoves
<1>10. ASSUME NEW p \in Caller, InsertRow(p) PROVE TellInv'
  <2> DEFINE i == caller[p].id
  <2>1. PICK place \in {"mark", "done"} :
          /\ Goto(p, place) /\ rows' = Put(rows, i, caller[p].row)
          /\ place = "mark" => caller[p].call = "compact"
          /\ UNCHANGED <<schema, links, notes, clashed>> /\ caller[p].at = "row"
    BY <1>10 DEF InsertRow
  <2>2. Moves(p, place)
    BY <1>t, <2>1, GotoMoves DEF Places, Over
  <2>3. /\ DOMAIN rows' = DOMAIN rows \union {i} /\ rows'[i] = caller[p].row
        /\ \A j \in DOMAIN rows : j # i => rows'[j] = rows[j]
    BY <2>1 DEF Put
  <2>4. UNCHANGED <<links, clashed>>
    BY <2>1
  <2>5. \A q \in Caller :
          /\ caller'[q].id = caller[q].id /\ caller'[q].row = caller[q].row
          /\ caller'[q].then = caller[q].then /\ caller'[q].call = caller[q].call
          /\ caller'[q].at # caller[q].at => q = p /\ caller'[q].at \in {"mark", "done"}
    BY <2>2 DEF Moves, Holds, Others
  <2>6. i \in DOMAIN rows => WritesBack(p) /\ p \notin DOMAIN rows
    BY <1>o, <2>1 DEF PlaceOK, WritesBack
  <2>7. i \notin DOMAIN rows => i = p
    BY <1>o, <2>1 DEF PlaceOK
  <2>8. caller[p].row.body.by = p /\ Live(p)
    BY <1>o, <2>1 DEF PlaceOK, Live, Over
  <2>9. ASSUME NEW q \in Caller, Live(q)' PROVE Live(q)
    BY <2>5, <2>8, <2>9 DEF Live
  <2>10. HiddenHeld'
    BY <2>4, <2>5 DEF TellInv, HiddenHeld
  <2>11. SourcesTold'
    <3> SUFFICES ASSUME NEW q \in Caller, Live(q)', NEW t \in Tells(q)'
                 PROVE  /\ t[1] \in DOMAIN rows'
                        /\ t[1] \notin clashed' => ExcerptOf(rows'[t[1]].body) = t[2]
      BY DEF SourcesTold
    <3>1. t \in Tells(q) /\ Live(q)
      BY <2>5, <2>9 DEF Tells
    <3>2. t[1] \in DOMAIN rows /\ (t[1] \notin clashed => ExcerptOf(rows[t[1]].body) = t[2])
      BY <3>1 DEF TellInv, SourcesTold
    <3>3. t[1] = i => t[1] \in clashed
      BY <2>6, <3>1, <3>2 DEF TellInv, SourcesApart
    <3> QED
      BY <2>3, <2>4, <3>2, <3>3
  <2>12. SourcesApart'
    <3> SUFFICES ASSUME NEW q \in Caller, NEW r \in Caller, Live(q)', WritesBack(r)',
                        NEW t \in Tells(q)', t[1] = caller'[r].id
                 PROVE  t[1] \in clashed'
      BY DEF SourcesApart
    <3>1. t \in Tells(q) /\ Live(q) /\ t[1] = caller[r].id
      BY <2>5, <2>9 DEF Tells
    <3>2. WritesBack(r)
      BY <2>5 DEF WritesBack
    <3> QED
      BY <2>4, <3>1, <3>2 DEF TellInv, SourcesApart
  <2>13. SummaryThere'
    <3> SUFFICES ASSUME NEW q \in Caller, caller'[q].at = "mark"
                 PROVE  /\ q \in DOMAIN rows'
                        /\ rows'[q].body.by = q => rows'[q].body = caller'[q].row.body
      BY DEF SummaryThere
    <3>1. CASE q = p
      <4>1. i = p
        BY <1>o, <2>1, <2>2, <3>1 DEF PlaceOK, Moves
      <4> QED
        BY <2>3, <2>5, <3>1, <4>1
    <3>2. CASE q # p
      <4>1. /\ q \in DOMAIN rows
            /\ rows[q].body.by = q => rows[q].body = caller[q].row.body
        BY <2>5, <3>2 DEF TellInv, SummaryThere
      <4> QED
        BY <2>3, <2>5, <2>8, <3>2, <4>1
    <3> QED
      BY <3>1, <3>2
  <2>14. HiddenTold'
    <3> SUFFICES ASSUME NEW j \in DOMAIN rows' \ clashed, rows'[j].hidden
                 PROVE  \E s \in DOMAIN rows' :
                          /\ <<s, j>> \in links
                          /\ rows'[s].body.by # s
                             \/ <<j, ExcerptOf(rows'[j].body)>> \in rows'[s].body.tells
      BY <2>4 DEF HiddenTold, Told
    <3>1. j # i
      BY <2>3 DEF TellInv, HiddenHeld
    <3>2. j \in DOMAIN rows \ clashed /\ rows'[j] = rows[j]
      BY <2>3, <3>1
    <3>3. PICK s \in DOMAIN rows :
            /\ <<s, j>> \in links
            /\ rows[s].body.by # s \/ <<j, ExcerptOf(rows[j].body)>> \in rows[s].body.tells
      BY <3>2 DEF TellInv, HiddenTold, Told
    <3>4. s = i => rows'[s].body.by # s
      BY <2>3, <2>6, <2>8
    <3> QED
      BY <2>3, <3>2, <3>3, <3>4
  <2> QED
    BY <2>10, <2>11, <2>12, <2>13, <2>14 DEF TellInv
<1>11. ASSUME NEW p \in Caller, MarkCompacted(p) PROVE TellInv'
  <2>1. /\ Goto(p, "done") /\ links' = links \union {<<p, i>> : i \in Sources(p)}
        /\ caller[p].at = "mark"
    BY <1>11 DEF MarkCompacted, Marked
  <2>2. Moves(p, "done") /\ UNCHANGED clashed
    BY <1>t, <1>11, <2>1, GotoMoves DEF MarkCompacted, Over
  <2>3. /\ DOMAIN rows' = DOMAIN rows
        /\ \A j \in DOMAIN rows :
             /\ rows'[j].body = rows[j].body
             /\ j \notin Sources(p) => rows'[j].hidden = rows[j].hidden
    BY <1>t, <1>11, MarkFacts
  <2>4. \A q \in Caller :
          /\ caller'[q].id = caller[q].id /\ caller'[q].row = caller[q].row
          /\ caller'[q].then = caller[q].then /\ caller'[q].call = caller[q].call
          /\ caller'[q].at # caller[q].at => q = p /\ caller'[q].at = "done"
    BY <2>2 DEF Moves, Holds, Others
  <2>5. Live(p)
    BY <2>1 DEF Live, Over
  <2>6. ASSUME NEW q \in Caller, Live(q)' PROVE Live(q)
    BY <2>4, <2>5, <2>6 DEF Live
  <2>7. HiddenHeld'
    BY <2>2, <2>4 DEF TellInv, HiddenHeld
  <2>8. SourcesTold'
    <3> SUFFICES ASSUME NEW q \in Caller, Live(q)', NEW t \in Tells(q)'
                 PROVE  /\ t[1] \in DOMAIN rows'
                        /\ t[1] \notin clashed' => ExcerptOf(rows'[t[1]].body) = t[2]
      BY DEF SourcesTold
    <3>1. t \in Tells(q) /\ Live(q)
      BY <2>4, <2>6 DEF Tells
    <3> QED
      BY <2>2, <2>3, <3>1 DEF TellInv, SourcesTold
  <2>9. SourcesApart'
    <3> SUFFICES ASSUME NEW q \in Caller, NEW r \in Caller, Live(q)', WritesBack(r)',
                        NEW t \in Tells(q)', t[1] = caller'[r].id
                 PROVE  t[1] \in clashed'
      BY DEF SourcesApart
    <3>1. t \in Tells(q) /\ Live(q) /\ t[1] = caller[r].id
      BY <2>4, <2>6 DEF Tells
    <3>2. WritesBack(r)
      BY <2>4 DEF WritesBack
    <3> QED
      BY <2>2, <3>1, <3>2 DEF TellInv, SourcesApart
  <2>10. SummaryThere'
    BY <2>3, <2>4 DEF TellInv, SummaryThere
  <2>11. HiddenTold'
    <3> SUFFICES ASSUME NEW j \in DOMAIN rows \ clashed, rows'[j].hidden
                 PROVE  \E s \in DOMAIN rows :
                          /\ <<s, j>> \in links'
                          /\ rows[s].body.by # s
                             \/ <<j, ExcerptOf(rows[j].body)>> \in rows[s].body.tells
      BY <2>2, <2>3 DEF HiddenTold, Told
    <3>1. CASE j \notin Sources(p)
      <4>1. PICK s \in DOMAIN rows :
              /\ <<s, j>> \in links
              /\ rows[s].body.by # s \/ <<j, ExcerptOf(rows[j].body)>> \in rows[s].body.tells
        BY <2>3, <3>1 DEF TellInv, HiddenTold, Told
      <4> QED
        BY <2>1, <4>1
    <3>2. CASE j \in Sources(p)
      <4>1. PICK t \in Tells(p) : t[1] = j
        BY <3>2 DEF Sources, Tells
      <4>2. ExcerptOf(rows[j].body) = t[2]
        BY <2>5, <4>1 DEF TellInv, SourcesTold
      <4>3. t = <<j, ExcerptOf(rows[j].body)>>
        BY <1>t, <4>1, <4>2 DEF TypeOK, Tells, Row, Body
      <4>4. /\ p \in DOMAIN rows
            /\ rows[p].body.by = p => <<j, ExcerptOf(rows[j].body)>> \in rows[p].body.tells
        BY <2>1, <4>3 DEF TellInv, SummaryThere, Tells
      <4>5. <<p, j>> \in links'
        BY <2>1, <3>2
      <4> QED
        BY <4>4, <4>5
    <3> QED
      BY <3>1, <3>2
  <2> QED
    BY <2>7, <2>8, <2>9, <2>10, <2>11 DEF TellInv
<1>12. CASE UNCHANGED vars
  BY <1>12 DEF vars, TellInv, HiddenHeld, SourcesTold, SourcesApart, SummaryThere,
               HiddenTold, Told, Live, Tells, WritesBack
<1> QED
  BY <1>1, <1>2, <1>4, <1>5, <1>6, <1>7, <1>8, <1>9, <1>10, <1>11, <1>12
     DEF Next, Step, AllOver

(* A record that compaction hides is told by a committed summary it is     *)
(* linked to, but for records that were rewritten at the same time         *)
(* (store.py:164-196).                                                     *)
THEOREM NothingHiddenUntold == Spec => []HiddenIsTold
<1>1. TellInv => HiddenIsTold
  <2> SUFFICES ASSUME TellInv, NEW i \in DOMAIN rows \ clashed, rows[i].hidden
               PROVE  \E s \in DOMAIN rows :
                        /\ <<s, i>> \in links
                        /\ \/ rows[s].body.by # s
                           \/ \E t \in rows[s].body.tells :
                                /\ t[1] = i /\ t[2].by = rows[i].body.by
                                /\ t[2].whole \/ rows[i].body.long
    BY DEF HiddenIsTold
  <2>1. PICK s \in DOMAIN rows :
          /\ <<s, i>> \in links
          /\ rows[s].body.by # s \/ <<i, ExcerptOf(rows[i].body)>> \in rows[s].body.tells
    BY DEF TellInv, HiddenTold, Told
  <2> DEFINE t == <<i, ExcerptOf(rows[i].body)>>
  <2>2. t[1] = i /\ t[2].by = rows[i].body.by /\ (t[2].whole <=> ~rows[i].body.long)
    BY DEF ExcerptOf
  <2> QED
    BY <2>1, <2>2
<1> QED
  BY InitCallInv, NextCallInv, InitTellInv, NextTellInv, <1>1, PTL DEF Spec

=============================================================================
