----------------------------- MODULE CallProofs -----------------------------
(***************************************************************************)
(* Proofs about the commands that wait for other programs (ChildCalls),    *)
(* for any set of tools and repositories and any number of children of     *)
(* answered calls:                                                         *)
(*   CallTypes         TypeOK;                                             *)
(*   CallsAttended     NoCallUnattended;                                   *)
(*   AnswersInTime     OkOnlyInTime;                                       *)
(*   ChecksInTurn      ChecksOneAtATime;                                   *)
(*   DoneIsDone        DoneLeavesNothing;                                  *)
(*   ChecksReported    EveryCheckReported;                                 *)
(*   RoutingIsComplete RoutingLeavesOutNone;                               *)
(*   ClaudeFirst       ClaudeCoordinates.                                  *)
(* Of the constants only CallsAssumption is used: tools are not agents.    *)
(***************************************************************************)
EXTENDS CallSafety, FiniteSetTheorems, WellFoundedInduction, TLAPS

Steps == {"start", "probe", "version", "next", "check", "locate", "done", "thrown"}
CallSteps == {"probe", "version", "check", "locate"}
Answers == {"none", "pending", "ok", "bad", "rejected"}
LaneRec == [at : Nat \ {0}, step : Steps, answer : Answers]

-----------------------------------------------------------------------------
(* Lanes.  Whoever has found an item looks at one of the catalog.          *)

LaneInv ==
  /\ lane \in [Lanes -> LaneRec]
  /\ \A l \in Lanes : lane[l].answer = "pending" => lane[l].step \in CallSteps
  /\ program = "agents" => todo = Catalog
  /\ lane["main"].step \in {"probe", "version"} =>
       program = "agents" /\ lane["main"].at \in 1 .. Len(todo)
  /\ lane["main"].step # "locate"

(* What a step does to one lane.                                           *)
Becomes(l, at, step, answer) ==
  /\ lane' \in [Lanes -> LaneRec]
  /\ lane'[l].at = at /\ lane'[l].step = step /\ lane'[l].answer = answer
  /\ \A k \in Lanes \ {l} : lane'[k] = lane[k]

LEMMA ItemInCatalog ==
  ASSUME NEW i \in 1 .. Len(Catalog) PROVE Catalog[i] \in AgentId
  BY DEF Catalog, AgentId

LEMMA LanesApart == "main" \in Lanes /\ "main" \notin Tools /\ Tools \subseteq Lanes
  BY CallsAssumption DEF Lanes

LEMMA GotoLane ==
  ASSUME LaneInv, NEW l \in Lanes, NEW s \in Steps, Goto(l, s)
  PROVE  Becomes(l, lane[l].at, s, "none")
<1> DEFINE new == [lane[l] EXCEPT !.step = s, !.answer = "none"]
<1>1. lane \in [Lanes -> LaneRec] /\ lane[l] \in LaneRec
  BY DEF LaneInv
<1>2. new \in LaneRec /\ lane' = [lane EXCEPT ![l] = new]
  BY <1>1 DEF Goto, LaneRec, Answers
<1>3. new.at = lane[l].at /\ new.step = s /\ new.answer = "none"
  BY <1>1 DEF LaneRec
<1> QED
  BY <1>1, <1>2, <1>3 DEF Becomes

LEMMA NextItemLane ==
  ASSUME LaneInv, NEW s \in Steps,
         lane' = [lane EXCEPT !["main"] = [at |-> @.at + 1, step |-> s,
                                           answer |-> "none"]]
  PROVE  Becomes("main", lane["main"].at + 1, s, "none")
<1> DEFINE new == [at |-> lane["main"].at + 1, step |-> s, answer |-> "none"]
<1>1. lane \in [Lanes -> LaneRec] /\ lane["main"] \in LaneRec
  BY LanesApart DEF LaneInv
<1>2. new \in LaneRec /\ lane' = [lane EXCEPT !["main"] = new]
  BY <1>1 DEF LaneRec, Answers
<1> QED
  BY <1>1, <1>2, LanesApart DEF Becomes

LEMMA AnswerLane ==
  ASSUME LaneInv, NEW c, LaneOf(c) \in Lanes, NEW a \in Answers, Answer(c, a)
  PROVE  IF Pending(c)
         THEN Becomes(LaneOf(c), lane[LaneOf(c)].at, lane[LaneOf(c)].step, a)
         ELSE UNCHANGED lane
<1> DEFINE l == LaneOf(c)
           new == [lane[l] EXCEPT !.answer = a]
<1>1. lane \in [Lanes -> LaneRec] /\ lane[l] \in LaneRec
  BY DEF LaneInv
<1>2. CASE Pending(c)
  <2>1. new \in LaneRec /\ lane' = [lane EXCEPT ![l] = new]
    BY <1>1, <1>2 DEF Answer, LaneRec
  <2>2. new.at = lane[l].at /\ new.step = lane[l].step /\ new.answer = a
    BY <1>1 DEF LaneRec
  <2> QED
    BY <1>1, <1>2, <2>1, <2>2 DEF Becomes
<1>3. CASE ~Pending(c)
  BY <1>3 DEF Answer
<1> QED
  BY <1>2, <1>3

(* A call that starts is the one its lane waits for; it has a new child.   *)
LEMMA SpawnLane ==
  ASSUME LaneInv, NEW l \in Lanes, NEW s \in CallSteps, Spawn(l, s)
  PROVE  /\ Becomes(l, lane[l].at, s, "pending")
         /\ DOMAIN child' = DOMAIN child \union {<<Item(l), s>>}
         /\ \A c \in DOMAIN child : c # <<Item(l), s>> => child'[c] = child[c]
         /\ child'[<<Item(l), s>>] \in Child
         /\ child'[<<Item(l), s>>].armed /\ ~child'[<<Item(l), s>>].stop
         /\ child'[<<Item(l), s>>].listening => <<Item(l), s>> \in ToolCalls
<1> DEFINE c == <<Item(l), s>>
           fresh == [lane[l] EXCEPT !.step = s, !.answer = "pending"]
<1>1. lane \in [Lanes -> LaneRec] /\ lane[l] \in LaneRec
  BY DEF LaneInv
<1>2. PICK starts \in BOOLEAN :
        LET new == [os |-> IF starts THEN "running" ELSE "failed", code |-> "none",
                    stop |-> FALSE, armed |-> TRUE,
                    listening |-> c \in ToolCalls /\ signal # "none"]
        IN /\ lane' = [lane EXCEPT ![l].step = s, ![l].answer = "pending"]
           /\ child' = [x \in DOMAIN child \union {c} |-> IF x = c THEN new ELSE child[x]]
  BY DEF Spawn
<1> DEFINE new == [os |-> IF starts THEN "running" ELSE "failed", code |-> "none",
                   stop |-> FALSE, armed |-> TRUE,
                   listening |-> c \in ToolCalls /\ signal # "none"]
<1>3. fresh \in LaneRec /\ lane' = [lane EXCEPT ![l] = fresh]
  BY <1>1, <1>2 DEF LaneRec, Answers, Steps, CallSteps
<1>4. fresh.at = lane[l].at /\ fresh.step = s /\ fresh.answer = "pending"
  BY <1>1 DEF LaneRec
<1>5. Becomes(l, lane[l].at, s, "pending")
  BY <1>1, <1>3, <1>4 DEF Becomes
<1>6. new \in Child
  BY DEF Child
<1>7. new.armed /\ ~new.stop /\ (new.listening => c \in ToolCalls)
  OBVIOUS
<1> QED
  BY <1>2, <1>5, <1>6, <1>7

-----------------------------------------------------------------------------
(* Children.  A detection call waits only for a child that was not told to *)
(* stop, as its timer settles it; the others wait for their children.      *)
ChildInv ==
  /\ \A c \in DOMAIN child : child[c] \in Child
  /\ \A c \in DOMAIN child : child[c].listening => c \in ToolCalls
  /\ \A c \in DOMAIN child : c \in DetectionCalls /\ Pending(c) => ~child[c].stop
  /\ \A c \in DOMAIN child :
       c \notin DetectionCalls /\ child[c].os = "running" => Pending(c)
  /\ NoCallUnattended

CallInv == LaneInv /\ ChildInv

LEMMA LaneOfIsLane == ASSUME NEW c PROVE LaneOf(c) \in Lanes
  BY DEF LaneOf, ToolCalls, Lanes

(* A lane that does not wait changes nothing for its calls.                *)
LEMMA LaneMoves ==
  ASSUME ChildInv, NEW l \in Lanes, NEW at, NEW s, NEW a,
         Becomes(l, at, s, a), a # "pending", lane[l].answer # "pending",
         UNCHANGED child, l = "main" \/ UNCHANGED todo
  PROVE  ChildInv'
<1>1. ASSUME NEW c PROVE Pending(c)' <=> Pending(c)
  <2>1. CASE LaneOf(c) = l
    BY <2>1 DEF Pending, Becomes
  <2>2. CASE LaneOf(c) # l
    BY <2>2, LaneOfIsLane DEF Pending, Becomes, Item
  <2> QED
    BY <2>1, <2>2
<1> QED
  BY <1>1 DEF ChildInv, NoCallUnattended

LEMMA LaneSpawns ==
  ASSUME LaneInv, ChildInv, NEW l \in Lanes, NEW s \in CallSteps, Spawn(l, s),
         lane[l].answer # "pending", UNCHANGED todo,
         LaneOf(<<Item(l), s>>) = l
  PROVE  ChildInv'
<1> DEFINE new == <<Item(l), s>>
<1>1. /\ Becomes(l, lane[l].at, s, "pending")
      /\ DOMAIN child' = DOMAIN child \union {new}
      /\ \A c \in DOMAIN child : c # new => child'[c] = child[c]
      /\ child'[new] \in Child
      /\ child'[new].armed /\ ~child'[new].stop
      /\ child'[new].listening => new \in ToolCalls
  BY SpawnLane
<1>2. ASSUME NEW c, c # new PROVE Pending(c)' <=> Pending(c)
  <2>1. CASE LaneOf(c) = l
    <3>1. Item(l)' = Item(l) /\ lane'[l].step = s
      BY <1>1 DEF Becomes, Item
    <3>2. ~Pending(c)'
      BY <1>2, <2>1, <3>1 DEF Pending
    <3>3. ~Pending(c)
      BY <2>1 DEF Pending
    <3> QED
      BY <3>2, <3>3
  <2>2. CASE LaneOf(c) # l
    BY <1>1, <2>2, LaneOfIsLane DEF Pending, Becomes, Item
  <2> QED
    BY <2>1, <2>2
<1>3. ASSUME NEW c, c = new PROVE Pending(c)'
  <2>1. Item(l)' = Item(l)
    BY <1>1 DEF Becomes, Item
  <2>2. LaneOf(c) = l
    BY <1>3
  <2> QED
    BY <1>1, <1>3, <2>1, <2>2 DEF Pending, Becomes
<1> HIDE DEF new
<1>4. ASSUME NEW c \in DOMAIN child'
      PROVE  /\ child'[c] \in Child
             /\ child'[c].listening => c \in ToolCalls
             /\ c \in DetectionCalls /\ Pending(c)' => ~child'[c].stop
             /\ c \notin DetectionCalls /\ child'[c].os = "running" => Pending(c)'
             /\ IF Pending(c)'
                THEN child'[c].armed \/ child'[c].stop \/ child'[c].os # "running"
                ELSE ~child'[c].armed /\ ~child'[c].listening
  <2>1. CASE c = new
    BY <1>1, <1>3, <2>1
  <2>2. CASE c # new
    BY <1>1, <1>2, <2>2 DEF ChildInv, NoCallUnattended
  <2> QED
    BY <2>1, <2>2
<1> QED
  BY <1>4 DEF ChildInv, NoCallUnattended

(* The end of a call: nobody waits for it any more.                        *)
LEMMA CallAnswered ==
  ASSUME LaneInv, NEW c, NEW a \in Answers, a # "pending", Answer(c, a), UNCHANGED todo
  PROVE  ~Pending(c)' /\ \A d : d # c => (Pending(d)' <=> Pending(d))
<1>0. LaneOf(c) \in Lanes
  BY LaneOfIsLane
<1>1. CASE Pending(c)
  <2>1. Becomes(LaneOf(c), lane[LaneOf(c)].at, lane[LaneOf(c)].step, a)
    BY <1>0, <1>1, AnswerLane
  <2>2. ~Pending(c)'
    BY <2>1 DEF Pending, Becomes
  <2>3. ASSUME NEW d, d # c PROVE Pending(d)' <=> Pending(d)
    <3>1. CASE LaneOf(d) = LaneOf(c)
      BY <1>1, <2>1, <2>3, <3>1 DEF Pending, Becomes
    <3>2. CASE LaneOf(d) # LaneOf(c)
      BY <2>1, <3>2, LaneOfIsLane DEF Pending, Becomes, Item
    <3> QED
      BY <3>1, <3>2
  <2> QED
    BY <2>2, <2>3
<1>2. CASE ~Pending(c)
  BY <1>0, <1>2, AnswerLane DEF Pending, Item
<1> QED
  BY <1>1, <1>2

(* The parts of ChildInv that are about one child.                         *)
Kept(c) ==
  /\ child[c] \in Child
  /\ child[c].listening => c \in ToolCalls
  /\ c \in DetectionCalls /\ Pending(c) => ~child[c].stop
  /\ c \notin DetectionCalls /\ child[c].os = "running" => Pending(c)
  /\ IF Pending(c)
     THEN child[c].armed \/ child[c].stop \/ child[c].os # "running"
     ELSE ~child[c].armed /\ ~child[c].listening

LEMMA ChildInvIsKept == ChildInv <=> \A c \in DOMAIN child : Kept(c)
  BY DEF ChildInv, Kept, NoCallUnattended

(* A step of one child, with or without an answer, for the child's call.   *)
LEMMA ChildMoves ==
  ASSUME CallInv, NEW c \in DOMAIN child,
         DOMAIN child' = DOMAIN child \/ DOMAIN child' = DOMAIN child \ {c},
         \A d \in DOMAIN child' : d # c => child'[d] = child[d],
         c \in DOMAIN child' => Kept(c)',
         UNCHANGED <<program, todo>>,
         UNCHANGED lane \/ \E a \in Answers \ {"pending"} : Answer(c, a)
  PROVE  CallInv'
<1>1. LaneInv /\ ChildInv
  BY DEF CallInv
<1>2. LaneInv'
  <2>1. CASE UNCHANGED lane
    BY <1>1, <2>1 DEF LaneInv
  <2>2. ASSUME NEW a \in Answers \ {"pending"}, Answer(c, a) PROVE LaneInv'
    <3>1. IF Pending(c)
          THEN Becomes(LaneOf(c), lane[LaneOf(c)].at, lane[LaneOf(c)].step, a)
          ELSE UNCHANGED lane
      BY <1>1, <2>2, AnswerLane, LaneOfIsLane
    <3> QED
      BY <1>1, <2>2, <3>1, LaneOfIsLane, LanesApart DEF LaneInv, Becomes
  <2> QED
    BY <2>1, <2>2
<1>3. ASSUME NEW d \in DOMAIN child', d # c PROVE Kept(d)'
  <2>1. Kept(d)
    BY <1>1, <1>3, ChildInvIsKept
  <2>2. Pending(d)' <=> Pending(d)
    <3>1. CASE UNCHANGED lane
      BY <3>1 DEF Pending, Item
    <3>2. ASSUME NEW a \in Answers \ {"pending"}, Answer(c, a)
          PROVE  Pending(d)' <=> Pending(d)
      BY <1>1, <1>3, <3>2, CallAnswered
    <3> QED
      BY <3>1, <3>2
  <2> QED
    BY <1>3, <2>1, <2>2 DEF Kept
<1>4. ChildInv'
  BY <1>3 DEF ChildInv, Kept, NoCallUnattended
<1> QED
  BY <1>2, <1>4 DEF CallInv

LEMMA TimerKeeps ==
  ASSUME CallInv, NEW c \in DOMAIN child, Timer(c) PROVE CallInv'
<1>1. /\ child[c].armed
      /\ child' = [child EXCEPT ![c].armed = FALSE, ![c].stop = TRUE]
      /\ IF TimerSettles(c) THEN Answer(c, "bad") ELSE UNCHANGED lane
      /\ UNCHANGED <<program, todo>>
  BY DEF Timer
<1>2. LaneInv /\ Kept(c)
  BY ChildInvIsKept DEF CallInv
<1>3. /\ child'[c] = [child[c] EXCEPT !.armed = FALSE, !.stop = TRUE]
      /\ DOMAIN child' = DOMAIN child
      /\ \A d \in DOMAIN child : d # c => child'[d] = child[d]
  BY <1>1
<1>4. child[c] \in Child
  BY <1>2 DEF Kept
<1>5. /\ child'[c] \in Child /\ ~child'[c].armed /\ child'[c].stop
      /\ child'[c].listening = child[c].listening
  BY <1>3, <1>4 DEF Child
<1>6. Pending(c)
  BY <1>1, <1>2 DEF Kept
<1>7. CASE c \in DetectionCalls
  <2>1. Answer(c, "bad")
    BY <1>1, <1>7 DEF TimerSettles
  <2>2. ~Pending(c)'
    BY <1>1, <1>2, <2>1, CallAnswered DEF Answers
  <2>3. c \notin ToolCalls
    BY <1>7, CallsAssumption DEF DetectionCalls, ToolCalls
  <2>4. Kept(c)'
    BY <1>2, <1>5, <1>7, <2>2, <2>3 DEF Kept
  <2> QED
    BY <1>1, <1>3, <2>1, <2>4, ChildMoves DEF Answers
<1>8. CASE c \notin DetectionCalls
  <2>1. UNCHANGED lane
    BY <1>1, <1>8 DEF TimerSettles
  <2>2. Pending(c)'
    BY <1>1, <1>6, <2>1 DEF Pending, Item
  <2>3. Kept(c)'
    BY <1>2, <1>5, <1>8, <2>2 DEF Kept
  <2> QED
    BY <1>1, <1>3, <2>1, <2>3, ChildMoves
<1> QED
  BY <1>7, <1>8

LEMMA FailKeeps ==
  ASSUME CallInv, NEW c \in DOMAIN child, Fail(c) PROVE CallInv'
<1>1. /\ child' = [child EXCEPT ![c] = Cleared(@)]
      /\ Answer(c, IF c \in ToolCalls THEN "rejected" ELSE "bad")
      /\ UNCHANGED <<program, todo>>
  BY DEF Fail
<1>2. PICK a \in Answers \ {"pending"} : Answer(c, a)
  BY <1>1 DEF Answers
<1>3. LaneInv /\ child[c] \in Child
  BY ChildInvIsKept DEF CallInv, Kept
<1>4. /\ child'[c] = Cleared(child[c])
      /\ DOMAIN child' = DOMAIN child
      /\ \A d \in DOMAIN child : d # c => child'[d] = child[d]
  BY <1>1
<1>5. /\ child'[c] \in Child /\ ~child'[c].armed /\ ~child'[c].listening
      /\ child'[c].os = "exited"
  BY <1>3, <1>4 DEF Child, Cleared
<1>6. ~Pending(c)'
  BY <1>1, <1>2, <1>3, CallAnswered
<1>7. Kept(c)'
  BY <1>5, <1>6 DEF Kept
<1> QED
  BY <1>1, <1>2, <1>4, <1>7, ChildMoves

LEMMA CloseKeeps ==
  ASSUME CallInv, NEW c \in DOMAIN child, Close(c) PROVE CallInv'
<1>1. /\ Answer(c, CloseAnswer(c)) /\ CloseAnswer(c) \in Answers \ {"pending"}
      /\ child' = Without(c) /\ UNCHANGED <<program, todo>>
  BY DEF Close, CloseAnswer, Exited, Answers
<1> QED
  BY <1>1, ChildMoves DEF Without

LEMMA ExitKeeps ==
  ASSUME CallInv, NEW c \in DOMAIN child, Exit(c) PROVE CallInv'
<1>1. UNCHANGED <<program, lane, todo>>
  BY DEF Exit
<1>2. CASE child' = Without(c)
  BY <1>1, <1>2, ChildMoves DEF Without
<1>3. CASE child' # Without(c)
  <2>1. PICK code \in {"zero", "other"} :
          child' = [child EXCEPT ![c].os = "exited", ![c].code = code]
    BY <1>3 DEF Exit
  <2>2. Pending(c)
    BY <1>3 DEF Exit
  <2>3. child[c] \in Child /\ Kept(c)
    BY ChildInvIsKept DEF CallInv, Kept
  <2>4. /\ child'[c] = [child[c] EXCEPT !.os = "exited", !.code = code]
        /\ DOMAIN child' = DOMAIN child
        /\ \A d \in DOMAIN child : d # c => child'[d] = child[d]
    BY <2>1
  <2>5. /\ child'[c] \in Child /\ child'[c].os = "exited"
        /\ child'[c].stop = child[c].stop /\ child'[c].listening = child[c].listening
    BY <2>3, <2>4 DEF Child
  <2>6. Pending(c)'
    BY <1>1, <2>2 DEF Pending, Item
  <2>7. Kept(c)'
    BY <2>2, <2>3, <2>5, <2>6 DEF Kept
  <2> QED
    BY <1>1, <2>4, <2>7, ChildMoves
<1> QED
  BY <1>2, <1>3

LEMMA AbortKeeps ==
  ASSUME CallInv, Abort PROVE CallInv'
<1>1. /\ UNCHANGED <<program, lane, todo>>
      /\ child' = [c \in DOMAIN child |->
                     IF child[c].listening
                     THEN [child[c] EXCEPT !.stop = TRUE, !.listening = FALSE]
                     ELSE child[c]]
  BY DEF Abort
<1>2. LaneInv'
  BY <1>1 DEF CallInv, LaneInv
<1>3. ASSUME NEW c \in DOMAIN child PROVE Kept(c)'
  <2>1. Kept(c) /\ child[c] \in Child
    BY ChildInvIsKept DEF CallInv, Kept
  <2>2. Pending(c)' <=> Pending(c)
    BY <1>1 DEF Pending, Item
  <2>3. CASE child[c].listening
    <3>1. child'[c] = [child[c] EXCEPT !.stop = TRUE, !.listening = FALSE]
      BY <1>1, <2>3
    <3>2. /\ child'[c] \in Child /\ child'[c].stop /\ ~child'[c].listening
          /\ child'[c].os = child[c].os
      BY <2>1, <3>1 DEF Child
    <3>3. c \notin DetectionCalls
      BY <2>1, <2>3, CallsAssumption DEF Kept, DetectionCalls, ToolCalls
    <3>4. Pending(c)
      BY <2>1, <2>3 DEF Kept
    <3> QED
      BY <2>2, <3>2, <3>3, <3>4 DEF Kept
  <2>4. CASE ~child[c].listening
    <3>1. child'[c] = child[c]
      BY <1>1, <2>4
    <3> QED
      BY <2>1, <2>2, <3>1 DEF Kept
  <2> QED
    BY <2>3, <2>4
<1>4. ChildInv'
  BY <1>1, <1>3 DEF ChildInv, Kept, NoCallUnattended
<1> QED
  BY <1>2, <1>4 DEF CallInv

-----------------------------------------------------------------------------
(* The commands.  A lane that moves on has its answer, or is not waiting.  *)

LEMMA LaneInvMoves ==
  ASSUME LaneInv, NEW l \in Lanes, NEW at, NEW s \in Steps, NEW a,
         Becomes(l, at, s, a), UNCHANGED <<program, todo>>,
         a = "pending" => s \in CallSteps,
         l = "main" => s # "locate",
         l = "main" /\ s \in {"probe", "version"} =>
           program = "agents" /\ at \in 1 .. Len(todo)
  PROVE  LaneInv'
  BY LanesApart DEF LaneInv, Becomes

LEMMA QuietKeeps ==
  ASSUME CallInv, UNCHANGED <<program, lane, todo, child>> PROVE CallInv'
  BY DEF CallInv, LaneInv, ChildInv, NoCallUnattended, Pending, Item

LEMMA ItemIsAgent ==
  ASSUME LaneInv, program = "agents", lane["main"].at \in 1 .. Len(todo)
  PROVE  Item("main") \in AgentId
<1>1. todo = Catalog
  BY DEF LaneInv
<1> QED
  BY <1>1, ItemInCatalog DEF Item

LEMMA AgentsKeep == ASSUME CallInv, AgentsStep PROVE CallInv'
<1>1. LaneInv /\ ChildInv
  BY DEF CallInv
<1>2. lane["main"] \in LaneRec
  BY <1>1, LanesApart DEF LaneInv
<1>3. ASSUME program = "agents", lane["main"].at \in 1 .. Len(todo),
             NEW s \in {"probe", "version"}, Spawn("main", s),
             lane["main"].answer # "pending", UNCHANGED <<program, todo>>
      PROVE  CallInv'
  <2>1. Item("main") \in AgentId
    BY <1>1, <1>3, ItemIsAgent
  <2>2. LaneOf(<<Item("main"), s>>) = "main"
    BY <2>1, CallsAssumption DEF LaneOf, ToolCalls
  <2>3. ChildInv'
    BY <1>1, <1>3, <2>2, LaneSpawns, LanesApart DEF CallSteps
  <2>4. Becomes("main", lane["main"].at, s, "pending")
    BY <1>1, <1>3, SpawnLane, LanesApart DEF CallSteps
  <2>5. LaneInv'
    BY <1>1, <1>3, <2>4, LaneInvMoves, LanesApart DEF CallSteps, Steps
  <2> QED
    BY <2>3, <2>5 DEF CallInv
<1>4. ASSUME NextItem, lane["main"].answer # "pending", UNCHANGED <<program, todo, child>>
      PROVE  CallInv'
  <2>1. Becomes("main", lane["main"].at + 1, "start", "none")
    BY <1>1, <1>4, NextItemLane DEF NextItem, Steps
  <2>2. ChildInv'
    BY <1>1, <1>4, <2>1, LaneMoves, LanesApart
  <2>3. LaneInv'
    BY <1>1, <1>4, <2>1, LanesApart DEF LaneInv, Becomes
  <2> QED
    BY <2>2, <2>3 DEF CallInv
<1>5. CASE Find
  <2>1. /\ program = "agents" /\ lane["main"].step = "start" /\ ~AtEnd
        /\ UNCHANGED <<program, todo>>
    BY <1>5 DEF Find, Starts
  <2>2. lane["main"].answer # "pending"
    BY <1>1, <2>1, LanesApart DEF LaneInv, CallSteps
  <2>3. lane["main"].at \in 1 .. Len(todo)
    <3>1. Len(todo) \in Nat
      BY <1>1, <2>1 DEF LaneInv, Catalog
    <3> QED
      BY <1>2, <2>1, <3>1 DEF AtEnd, LaneRec
  <2>4. CASE NextItem /\ UNCHANGED child
    BY <1>4, <2>1, <2>2, <2>4
  <2>5. CASE \E s \in {"probe", "version"} : Spawn("main", s)
    BY <1>3, <2>1, <2>2, <2>3, <2>5
  <2> QED
    BY <1>5, <2>4, <2>5 DEF Find
<1>6. CASE ProbeAnswered
  <2>1. /\ program = "agents" /\ lane["main"].step = "probe"
        /\ lane["main"].answer # "pending" /\ UNCHANGED <<program, todo>>
    BY <1>6 DEF ProbeAnswered, Answered
  <2>2. lane["main"].at \in 1 .. Len(todo)
    BY <1>1, <2>1 DEF LaneInv
  <2> QED
    BY <1>3, <1>4, <1>6, <2>1, <2>2 DEF ProbeAnswered
<1>7. CASE VersionAnswered
  BY <1>4, <1>7 DEF VersionAnswered, Answered
<1>8. CASE Route
  BY <1>8, QuietKeeps DEF Route
<1> QED
  BY <1>5, <1>6, <1>7, <1>8 DEF AgentsStep

LEMMA VerifyKeeps == ASSUME CallInv, VerifyStep PROVE CallInv'
<1>1. LaneInv /\ ChildInv
  BY DEF CallInv
<1>2. CASE Detect
  <2>1. /\ program = "verify" /\ lane["main"].step = "start"
        /\ UNCHANGED <<program, child>>
    BY <1>2 DEF Detect, Starts
  <2>2. CASE UNCHANGED <<lane, todo>>
    BY <2>1, <2>2, QuietKeeps
  <2>3. CASE Goto("main", "next")
    <3>1. Becomes("main", lane["main"].at, "next", "none")
      BY <1>1, <2>3, GotoLane, LanesApart DEF Steps
    <3>2. lane["main"].answer # "pending"
      BY <1>1, <2>1, LanesApart DEF LaneInv, CallSteps
    <3>3. ChildInv'
      BY <1>1, <2>1, <3>1, <3>2, LaneMoves, LanesApart
    <3>4. LaneInv'
      BY <1>1, <2>1, <3>1, LanesApart DEF LaneInv, Becomes
    <3> QED
      BY <3>3, <3>4 DEF CallInv
  <2> QED
    BY <1>2, <2>2, <2>3 DEF Detect
<1>3. CASE StartCheck
  <2>1. /\ program = "verify" /\ lane["main"].step = "next" /\ Spawn("main", "check")
        /\ UNCHANGED <<program, todo>>
    BY <1>3 DEF StartCheck
  <2>2. lane["main"].answer # "pending"
    BY <1>1, <2>1, LanesApart DEF LaneInv, CallSteps
  <2>3. LaneOf(<<Item("main"), "check">>) = "main"
    BY DEF LaneOf, ToolCalls
  <2>4. ChildInv'
    BY <1>1, <2>1, <2>2, <2>3, LaneSpawns, LanesApart DEF CallSteps
  <2>5. Becomes("main", lane["main"].at, "check", "pending")
    BY <1>1, <2>1, SpawnLane, LanesApart DEF CallSteps
  <2>6. LaneInv'
    BY <1>1, <2>1, <2>5, LaneInvMoves, LanesApart DEF CallSteps, Steps
  <2> QED
    BY <2>4, <2>6 DEF CallInv
<1>4. CASE CheckAnswered
  <2>1. /\ lane["main"].answer # "pending" /\ UNCHANGED <<program, todo, child>>
        /\ lane' = [lane EXCEPT !["main"] = [at |-> @.at + 1, step |-> "next",
                                              answer |-> "none"]]
    BY <1>4 DEF CheckAnswered, Answered
  <2>2. Becomes("main", lane["main"].at + 1, "next", "none")
    BY <1>1, <2>1, NextItemLane DEF Steps
  <2>3. ChildInv'
    BY <1>1, <2>1, <2>2, LaneMoves, LanesApart
  <2>4. LaneInv'
    BY <1>1, <2>1, <2>2, LanesApart DEF LaneInv, Becomes
  <2> QED
    BY <2>3, <2>4 DEF CallInv
<1>5. CASE Report
  BY <1>5, QuietKeeps DEF Report
<1> QED
  BY <1>2, <1>3, <1>4, <1>5 DEF VerifyStep

LEMMA DoctorKeeps == ASSUME CallInv, DoctorStep PROVE CallInv'
<1>1. LaneInv /\ ChildInv
  BY DEF CallInv
<1>2. ASSUME NEW t \in Tools, NEW s \in {"locate", "version"}, Spawn(t, s),
             lane[t].answer # "pending", UNCHANGED <<program, todo>>
      PROVE  CallInv'
  <2>1. t \in Lanes /\ t # "main" /\ Item(t) = t
    BY LanesApart DEF Item
  <2>2. LaneOf(<<Item(t), s>>) = t
    BY <2>1 DEF LaneOf, ToolCalls
  <2>3. ChildInv'
    BY <1>1, <1>2, <2>1, <2>2, LaneSpawns DEF CallSteps
  <2>4. Becomes(t, lane[t].at, s, "pending")
    BY <1>1, <1>2, <2>1, SpawnLane DEF CallSteps
  <2>5. LaneInv'
    BY <1>1, <1>2, <2>1, <2>4, LaneInvMoves DEF CallSteps, Steps
  <2> QED
    BY <2>3, <2>5 DEF CallInv
<1>3. ASSUME NEW t \in Tools, NEW s \in {"done", "thrown"}, Goto(t, s),
             lane[t].answer # "pending", UNCHANGED <<program, todo, child>>
      PROVE  CallInv'
  <2>1. t \in Lanes /\ t # "main"
    BY LanesApart
  <2>2. Becomes(t, lane[t].at, s, "none")
    BY <1>1, <1>3, <2>1, GotoLane DEF Steps
  <2>3. ChildInv'
    BY <1>1, <1>3, <2>1, <2>2, LaneMoves
  <2>4. LaneInv'
    BY <1>1, <1>3, <2>1, <2>2, LanesApart DEF LaneInv, Becomes
  <2> QED
    BY <2>3, <2>4 DEF CallInv
<1>4. ASSUME NEW t \in Tools, Locate(t) PROVE CallInv'
  <2>1. lane[t].answer # "pending"
    BY <1>1, <1>4, LanesApart DEF Locate, LaneInv, CallSteps
  <2> QED
    BY <1>2, <1>4, <2>1 DEF Locate
<1>5. ASSUME NEW t \in Tools, Located(t) PROVE CallInv'
  BY <1>2, <1>3, <1>5 DEF Located, Answered
<1>6. ASSUME NEW t \in Tools, Inspected(t) PROVE CallInv'
  BY <1>3, <1>6 DEF Inspected, Answered
<1>7. CASE Tell \/ Throw
  BY <1>7, QuietKeeps DEF Tell, Throw
<1> QED
  BY <1>4, <1>5, <1>6, <1>7 DEF DoctorStep

-----------------------------------------------------------------------------

LEMMA InitCallInv == Init => CallInv
<1> SUFFICES ASSUME Init PROVE CallInv
  OBVIOUS
<1>1. LaneInv
  BY LanesApart DEF Init, LaneInv, LaneRec, Steps, Answers
<1>2. ChildInv
  BY DEF Init, ChildInv, NoCallUnattended
<1> QED
  BY <1>1, <1>2 DEF CallInv

LEMMA NextCallInv == CallInv /\ [Next]_vars => CallInv'
<1> SUFFICES ASSUME CallInv, [Next]_vars PROVE CallInv'
  OBVIOUS
<1>1. CASE Handler
  BY <1>1, TimerKeeps, FailKeeps, CloseKeeps DEF Handler
<1>2. CASE AgentsStep \/ VerifyStep \/ DoctorStep
  BY <1>2, AgentsKeep, VerifyKeeps, DoctorKeeps
<1>3. CASE Abort \/ \E c \in DOMAIN child : Exit(c)
  BY <1>3, AbortKeeps, ExitKeeps
<1>4. CASE UNCHANGED vars
  BY <1>4, QuietKeeps DEF vars
<1> QED
  BY <1>1, <1>2, <1>3, <1>4 DEF Next, EventLoop, Ended

(* No call of any command is left to itself, however many tools there are  *)
(* and whatever their children do: while it is pending its timer is armed, *)
(* its child was told to stop, or its end is on the way (process.ts:40-70, *)
(* detection.ts:164-191, commands.ts:130-148).                             *)
THEOREM CallsAttended == Spec => []NoCallUnattended
<1>1. CallInv => NoCallUnattended
  BY DEF CallInv, ChildInv
<1> QED
  BY InitCallInv, NextCallInv, <1>1, PTL DEF Spec

-----------------------------------------------------------------------------
(* While main waits, only the end of its call gives it an answer.          *)

LEMMA MainWaits ==
  ASSUME CallInv, [Next]_vars, lane["main"].answer = "pending"
  PROVE  \/ lane'["main"].answer # "ok"
         \/ \E d \in DOMAIN child : Close(d) /\ Pending(d) /\ LaneOf(d) = "main"
<1>1. LaneInv /\ lane["main"].step \in CallSteps
  BY LanesApart DEF CallInv, LaneInv
<1>2. ASSUME NEW d \in DOMAIN child, NEW a \in Answers, Answer(d, a),
             lane'["main"].answer = "ok"
      PROVE  Pending(d) /\ LaneOf(d) = "main" /\ a = "ok"
  <2>1. IF Pending(d)
        THEN Becomes(LaneOf(d), lane[LaneOf(d)].at, lane[LaneOf(d)].step, a)
        ELSE UNCHANGED lane
    BY <1>1, <1>2, AnswerLane, LaneOfIsLane
  <2> QED
    BY <1>2, <2>1, LanesApart DEF Becomes
<1>3. ASSUME NEW d \in DOMAIN child, Timer(d) PROVE lane'["main"].answer # "ok"
  BY <1>2, <1>3 DEF Timer, Answers
<1>4. ASSUME NEW d \in DOMAIN child, Fail(d) PROVE lane'["main"].answer # "ok"
  BY <1>2, <1>4 DEF Fail, Answers
<1>5. ASSUME NEW d \in DOMAIN child, Close(d), lane'["main"].answer = "ok"
      PROVE  Close(d) /\ Pending(d) /\ LaneOf(d) = "main"
  <2>1. Answer(d, CloseAnswer(d)) /\ CloseAnswer(d) \in Answers
    BY <1>5 DEF Close, CloseAnswer, Exited, Answers
  <2> QED
    BY <1>2, <1>5, <2>1
<1>6. CASE AgentsStep \/ VerifyStep
  BY <1>1, <1>6 DEF AgentsStep, VerifyStep, Find, ProbeAnswered, VersionAnswered, Route,
                    Detect, StartCheck, CheckAnswered, Report, Starts, Answered, CallSteps
<1>7. CASE DoctorStep
  <2>1. ASSUME NEW t \in Tools, NEW s \in Steps, Goto(t, s)
        PROVE  lane'["main"] = lane["main"]
    BY <1>1, <2>1, GotoLane, LanesApart DEF Becomes
  <2>2. ASSUME NEW t \in Tools, NEW s \in CallSteps, Spawn(t, s)
        PROVE  lane'["main"] = lane["main"]
    <3>1. t \in Lanes /\ t # "main"
      BY LanesApart
    <3>2. Becomes(t, lane[t].at, s, "pending")
      BY <1>1, <2>2, <3>1, SpawnLane
    <3> QED
      BY <3>1, <3>2, LanesApart DEF Becomes
  <2> QED
    <3>1. ASSUME NEW t \in Tools, Locate(t) PROVE lane'["main"] = lane["main"]
      BY <2>2, <3>1 DEF Locate, CallSteps
    <3>2. ASSUME NEW t \in Tools, Located(t) PROVE lane'["main"] = lane["main"]
      BY <2>1, <2>2, <3>2 DEF Located, Steps, CallSteps
    <3>3. ASSUME NEW t \in Tools, Inspected(t) PROVE lane'["main"] = lane["main"]
      BY <2>1, <3>3 DEF Inspected, Steps
    <3>4. CASE Tell \/ Throw
      BY <3>4 DEF Tell, Throw
    <3> QED
      BY <1>7, <3>1, <3>2, <3>3, <3>4 DEF DoctorStep
<1>8. CASE Abort \/ (\E c \in DOMAIN child : Exit(c)) \/ UNCHANGED vars
  BY <1>8 DEF Abort, Exit, vars
<1> QED
  BY <1>3, <1>4, <1>5, <1>6, <1>7, <1>8 DEF Next, EventLoop, Handler, Ended

LEMMA MainCall ==
  ASSUME CallInv, NEW c \in DOMAIN child, c \notin ToolCalls, Pending(c)
  PROVE  LaneOf(c) = "main" /\ (c \in DetectionCalls \/ c[2] = "check")
<1>1. LaneInv /\ LaneOf(c) = "main"
  BY DEF CallInv, LaneOf
<1>2. c = <<Item("main"), lane["main"].step>> /\ lane["main"].answer = "pending"
  BY <1>1 DEF Pending
<1>3. lane["main"].step \in CallSteps
  BY <1>1, <1>2, LanesApart DEF LaneInv
<1>4. CASE lane["main"].step = "check"
  BY <1>1, <1>2, <1>4
<1>5. CASE lane["main"].step \in {"probe", "version"}
  <2>1. Item("main") \in AgentId
    BY <1>1, <1>5, ItemIsAgent DEF LaneInv
  <2> QED
    BY <1>1, <1>2, <1>5, <2>1 DEF DetectionCalls
<1> QED
  BY <1>1, <1>3, <1>4, <1>5 DEF LaneInv, CallSteps

(* A check passes, and a probe succeeds, only in time: whichever of timer, *)
(* error, exit and close comes first, an answer "ok" is the exit with 0 of *)
(* a child that had not been told to stop (commands.ts:146,                *)
(* detection.ts:131-137).                                                  *)
THEOREM AnswersInTime == Spec => OkOnlyInTime
<1>1. ASSUME CallInv, [Next]_vars
      PROVE  [\A c \in DOMAIN child \ ToolCalls :
                Pending(c) /\ lane'[LaneOf(c)].answer = "ok" =>
                  child[c].code = "zero" /\ ~child[c].stop]_vars
  <2> SUFFICES ASSUME NEW c \in DOMAIN child \ ToolCalls, Pending(c),
                      lane'[LaneOf(c)].answer = "ok"
               PROVE  child[c].code = "zero" /\ ~child[c].stop
    OBVIOUS
  <2>1. LaneOf(c) = "main" /\ (c \in DetectionCalls \/ c[2] = "check")
    BY <1>1, MainCall
  <2>2. lane["main"].answer = "pending"
    BY <2>1 DEF Pending
  <2>3. PICK d \in DOMAIN child : Close(d) /\ Pending(d) /\ LaneOf(d) = "main"
    BY <1>1, <2>1, <2>2, MainWaits
  <2>4. d = c
    BY <2>1, <2>3 DEF Pending
  <2>5. LaneInv /\ Answer(c, CloseAnswer(c)) /\ CloseAnswer(c) \in Answers
    BY <1>1, <2>3, <2>4 DEF CallInv, Close, CloseAnswer, Exited, Answers
  <2>6. CloseAnswer(c) = "ok"
    BY <2>1, <2>5, AnswerLane, LanesApart DEF Becomes
  <2>7. child[c].code = "zero" /\ ~(c[2] = "check" /\ child[c].stop)
    BY <2>6 DEF CloseAnswer, Exited
  <2>8. c \in DetectionCalls => ~child[c].stop
    BY <1>1 DEF CallInv, ChildInv
  <2> QED
    BY <2>1, <2>7, <2>8
<1> QED
  BY InitCallInv, NextCallInv, <1>1, PTL DEF Spec, OkOnlyInTime

-----------------------------------------------------------------------------
(* What Filter computes, by induction over the sequence.  The library's    *)
(* induction takes an operator, which no prover here can instantiate: a    *)
(* set of numbers does instead.                                            *)

LEMMA NatSetInduction ==
  ASSUME NEW S, 0 \in S, \A n \in Nat : n \in S => n + 1 \in S
  PROVE  Nat \subseteq S
<1> SUFFICES ASSUME Nat \ S # {} PROVE FALSE
  OBVIOUS
<1>1. IsWellFoundedOn(OpToRel(<, Nat), Nat)
  BY NatLessThanWellFounded
<1>2. PICK m \in Nat \ S : \A k \in Nat \ S : ~(<<k, m>> \in OpToRel(<, Nat))
  BY <1>1, WFMin
<1>3. ASSUME NEW k \in Nat, k < m PROVE k \in S
  BY <1>2, <1>3 DEF OpToRel
<1>4. m # 0
  OBVIOUS
<1>5. m - 1 \in Nat /\ m - 1 < m /\ (m - 1) + 1 = m
  BY <1>4
<1>6. m - 1 \in S
  BY <1>3, <1>5
<1> QED
  BY <1>5, <1>6

(* f holds what Filter keeps of each of the first n members.               *)
Walk(s, S, f, n) ==
  f = [i \in 0 .. n |->
         IF i = 0 THEN <<>>
         ELSE IF s[i] \in S THEN Append(f[i - 1], s[i]) ELSE f[i - 1]]

LEMMA WalkExists ==
  ASSUME NEW s, NEW S, NEW n \in Nat PROVE \E f : Walk(s, S, f, n)
<1> DEFINE N == {k \in Nat : \E f : Walk(s, S, f, k)}
<1>1. 0 \in N
  <2>1. Walk(s, S, [i \in 0 .. 0 |-> <<>>], 0)
    BY DEF Walk
  <2> QED
    BY <2>1
<1>2. ASSUME NEW k \in Nat, k \in N PROVE k + 1 \in N
  <2>1. PICK f : Walk(s, S, f, k)
    BY <1>2
  <2> DEFINE last == IF s[k + 1] \in S THEN Append(f[k], s[k + 1]) ELSE f[k]
             g == [i \in 0 .. k + 1 |-> IF i = k + 1 THEN last ELSE f[i]]
  <2>2. ASSUME NEW i \in 0 .. k + 1
        PROVE  g[i] = IF i = 0 THEN <<>>
                      ELSE IF s[i] \in S THEN Append(g[i - 1], s[i]) ELSE g[i - 1]
    <3>1. CASE i = k + 1
      <4>1. g[i] = last /\ g[i - 1] = f[k]
        BY <3>1
      <4> QED
        BY <3>1, <4>1
    <3>2. CASE i # k + 1
      <4>1. i \in 0 .. k /\ g[i] = f[i] /\ (i # 0 => g[i - 1] = f[i - 1])
        BY <3>2
      <4>2. f[i] = IF i = 0 THEN <<>>
                   ELSE IF s[i] \in S THEN Append(f[i - 1], s[i]) ELSE f[i - 1]
        BY <2>1, <4>1 DEF Walk
      <4> QED
        BY <4>1, <4>2
    <3> QED
      BY <3>1, <3>2
  <2>3. Walk(s, S, g, k + 1)
    BY <2>2 DEF Walk
  <2> QED
    BY <2>3
<1>3. Nat \subseteq N
  <2> HIDE DEF N
  <2> QED
    BY <1>1, <1>2, NatSetInduction
<1> QED
  BY <1>3

LEMMA FilterIsWalk ==
  ASSUME NEW s, NEW S, Len(s) \in Nat
  PROVE  \E f : Walk(s, S, f, Len(s)) /\ Filter(s, S) = f[Len(s)]
<1> DEFINE W == CHOOSE f : Walk(s, S, f, Len(s))
<1>1. Walk(s, S, W, Len(s))
  BY WalkExists
<1>2. Filter(s, S) = W[Len(s)]
  BY Zenon DEF Filter, Walk
<1> QED
  BY <1>1, <1>2

(* The members of the first i of s that are in S, and no others, are kept, *)
(* and what comes first and is kept stays first.                           *)
Keeps(s, S, A, t, i) ==
  /\ t \in Seq(A) /\ Len(t) <= i
  /\ \A j \in 1 .. Len(t) : t[j] \in S /\ \E k \in 1 .. i : t[j] = s[k]
  /\ \A k \in 1 .. i : s[k] \in S => \E j \in 1 .. Len(t) : t[j] = s[k]
  /\ i > 0 /\ s[1] \in S => Len(t) > 0 /\ t[1] = s[1]

LEMMA KeepsOne ==
  ASSUME NEW A, NEW S, NEW s \in Seq(A), NEW i \in Nat, i + 1 \in 1 .. Len(s),
         NEW t, Keeps(s, S, A, t, i),
         NEW u, u = IF s[i + 1] \in S THEN Append(t, s[i + 1]) ELSE t
  PROVE  Keeps(s, S, A, u, i + 1)
<1>1. /\ t \in Seq(A) /\ Len(t) <= i /\ Len(t) \in Nat
      /\ \A j \in 1 .. Len(t) : t[j] \in S /\ \E k \in 1 .. i : t[j] = s[k]
      /\ \A k \in 1 .. i : s[k] \in S => \E j \in 1 .. Len(t) : t[j] = s[k]
      /\ i > 0 /\ s[1] \in S => Len(t) > 0 /\ t[1] = s[1]
  BY DEF Keeps
<1>2. CASE s[i + 1] \notin S
  <2>1. u = t
    BY <1>2
  <2>2. \A k \in 1 .. i + 1 : s[k] \in S => k \in 1 .. i
    BY <1>2
  <2>3. i + 1 > 0 /\ s[1] \in S => i > 0
    BY <1>2
  <2> QED
    BY <1>1, <2>1, <2>2, <2>3 DEF Keeps
<1>3. CASE s[i + 1] \in S
  <2>1. /\ s[i + 1] \in A /\ u = Append(t, s[i + 1])
        /\ u \in Seq(A) /\ Len(u) = Len(t) + 1 /\ u[Len(t) + 1] = s[i + 1]
        /\ \A j \in 1 .. Len(t) : u[j] = t[j]
    BY <1>1, <1>3
  <2>2. ASSUME NEW j \in 1 .. Len(u)
        PROVE  u[j] \in S /\ \E k \in 1 .. i + 1 : u[j] = s[k]
    <3>1. CASE j = Len(t) + 1
      BY <1>3, <2>1, <3>1
    <3>2. CASE j # Len(t) + 1
      <4>1. j \in 1 .. Len(t) /\ u[j] = t[j]
        BY <1>1, <2>1, <3>2
      <4>2. PICK k \in 1 .. i : t[j] = s[k]
        BY <1>1, <4>1
      <4> QED
        BY <1>1, <4>1, <4>2
    <3> QED
      BY <3>1, <3>2
  <2>3. ASSUME NEW k \in 1 .. i + 1, s[k] \in S PROVE \E j \in 1 .. Len(u) : u[j] = s[k]
    <3>1. CASE k = i + 1
      BY <1>1, <2>1, <3>1
    <3>2. CASE k # i + 1
      <4>1. PICK j \in 1 .. Len(t) : t[j] = s[k]
        BY <1>1, <2>3, <3>2
      <4> QED
        BY <1>1, <2>1, <4>1
    <3> QED
      BY <3>1, <3>2
  <2>4. s[1] \in S => Len(u) > 0 /\ u[1] = s[1]
    <3>1. CASE i = 0
      <4>1. Len(t) = 0
        BY <1>1, <3>1
      <4> QED
        BY <2>1, <3>1, <4>1
    <3>2. CASE i # 0
      BY <1>1, <2>1, <3>2
    <3> QED
      BY <3>1, <3>2
  <2>5. u \in Seq(A) /\ Len(u) <= i + 1
    BY <1>1, <2>1
  <2> QED
    BY <2>2, <2>3, <2>4, <2>5 DEF Keeps
<1> QED
  BY <1>2, <1>3

LEMMA FilterKeeps ==
  ASSUME NEW A, NEW S, NEW s \in Seq(A)
  PROVE  Keeps(s, S, A, Filter(s, S), Len(s))
<1>1. Len(s) \in Nat
  OBVIOUS
<1>2. PICK f : Walk(s, S, f, Len(s)) /\ Filter(s, S) = f[Len(s)]
  BY <1>1, FilterIsWalk
<1> DEFINE N == {i \in Nat : i <= Len(s) => Keeps(s, S, A, f[i], i)}
<1>3. 0 \in N
  <2>1. f[0] = <<>>
    BY <1>1, <1>2 DEF Walk
  <2>2. f[0] \in Seq(A) /\ Len(f[0]) = 0
    BY <2>1
  <2>3. Keeps(s, S, A, f[0], 0)
    BY <2>2 DEF Keeps
  <2> QED
    BY <2>3
<1>4. ASSUME NEW i \in Nat, i \in N PROVE i + 1 \in N
  <2> SUFFICES ASSUME i + 1 <= Len(s) PROVE Keeps(s, S, A, f[i + 1], i + 1)
    OBVIOUS
  <2>1. Keeps(s, S, A, f[i], i)
    BY <1>1, <1>4
  <2>2. i + 1 \in 0 .. Len(s) /\ i + 1 # 0 /\ (i + 1) - 1 = i
    BY <1>1
  <2>3. f[i + 1] = IF s[i + 1] \in S THEN Append(f[i], s[i + 1]) ELSE f[i]
    BY <1>2, <2>2 DEF Walk
  <2>4. i + 1 \in 1 .. Len(s)
    BY <1>1
  <2> QED
    BY <2>1, <2>3, <2>4, KeepsOne
<1>5. Nat \subseteq N
  <2> HIDE DEF N
  <2> QED
    BY <1>3, <1>4, NatSetInduction
<1> QED
  BY <1>1, <1>2, <1>5

-----------------------------------------------------------------------------
(* Routing, for any request and any set of installed agents.               *)

LEMMA ListsAreComplete ==
  ASSUME NEW task \in AllTasks
  PROVE  /\ PriorityForTask(task) \in Seq(AgentId)
         /\ Len(PriorityForTask(task)) > 0 /\ PriorityForTask(task)[1] = "claude-code"
         /\ \A id \in AgentId : task \in Tasks(id) =>
              \E k \in 1 .. Len(PriorityForTask(task)) : PriorityForTask(task)[k] = id
<1> DEFINE p == PriorityForTask(task)
<1>0. AgentId = {"claude-code", "codex-cli", "github-copilot-cli", "opencode",
                 "gemini-cli", "cursor-cli", "ollama-qwen"}
  BY DEF AgentId, Catalog
<1>1. p \in Seq(AgentId) /\ Len(p) > 0 /\ p[1] = "claude-code"
  <2>1. CASE task = "simple"
    BY <1>0, <2>1 DEF PriorityForTask
  <2>2. CASE task = "bug"
    BY <1>0, <2>2 DEF PriorityForTask
  <2>3. CASE task = "feature"
    BY <1>0, <2>3 DEF PriorityForTask
  <2>4. CASE task = "security"
    BY <1>0, <2>4 DEF PriorityForTask
  <2>5. CASE task = "performance"
    BY <1>0, <2>5 DEF PriorityForTask
  <2> QED
    BY <2>1, <2>2, <2>3, <2>4, <2>5 DEF AllTasks
<1>2. ASSUME NEW id \in AgentId, task \in Tasks(id) PROVE \E k \in 1 .. Len(p) : p[k] = id
  <2>1. CASE task = "simple"
    <3>1. /\ Len(p) = 7 /\ p[1] = "claude-code" /\ p[2] = "ollama-qwen"
          /\ p[3] = "codex-cli" /\ p[4] = "github-copilot-cli" /\ p[5] = "cursor-cli"
          /\ p[6] = "opencode" /\ p[7] = "gemini-cli"
      BY <2>1 DEF PriorityForTask
    <3> QED
      BY <1>0, <3>1
  <2>2. CASE task = "bug"
    <3>1. /\ Len(p) = 6 /\ p[1] = "claude-code" /\ p[2] = "codex-cli"
          /\ p[3] = "cursor-cli" /\ p[4] = "ollama-qwen"
          /\ p[5] = "github-copilot-cli" /\ p[6] = "opencode"
      BY <2>2 DEF PriorityForTask
    <3>2. id # "gemini-cli"
      BY <1>2, <2>2 DEF Tasks, AllTasks
    <3> QED
      BY <1>0, <3>1, <3>2
  <2>3. CASE task = "feature"
    <3>1. /\ Len(p) = 6 /\ p[1] = "claude-code" /\ p[2] = "codex-cli"
          /\ p[3] = "cursor-cli" /\ p[4] = "gemini-cli" /\ p[5] = "opencode"
          /\ p[6] = "github-copilot-cli"
      BY <2>3 DEF PriorityForTask
    <3>2. id # "ollama-qwen"
      BY <1>2, <2>3 DEF Tasks, AllTasks
    <3> QED
      BY <1>0, <3>1, <3>2
  <2>4. CASE task = "security"
    <3>1. /\ Len(p) = 4 /\ p[1] = "claude-code" /\ p[2] = "codex-cli"
          /\ p[3] = "gemini-cli" /\ p[4] = "opencode"
      BY <2>4 DEF PriorityForTask
    <3>2. id \notin {"ollama-qwen", "github-copilot-cli", "cursor-cli"}
      BY <1>2, <2>4 DEF Tasks, CodeTasks, AllTasks
    <3> QED
      BY <1>0, <3>1, <3>2
  <2>5. CASE task = "performance"
    <3>1. /\ Len(p) = 7 /\ p[1] = "claude-code" /\ p[2] = "codex-cli"
          /\ p[3] = "gemini-cli" /\ p[4] = "opencode" /\ p[5] = "cursor-cli"
          /\ p[6] = "ollama-qwen" /\ p[7] = "github-copilot-cli"
      BY <2>5 DEF PriorityForTask
    <3> QED
      BY <1>0, <3>1
  <2> QED
    BY <2>1, <2>2, <2>3, <2>4, <2>5 DEF AllTasks
<1> QED
  BY <1>1, <1>2

LEMMA TaskIsKnown == ASSUME NEW r PROVE TaskOf(r) \in AllTasks
<1> DEFINE named == Filter(KeywordMap, r.prompt)
<1>1. KeywordMap \in Seq(AllTasks)
  BY DEF KeywordMap, AllTasks
<1>2. named \in Seq(AllTasks)
  BY <1>1, FilterKeeps DEF Keeps
<1> HIDE DEF named
<1>3. named # <<>> => Head(named) \in AllTasks
  BY <1>2
<1>4. "simple" \in AllTasks
  BY DEF AllTasks
<1>5. ClassifyTask(r.prompt) = IF named = <<>> THEN "simple" ELSE Head(named)
  BY DEF ClassifyTask, named
<1> QED
  BY <1>3, <1>4, <1>5 DEF TaskOf

(* The agents a decision selects, when none were asked for by name.        *)
LEMMA SelectsFitting ==
  ASSUME NEW r, NEW inst \in SUBSET AgentId, NEW task \in AllTasks,
         r.requested = <<>>, r.maxAgents \in 1 .. MaxAgentsPerTask
  PROVE  LET sel == Selected(r, task, inst)
             fitting == Fit(r, task, inst)
         IN  /\ sel \in Seq(AgentId)
             /\ \A i \in 1 .. Len(sel) : sel[i] \in fitting
             /\ Len(sel) < r.maxAgents =>
                  \A id \in fitting : \E i \in 1 .. Len(sel) : sel[i] = id
             /\ sel = <<>> => fitting = {}
             /\ "claude-code" \in fitting => \E i \in 1 .. Len(sel) : sel[i] = "claude-code"
<1> DEFINE p == PriorityForTask(task)
           F == Fit(r, task, inst)
           fit == Filter(p, F)
           sel == Selected(r, task, inst)
           max == r.maxAgents
<1>1. max \in Nat /\ max > 0
  BY DEF MaxAgentsPerTask
<1>2. sel = IF Len(fit) > max THEN SubSeq(fit, 1, max) ELSE fit
  BY DEF Selected, Candidates
<1>3. /\ p \in Seq(AgentId) /\ Len(p) > 0 /\ p[1] = "claude-code"
      /\ \A id \in AgentId : task \in Tasks(id) => \E k \in 1 .. Len(p) : p[k] = id
  BY ListsAreComplete
<1>4. \A id \in F : id \in AgentId /\ task \in Tasks(id)
  BY DEF Fit, Suits
<1> HIDE DEF p, F, fit, sel, max
<1>5. Keeps(p, F, AgentId, fit, Len(p))
  BY <1>3, FilterKeeps DEF fit
<1>6. /\ fit \in Seq(AgentId) /\ Len(fit) \in Nat
      /\ \A j \in 1 .. Len(fit) : fit[j] \in F
      /\ \A k \in 1 .. Len(p) : p[k] \in F => \E j \in 1 .. Len(fit) : fit[j] = p[k]
      /\ "claude-code" \in F => Len(fit) > 0 /\ fit[1] = "claude-code"
  BY <1>3, <1>5 DEF Keeps
<1>7. \A id \in F : \E j \in 1 .. Len(fit) : fit[j] = id
  BY <1>3, <1>4, <1>6
<1>8. CASE Len(fit) > max
  <2>1. /\ sel \in Seq(AgentId) /\ Len(sel) = max
        /\ \A i \in 1 .. max : sel[i] = fit[i]
    BY <1>1, <1>2, <1>6, <1>8
  <2>2. sel # <<>>
    BY <1>1, <2>1
  <2> QED
    BY <1>1, <1>6, <1>8, <2>1, <2>2 DEF sel, F, max
<1>9. CASE ~(Len(fit) > max)
  <2>1. sel = fit
    BY <1>2, <1>9
  <2>2. sel = <<>> => F = {}
    <3>1. fit = <<>> => Len(fit) = 0
      OBVIOUS
    <3> QED
      BY <1>7, <2>1, <3>1
  <2>3. "claude-code" \in F => \E i \in 1 .. Len(sel) : sel[i] = "claude-code"
    BY <1>7, <2>1
  <2> QED
    BY <1>6, <1>7, <2>1, <2>2, <2>3 DEF sel, F, max
<1> QED
  BY <1>8, <1>9

LEMMA ClaudeFits ==
  ASSUME NEW r, NEW inst, "claude-code" \in inst, NEW task \in AllTasks
  PROVE  "claude-code" \in Fit(r, task, inst)
<1>1. Tasks("claude-code") = AllTasks /\ "claude-code" \in PrCapable
  BY DEF Tasks, PrCapable
<1> QED
  BY <1>1 DEF Fit, Suits

-----------------------------------------------------------------------------
(* The work of the commands: where main is in its list, the calls that     *)
(* belong to the command, what it found, reported and decided.             *)

Result == [name : Check, passed : BOOLEAN]

ItemsInv ==
  /\ todo \in Seq(AgentId \union Check) /\ Len(todo) <= 13
  /\ lane["main"].at <= Len(todo) + 1
  /\ \A t \in Tools : lane[t].at = 1
  /\ results \in Seq(Result)

AgentsInv ==
  program = "agents" =>
    /\ DOMAIN child \subseteq DetectionCalls
    /\ present \subseteq AgentId
    /\ outcome = "none" => asked = NoRequest
    /\ outcome # "none" => lane["main"].step = "start"
    /\ outcome # "none" /\ asked # NoRequest => routing = RouteAgents(asked, present)

VerifyInv ==
  program = "verify" =>
    /\ todo \in Seq(Check)
    /\ DOMAIN child \subseteq CheckCalls
    /\ present = {}
    /\ lane["main"].step = "start" => lane["main"].at = 1
    /\ lane["main"].step = "check" => ~AtEnd
    /\ Len(results) = lane["main"].at - 1
    /\ \A i \in 1 .. Len(results) : results[i].name = todo[i]
    /\ outcome = "ok" => lane["main"].step = "next" /\ AtEnd

DoctorInv ==
  program = "doctor" =>
    /\ DOMAIN child \subseteq ToolCalls
    /\ present \subseteq Tools
    /\ outcome = "ok" => AllInspected

KindsInv ==
  /\ program \in {"agents", "verify", "doctor"}
  /\ signal \in {"none", "live", "aborted"}
  /\ asked \in Requests \union {NoRequest}
  /\ outcome \in {"none", "ok", "error"}

WorkInv == ItemsInv /\ AgentsInv /\ VerifyInv /\ DoctorInv /\ KindsInv

LEMMA SeqOf ==
  ASSUME NEW S, NEW T, NEW s \in Seq(S), \A i \in 1 .. Len(s) : s[i] \in T
  PROVE  s \in Seq(T)
<1>1. Len(s) \in Nat /\ s \in [1 .. Len(s) -> T]
  OBVIOUS
<1> QED
  BY <1>1

LEMMA ConcatIn ==
  ASSUME NEW S, NEW s \in Seq(S), NEW t \in Seq(S)
  PROVE  s \o t \in Seq(S) /\ Len(s \o t) = Len(s) + Len(t)
  OBVIOUS

LEMMA ChecksAreListed == AllChecks \in Seq(Check) /\ Len(AllChecks) = 13
<1> DEFINE N == {"npm-lint", "npm-typecheck", "npm-build", "npm-test"}
           P == {"python-ruff", "python-mypy", "python-pytest", "python-tests"}
           M == {"make-lint", "make-typecheck", "make-build", "make-test"}
           S == N \union P \union M \union {"safe-fallback"}
           last == <<"safe-fallback">>
<1>1. NpmChecks \in Seq(N) /\ Len(NpmChecks) = 4
  BY DEF NpmChecks
<1>2. PythonChecks \in Seq(P) /\ Len(PythonChecks) = 4
  BY DEF PythonChecks
<1>3. MakeChecks \in Seq(M) /\ Len(MakeChecks) = 4
  BY DEF MakeChecks
<1>4. last \in Seq({"safe-fallback"}) /\ Len(last) = 1
  OBVIOUS
<1>5. N \subseteq S /\ P \subseteq S /\ M \subseteq S /\ {"safe-fallback"} \subseteq S
  OBVIOUS
<1>6. AllChecks = ((NpmChecks \o PythonChecks) \o MakeChecks) \o last
  BY DEF AllChecks
<1> HIDE DEF N, P, M, S, last
<1>7. /\ NpmChecks \in Seq(S) /\ PythonChecks \in Seq(S) /\ MakeChecks \in Seq(S)
      /\ last \in Seq(S)
  BY <1>1, <1>2, <1>3, <1>4, <1>5
<1>8. AllChecks \in Seq(S) /\ Len(AllChecks) = 13
  <2>1. ASSUME NEW a \in Seq(S), NEW b \in Seq(S), NEW c \in Seq(S), NEW d \in Seq(S),
               Len(a) = 4, Len(b) = 4, Len(c) = 4, Len(d) = 1
        PROVE  ((a \o b) \o c) \o d \in Seq(S) /\ Len(((a \o b) \o c) \o d) = 13
    <3>1. a \o b \in Seq(S) /\ Len(a \o b) = Len(a) + Len(b)
      BY ConcatIn, Zenon
    <3>2. /\ (a \o b) \o c \in Seq(S)
          /\ Len((a \o b) \o c) = Len(a \o b) + Len(c)
      BY <3>1, ConcatIn, Zenon
    <3>3. /\ ((a \o b) \o c) \o d \in Seq(S)
          /\ Len(((a \o b) \o c) \o d) = Len((a \o b) \o c) + Len(d)
      BY <3>2, ConcatIn, Zenon
    <3> QED
      BY <2>1, <3>1, <3>2, <3>3
  <2> QED
    BY <1>1, <1>2, <1>3, <1>4, <1>6, <1>7, <2>1, Zenon
<1>9. \A i \in 1 .. Len(AllChecks) : AllChecks[i] \in Check
  BY <1>8 DEF Check
<1> QED
  BY <1>8, <1>9, SeqOf

LEMMA DetectedAreChecks ==
  ASSUME NEW repo
  PROVE  DetectedChecks(repo) \in Seq(Check) /\ Len(DetectedChecks(repo)) <= 13
<1> DEFINE wanted == {check \in Check : Asks(repo, check)}
<1> HIDE DEF wanted
<1>1. Keeps(AllChecks, wanted, Check, Filter(AllChecks, wanted), Len(AllChecks))
  BY ChecksAreListed, FilterKeeps
<1> QED
  BY <1>1, ChecksAreListed DEF DetectedChecks, Keeps, wanted

LEMMA CatalogIsListed == Catalog \in Seq(AgentId) /\ Len(Catalog) = 7
<1>1. AgentId = {"claude-code", "codex-cli", "github-copilot-cli", "opencode",
                 "gemini-cli", "cursor-cli", "ollama-qwen"}
  BY DEF AgentId, Catalog
<1> QED
  BY <1>1 DEF Catalog

LEMMA InitWorkInv == Init => WorkInv
<1> SUFFICES ASSUME Init PROVE WorkInv
  OBVIOUS
<1>1. /\ lane["main"].at = 1 /\ lane["main"].step = "start"
      /\ \A t \in Tools : lane[t].at = 1
  BY LanesApart DEF Init
<1>2. todo \in Seq(AgentId \union Check) /\ Len(todo) \in Nat /\ Len(todo) <= 13
  <2>1. CASE todo = Catalog
    <3>1. Catalog \in Seq(AgentId \union Check) /\ Len(Catalog) = 7
      BY CatalogIsListed
    <3> QED
      BY <2>1, <3>1
  <2>2. CASE todo = <<>>
    BY <2>2
  <2> QED
    BY <2>1, <2>2 DEF Init
<1>3. results = <<>> /\ DOMAIN child = {} /\ present = {} /\ outcome = "none"
  BY DEF Init
<1>4. ItemsInv
  <2>1. Len(todo) \in Nat /\ Len(todo) <= 13 /\ 1 <= Len(todo) + 1
    BY <1>2
  <2>2. results \in Seq(Result)
    BY <1>3
  <2> QED
    BY <1>1, <1>2, <2>1, <2>2 DEF ItemsInv
<1>5. program = "verify" => todo = <<>>
  BY DEF Init
<1>6. VerifyInv
  BY <1>1, <1>3, <1>5 DEF VerifyInv
<1>7. AgentsInv /\ DoctorInv
  BY <1>3 DEF AgentsInv, DoctorInv, Init
<1>8. KindsInv
  BY DEF Init, KindsInv
<1> QED
  BY <1>4, <1>6, <1>7, <1>8 DEF WorkInv

(* The handlers of the children move no lane on and start no child.        *)
LEMMA HandlerWork ==
  ASSUME WorkInv, UNCHANGED <<program, todo, present, results, asked, routing, outcome>>,
         signal' \in {"none", "live", "aborted"}, DOMAIN child' \subseteq DOMAIN child,
         \A l \in Lanes : lane'[l].at = lane[l].at /\ lane'[l].step = lane[l].step
  PROVE  WorkInv'
<1>1. lane'["main"].at = lane["main"].at /\ lane'["main"].step = lane["main"].step
  BY LanesApart
<1>2. \A t \in Tools : lane'[t].at = lane[t].at /\ lane'[t].step = lane[t].step
  BY LanesApart
<1>3. ItemsInv' /\ KindsInv'
  BY <1>1, <1>2 DEF WorkInv, ItemsInv, KindsInv
<1>4. AgentsInv'
  BY <1>1 DEF WorkInv, AgentsInv
<1>5. VerifyInv'
  BY <1>1 DEF WorkInv, VerifyInv, AtEnd
<1>6. DoctorInv'
  BY <1>2 DEF WorkInv, DoctorInv, AllInspected
<1> QED
  BY <1>3, <1>4, <1>5, <1>6 DEF WorkInv

LEMMA AnswerStays ==
  ASSUME LaneInv, NEW c, NEW a \in Answers, Answer(c, a)
  PROVE  \A l \in Lanes : lane'[l].at = lane[l].at /\ lane'[l].step = lane[l].step
<1>1. IF Pending(c)
      THEN Becomes(LaneOf(c), lane[LaneOf(c)].at, lane[LaneOf(c)].step, a)
      ELSE UNCHANGED lane
  BY AnswerLane, LaneOfIsLane
<1> QED
  BY <1>1 DEF Becomes

LEMMA ChildrenWork ==
  ASSUME CallInv, WorkInv, Handler \/ Abort \/ \E c \in DOMAIN child : Exit(c)
  PROVE  WorkInv'
<1>0. LaneInv /\ KindsInv
  BY DEF CallInv, WorkInv
<1>1. ASSUME NEW c \in DOMAIN child, Timer(c) PROVE WorkInv'
  <2>1. /\ UNCHANGED <<program, todo, signal, present, results, asked, routing, outcome>>
        /\ DOMAIN child' = DOMAIN child
        /\ UNCHANGED lane \/ Answer(c, "bad")
    BY <1>1 DEF Timer, found, route
  <2>2. \A l \in Lanes : lane'[l].at = lane[l].at /\ lane'[l].step = lane[l].step
    BY <1>0, <2>1, AnswerStays DEF Answers
  <2> QED
    BY <1>0, <2>1, <2>2, HandlerWork DEF KindsInv
<1>2. ASSUME NEW c \in DOMAIN child, Fail(c) PROVE WorkInv'
  <2>1. /\ UNCHANGED <<program, todo, signal, present, results, asked, routing, outcome>>
        /\ DOMAIN child' = DOMAIN child
        /\ Answer(c, "rejected") \/ Answer(c, "bad")
    BY <1>2 DEF Fail, found, route
  <2>2. \A l \in Lanes : lane'[l].at = lane[l].at /\ lane'[l].step = lane[l].step
    BY <1>0, <2>1, AnswerStays DEF Answers
  <2> QED
    BY <1>0, <2>1, <2>2, HandlerWork DEF KindsInv
<1>3. ASSUME NEW c \in DOMAIN child, Close(c) PROVE WorkInv'
  <2>1. /\ UNCHANGED <<program, todo, signal, present, results, asked, routing, outcome>>
        /\ DOMAIN child' \subseteq DOMAIN child
        /\ Answer(c, "ok") \/ Answer(c, "bad")
    BY <1>3 DEF Close, CloseAnswer, Exited, Without, found, route
  <2>2. \A l \in Lanes : lane'[l].at = lane[l].at /\ lane'[l].step = lane[l].step
    BY <1>0, <2>1, AnswerStays DEF Answers
  <2> QED
    BY <1>0, <2>1, <2>2, HandlerWork DEF KindsInv
<1>4. ASSUME NEW c \in DOMAIN child, Exit(c) PROVE WorkInv'
  <2>1. /\ UNCHANGED <<program, lane, todo, signal, present, results, asked, routing, outcome>>
        /\ DOMAIN child' \subseteq DOMAIN child
    BY <1>4 DEF Exit, Without, found, route
  <2> QED
    BY <1>0, <2>1, HandlerWork DEF KindsInv
<1>5. CASE Abort
  <2>1. /\ UNCHANGED <<program, lane, todo, present, results, asked, routing, outcome>>
        /\ signal' = "aborted" /\ DOMAIN child' = DOMAIN child
    BY <1>5 DEF Abort, found, route
  <2> QED
    BY <2>1, HandlerWork
<1> QED
  BY <1>1, <1>2, <1>3, <1>4, <1>5 DEF Handler

(* An item of the list is found at the place of main, when one is left.    *)
LEMMA PlaceInList ==
  ASSUME LaneInv, ItemsInv, ~AtEnd
  PROVE  lane["main"].at \in 1 .. Len(todo)
<1>1. lane["main"] \in LaneRec /\ Len(todo) \in Nat
  BY LanesApart DEF LaneInv, ItemsInv
<1>2. lane["main"].at \in Nat \ {0}
  BY <1>1 DEF LaneRec
<1> QED
  BY <1>1, <1>2 DEF AtEnd

LEMMA AgentsWork == ASSUME CallInv, WorkInv, AgentsStep PROVE WorkInv'
<1>1. LaneInv /\ ItemsInv /\ AgentsInv /\ KindsInv
  BY DEF CallInv, WorkInv
<1>2. program = "agents" /\ UNCHANGED <<program, todo, signal, results>>
  BY DEF AgentsStep, Find, ProbeAnswered, VersionAnswered, Route, Starts, found
<1>3. VerifyInv' /\ DoctorInv'
  BY <1>2 DEF VerifyInv, DoctorInv
<1>4. ASSUME NextItem \/ \E s \in {"probe", "version"} : Spawn("main", s),
             lane["main"].at \in 1 .. Len(todo)
      PROVE  ItemsInv'
  <2>1. \A t \in Tools : lane'[t] = lane[t]
    BY <1>1, <1>4, NextItemLane, SpawnLane, LanesApart
       DEF Becomes, NextItem, Steps, CallSteps
  <2>2. lane'["main"].at \in {lane["main"].at, lane["main"].at + 1}
    BY <1>1, <1>4, NextItemLane, SpawnLane, LanesApart
       DEF Becomes, NextItem, Steps, CallSteps
  <2>3. Len(todo) \in Nat
    BY <1>1 DEF ItemsInv
  <2>4. lane'["main"].at <= Len(todo) + 1
    BY <1>4, <2>2, <2>3
  <2> QED
    BY <1>1, <1>2, <2>1, <2>4 DEF ItemsInv
<1>5. ASSUME NEW s \in {"probe", "version"}, Spawn("main", s),
             lane["main"].at \in 1 .. Len(todo)
      PROVE  DOMAIN child' \subseteq DetectionCalls
  <2>1. Item("main") \in AgentId
    BY <1>1, <1>2, <1>5, ItemIsAgent
  <2>2. DOMAIN child' = DOMAIN child \union {<<Item("main"), s>>}
    BY <1>1, <1>5, SpawnLane, LanesApart DEF CallSteps
  <2> QED
    BY <1>1, <1>2, <1>5, <2>1, <2>2 DEF AgentsInv, DetectionCalls
<1>6. CASE Find
  <2>1. outcome' = "none" /\ UNCHANGED <<present, asked, outcome>> /\ ~AtEnd
    BY <1>6 DEF Find, Starts, found, route
  <2>2. lane["main"].at \in 1 .. Len(todo)
    BY <1>1, <2>1, PlaceInList
  <2>3. \/ NextItem /\ UNCHANGED child
        \/ \E s \in {"probe", "version"} : Spawn("main", s)
    BY <1>6 DEF Find
  <2>4. ItemsInv'
    BY <1>4, <2>2, <2>3
  <2>5. DOMAIN child' \subseteq DetectionCalls
    BY <1>1, <1>2, <1>5, <2>2, <2>3 DEF AgentsInv
  <2>6. AgentsInv' /\ KindsInv'
    BY <1>1, <1>2, <2>1, <2>5 DEF AgentsInv, KindsInv
  <2> QED
    BY <1>3, <2>4, <2>6 DEF WorkInv
<1>7. CASE ProbeAnswered
  <2>1. UNCHANGED <<present, asked, outcome>> /\ lane["main"].step = "probe"
    BY <1>7 DEF ProbeAnswered, Answered, found, route
  <2>2. lane["main"].at \in 1 .. Len(todo)
    BY <1>1, <2>1 DEF LaneInv
  <2>3. \/ NextItem /\ UNCHANGED child
        \/ \E s \in {"probe", "version"} : Spawn("main", s)
    BY <1>7 DEF ProbeAnswered
  <2>4. ItemsInv'
    BY <1>4, <2>2, <2>3
  <2>5. DOMAIN child' \subseteq DetectionCalls
    BY <1>1, <1>2, <1>5, <2>2, <2>3 DEF AgentsInv
  <2>6. outcome = "none"
    BY <1>1, <1>2, <2>1 DEF AgentsInv
  <2>7. AgentsInv' /\ KindsInv'
    BY <1>1, <1>2, <2>1, <2>5, <2>6 DEF AgentsInv, KindsInv
  <2> QED
    BY <1>3, <2>4, <2>7 DEF WorkInv
<1>8. CASE VersionAnswered
  <2>1. /\ UNCHANGED <<child, asked, outcome>> /\ lane["main"].step = "version"
        /\ present' = present \union {Item("main")} /\ NextItem
    BY <1>8 DEF VersionAnswered, Answered, route
  <2>2. lane["main"].at \in 1 .. Len(todo)
    BY <1>1, <2>1 DEF LaneInv
  <2>3. ItemsInv'
    BY <1>4, <2>1, <2>2
  <2>4. Item("main") \in AgentId
    BY <1>1, <1>2, <2>2, ItemIsAgent
  <2>5. outcome = "none"
    BY <1>1, <1>2, <2>1 DEF AgentsInv
  <2>6. AgentsInv' /\ KindsInv'
    BY <1>1, <1>2, <2>1, <2>4, <2>5 DEF AgentsInv, KindsInv
  <2> QED
    BY <1>3, <2>3, <2>6 DEF WorkInv
<1>9. CASE Route
  <2>1. /\ UNCHANGED <<lane, child, present>> /\ lane["main"].step = "start"
        /\ outcome = "none" /\ outcome' \in {"ok", "error"}
    BY <1>9 DEF Route, Starts, found
  <2>2. \/ asked' = asked /\ routing' = routing
        \/ asked' \in Requests /\ routing' = RouteAgents(asked', present')
    BY <1>9, <2>1 DEF Route, route
  <2>3. ItemsInv'
    BY <1>1, <1>2, <2>1 DEF ItemsInv
  <2>4. KindsInv'
    BY <1>1, <1>2, <2>1, <2>2 DEF KindsInv
  <2>5. CASE asked' \in Requests /\ routing' = RouteAgents(asked', present')
    BY <1>1, <1>2, <1>3, <2>1, <2>3, <2>4, <2>5 DEF WorkInv, AgentsInv
  <2>6. CASE asked' = asked /\ routing' = routing
    <3>1. asked = NoRequest
      BY <1>1, <1>2, <2>1 DEF AgentsInv
    <3> QED
      BY <1>1, <1>2, <1>3, <2>1, <2>3, <2>4, <2>6, <3>1 DEF WorkInv, AgentsInv
  <2> QED
    BY <2>2, <2>5, <2>6
<1> QED
  BY <1>6, <1>7, <1>8, <1>9 DEF AgentsStep

LEMMA VerifyWork == ASSUME CallInv, WorkInv, VerifyStep PROVE WorkInv'
<1>1. LaneInv /\ ItemsInv /\ VerifyInv /\ KindsInv
  BY DEF CallInv, WorkInv
<1>2. program = "verify" /\ UNCHANGED <<program, signal, present, asked>>
  BY DEF VerifyStep, Detect, StartCheck, CheckAnswered, Report, Starts, found, route
<1>3. AgentsInv' /\ DoctorInv'
  BY <1>2 DEF AgentsInv, DoctorInv
<1>4. /\ todo \in Seq(Check) /\ Len(todo) \in Nat /\ Len(todo) <= 13
      /\ lane["main"].at <= Len(todo) + 1 /\ lane["main"].at \in Nat \ {0}
      /\ \A t \in Tools : lane[t].at = 1
      /\ results \in Seq(Result) /\ Len(results) = lane["main"].at - 1
  BY <1>1, <1>2, LanesApart DEF ItemsInv, VerifyInv, LaneInv, LaneRec
<1>5. ASSUME NEW at, NEW s, NEW a, Becomes("main", at, s, a)
      PROVE  \A t \in Tools : lane'[t].at = 1
  BY <1>4, <1>5, LanesApart DEF Becomes
<1>6. CASE Detect
  <2>1. /\ outcome = "none" /\ lane["main"].step = "start" /\ lane["main"].at = 1
        /\ UNCHANGED <<child, results>>
    BY <1>1, <1>2, <1>6 DEF Detect, Starts, VerifyInv, found
  <2>2. CASE outcome' = "error" /\ UNCHANGED <<lane, todo>>
    BY <1>1, <1>2, <1>3, <2>1, <2>2 DEF WorkInv, ItemsInv, VerifyInv, KindsInv
  <2>3. CASE UNCHANGED outcome
    <3>1. PICK repo : todo' = DetectedChecks(repo) /\ Goto("main", "next")
      BY <1>6, <2>1, <2>3 DEF Detect
    <3>2. Becomes("main", 1, "next", "none")
      BY <1>1, <2>1, <3>1, GotoLane, LanesApart DEF Steps
    <3>3. todo' \in Seq(Check) /\ Len(todo') \in Nat /\ Len(todo') <= 13
      BY <3>1, DetectedAreChecks
    <3>4. todo' \in Seq(AgentId \union Check)
      BY <3>3
    <3>5. /\ lane'["main"].at = 1 /\ lane'["main"].step = "next"
          /\ \A t \in Tools : lane'[t].at = 1
      BY <1>5, <3>2 DEF Becomes
    <3>6. ItemsInv'
      BY <1>4, <2>1, <3>3, <3>4, <3>5 DEF ItemsInv
    <3>7. Len(results) = 0 /\ 1 .. Len(results) = {}
      BY <1>4, <2>1
    <3>8. VerifyInv' /\ KindsInv'
      BY <1>1, <1>2, <2>1, <2>3, <3>3, <3>5, <3>7 DEF VerifyInv, KindsInv
    <3> QED
      BY <1>3, <3>6, <3>8 DEF WorkInv
  <2> QED
    BY <1>6, <2>2, <2>3 DEF Detect
<1>7. CASE StartCheck
  <2>1. /\ lane["main"].step = "next" /\ ~AtEnd /\ Spawn("main", "check")
        /\ UNCHANGED <<todo, results, outcome>>
    BY <1>7 DEF StartCheck, found
  <2>2. /\ Becomes("main", lane["main"].at, "check", "pending")
        /\ DOMAIN child' = DOMAIN child \union {<<Item("main"), "check">>}
    BY <1>1, <2>1, SpawnLane, LanesApart DEF CallSteps
  <2>3. /\ lane'["main"].at = lane["main"].at /\ lane'["main"].step = "check"
        /\ \A t \in Tools : lane'[t].at = 1
    BY <1>5, <2>2 DEF Becomes
  <2>4. Item("main") \in Check
    BY <1>1, <1>4, <2>1, PlaceInList DEF Item
  <2>5. DOMAIN child' \subseteq CheckCalls
    BY <1>1, <1>2, <2>2, <2>4 DEF VerifyInv, CheckCalls
  <2>6. ~AtEnd' /\ outcome # "ok"
    BY <1>1, <1>2, <2>1, <2>3 DEF AtEnd, VerifyInv
  <2>7. ItemsInv'
    BY <1>1, <2>1, <2>3 DEF ItemsInv
  <2>8. VerifyInv' /\ KindsInv'
    BY <1>1, <1>2, <2>1, <2>3, <2>5, <2>6 DEF VerifyInv, KindsInv
  <2> QED
    BY <1>3, <2>7, <2>8 DEF WorkInv
<1>8. CASE CheckAnswered
  <2> DEFINE new == [name |-> Item("main"), passed |-> lane["main"].answer = "ok"]
  <2>1. /\ lane["main"].step = "check" /\ results' = Append(results, new)
        /\ UNCHANGED <<todo, child, outcome>>
        /\ lane' = [lane EXCEPT !["main"] = [at |-> @.at + 1, step |-> "next",
                                              answer |-> "none"]]
    BY <1>8 DEF CheckAnswered, Answered
  <2>2. Becomes("main", lane["main"].at + 1, "next", "none")
    BY <1>1, <2>1, NextItemLane DEF Steps
  <2>3. /\ lane'["main"].at = lane["main"].at + 1 /\ lane'["main"].step = "next"
        /\ \A t \in Tools : lane'[t].at = 1
    BY <1>5, <2>2 DEF Becomes
  <2>4. ~AtEnd /\ outcome # "ok"
    BY <1>1, <1>2, <2>1 DEF VerifyInv
  <2>5. lane["main"].at \in 1 .. Len(todo)
    BY <1>1, <2>4, PlaceInList
  <2>6. new \in Result /\ new.name = todo[lane["main"].at]
    BY <1>4, <2>5 DEF Result, Item
  <2> HIDE DEF new
  <2>7. /\ results' \in Seq(Result) /\ Len(results') = lane["main"].at
        /\ results'[lane["main"].at] = new
        /\ \A i \in 1 .. Len(results) : results'[i] = results[i]
    BY <1>4, <2>1, <2>6
  <2>8. ASSUME NEW i \in 1 .. Len(results') PROVE results'[i].name = todo[i]
    <3>1. CASE i = lane["main"].at
      BY <2>6, <2>7, <3>1
    <3>2. CASE i # lane["main"].at
      <4>1. i \in 1 .. Len(results)
        BY <1>4, <2>7, <3>2
      <4> QED
        BY <1>1, <1>2, <2>7, <4>1 DEF VerifyInv
    <3> QED
      BY <3>1, <3>2
  <2>9. lane'["main"].at <= Len(todo) + 1 /\ Len(results') = lane'["main"].at - 1
    BY <1>4, <2>3, <2>5, <2>7
  <2>10. ItemsInv'
    BY <1>1, <2>1, <2>3, <2>7, <2>9 DEF ItemsInv
  <2>11. VerifyInv' /\ KindsInv'
    BY <1>1, <1>2, <2>1, <2>3, <2>4, <2>8, <2>9 DEF VerifyInv, KindsInv
  <2> QED
    BY <1>3, <2>10, <2>11 DEF WorkInv
<1>9. CASE Report
  <2>1. /\ lane["main"].step = "next" /\ AtEnd /\ outcome' = "ok"
        /\ UNCHANGED <<lane, todo, child, results>>
    BY <1>9 DEF Report, NoCheckLeft, found
  <2>2. ItemsInv' /\ KindsInv'
    BY <1>1, <1>2, <2>1 DEF ItemsInv, KindsInv
  <2>3. VerifyInv'
    BY <1>1, <1>2, <2>1 DEF VerifyInv, AtEnd
  <2> QED
    BY <1>3, <2>2, <2>3 DEF WorkInv
<1> QED
  BY <1>6, <1>7, <1>8, <1>9 DEF VerifyStep

LEMMA DoctorWork == ASSUME CallInv, WorkInv, DoctorStep PROVE WorkInv'
<1>1. LaneInv /\ ItemsInv /\ DoctorInv /\ KindsInv
  BY DEF CallInv, WorkInv
<1>2. program = "doctor" /\ UNCHANGED <<program, todo, signal, results, asked>>
  BY DEF DoctorStep, Locate, Located, Inspected, Tell, Throw, found, route
<1>3. AgentsInv' /\ VerifyInv'
  BY <1>2 DEF AgentsInv, VerifyInv
<1>4. ASSUME NEW t \in Tools, NEW s, NEW a, Becomes(t, lane[t].at, s, a) PROVE ItemsInv'
  <2>1. lane'["main"] = lane["main"] /\ \A u \in Tools : lane'[u].at = lane[u].at
    BY <1>4, LanesApart DEF Becomes
  <2> QED
    BY <1>1, <1>2, <2>1 DEF ItemsInv
<1>5. ASSUME NEW t \in Tools, NEW s \in {"locate", "version"}, Spawn(t, s)
      PROVE  ItemsInv' /\ DOMAIN child' \subseteq ToolCalls
  <2>1. /\ Becomes(t, lane[t].at, s, "pending")
        /\ DOMAIN child' = DOMAIN child \union {<<Item(t), s>>}
    BY <1>1, <1>5, SpawnLane, LanesApart DEF CallSteps
  <2>2. Item(t) = t
    BY LanesApart DEF Item
  <2> QED
    BY <1>1, <1>2, <1>4, <2>1, <2>2 DEF DoctorInv, ToolCalls
<1>6. ASSUME NEW t \in Tools, NEW s \in Steps, Goto(t, s) PROVE ItemsInv'
  <2>1. Becomes(t, lane[t].at, s, "none")
    BY <1>1, <1>6, GotoLane, LanesApart
  <2> QED
    BY <1>4, <2>1
<1>7. ASSUME NEW t \in Tools, lane[t].step # "done" PROVE outcome # "ok"
  BY <1>1, <1>2, <1>7 DEF DoctorInv, AllInspected
<1>8. ASSUME ItemsInv', DOMAIN child' \subseteq ToolCalls, outcome' = outcome,
             outcome # "ok", present' \subseteq Tools
      PROVE  WorkInv'
  BY <1>1, <1>2, <1>3, <1>8 DEF WorkInv, DoctorInv, KindsInv
<1>9. DOMAIN child \subseteq ToolCalls /\ present \subseteq Tools
  BY <1>1, <1>2 DEF DoctorInv
<1>10. ASSUME NEW t \in Tools, Locate(t) PROVE WorkInv'
  <2>1. lane[t].step = "start" /\ Spawn(t, "locate") /\ UNCHANGED <<present, outcome>>
    BY <1>10 DEF Locate, found
  <2> QED
    BY <1>5, <1>7, <1>8, <1>9, <2>1
<1>11. ASSUME NEW t \in Tools, Located(t) PROVE WorkInv'
  <2>1. lane[t].step = "locate" /\ outcome' = outcome
    BY <1>11 DEF Located, Answered
  <2>2. outcome # "ok"
    BY <1>7, <2>1
  <2>3. CASE present' = present \union {t} /\ Spawn(t, "version")
    BY <1>5, <1>8, <1>9, <2>1, <2>2, <2>3
  <2>4. CASE Goto(t, "done") /\ UNCHANGED <<present, child>>
    BY <1>6, <1>8, <1>9, <2>1, <2>2, <2>4 DEF Steps
  <2> QED
    BY <1>11, <2>3, <2>4 DEF Located
<1>12. ASSUME NEW t \in Tools, Inspected(t) PROVE WorkInv'
  <2>1. /\ lane[t].step = "version" /\ UNCHANGED <<child, present, outcome>>
        /\ \E s \in {"done", "thrown"} : Goto(t, s)
    BY <1>12 DEF Inspected, Answered, found
  <2> QED
    BY <1>6, <1>7, <1>8, <1>9, <2>1 DEF Steps
<1>13. CASE Tell
  <2>1. AllInspected /\ outcome' = "ok" /\ UNCHANGED <<lane, child, present>>
    BY <1>13 DEF Tell, found
  <2> QED
    BY <1>1, <1>2, <1>3, <2>1 DEF WorkInv, ItemsInv, DoctorInv, KindsInv, AllInspected
<1>14. CASE Throw
  <2>1. outcome' = "error" /\ UNCHANGED <<lane, child, present>>
    BY <1>14 DEF Throw, found
  <2> QED
    BY <1>1, <1>2, <1>3, <2>1 DEF WorkInv, ItemsInv, DoctorInv, KindsInv
<1> QED
  BY <1>10, <1>11, <1>12, <1>13, <1>14 DEF DoctorStep

LEMMA NextWorkInv == CallInv /\ WorkInv /\ [Next]_vars => WorkInv'
<1> SUFFICES ASSUME CallInv, WorkInv, [Next]_vars PROVE WorkInv'
  OBVIOUS
<1>1. CASE Handler \/ Abort \/ \E c \in DOMAIN child : Exit(c)
  BY <1>1, ChildrenWork
<1>2. CASE AgentsStep \/ VerifyStep \/ DoctorStep
  BY <1>2, AgentsWork, VerifyWork, DoctorWork
<1>3. CASE UNCHANGED vars
  BY <1>3 DEF vars, found, route, WorkInv, ItemsInv, AgentsInv, VerifyInv, DoctorInv,
              KindsInv, AtEnd, AllInspected
<1> QED
  BY <1>1, <1>2, <1>3 DEF Next, EventLoop, Ended

-----------------------------------------------------------------------------

LEMMA WorkInvariant == Spec => [](CallInv /\ WorkInv)
  BY InitCallInv, InitWorkInv, NextCallInv, NextWorkInv, PTL DEF Spec

(* Types, for any tools and repositories; the place of main stays within   *)
(* 1 .. 14, as no repository asks for more than the thirteen checks        *)
(* (commands.ts:26-103).                                                   *)
THEOREM CallTypes == Spec => []TypeOK
<1>1. ASSUME CallInv, WorkInv PROVE TypeOK
  <2>1. LaneInv /\ ChildInv /\ ItemsInv /\ KindsInv
    BY <1>1 DEF CallInv, WorkInv
  <2>2. lane \in [Lanes -> Lane]
    <3>1. ASSUME NEW l \in Lanes PROVE lane[l] \in Lane
      <4>1. lane[l] \in LaneRec
        BY <2>1 DEF LaneInv
      <4>2. Len(todo) \in Nat /\ Len(todo) <= 13
        BY <2>1 DEF ItemsInv
      <4>3. lane[l].at = 1 \/ lane[l].at <= Len(todo) + 1
        BY <2>1 DEF ItemsInv, Lanes
      <4>4. lane[l].at \in Nat \ {0} /\ lane[l].step \in Steps /\ lane[l].answer \in Answers
        BY <4>1 DEF LaneRec
      <4>5. lane[l].at \in 1 .. 14
        <5>1. ASSUME NEW at \in Nat \ {0}, NEW n \in Nat, n <= 13, at = 1 \/ at <= n + 1
              PROVE  at \in 1 .. 14
          BY <5>1
        <5> QED
          BY <4>2, <4>3, <4>4, <5>1, Zenon
      <4> QED
        BY <4>1, <4>4, <4>5 DEF LaneRec, Lane, Steps, Answers
    <3> QED
      BY <2>1, <3>1 DEF LaneInv
  <2>3. \A i \in DOMAIN todo : todo[i] \in AgentId \union Check
    BY <2>1 DEF ItemsInv
  <2>4. \A i \in DOMAIN results : results[i] \in [name : Check, passed : BOOLEAN]
    <3>1. results \in Seq(Result)
      BY <2>1 DEF ItemsInv
    <3>2. \A i \in DOMAIN results : results[i] \in Result
      BY <3>1
    <3> QED
      BY <3>2 DEF Result
  <2>5. program \in {"agents", "verify", "doctor"}
    BY <2>1 DEF KindsInv
  <2>6. DOMAIN child \subseteq Calls /\ present \subseteq AgentId \union Tools
    BY <1>1, <2>5 DEF WorkInv, AgentsInv, VerifyInv, DoctorInv, Calls
  <2> QED
    BY <2>1, <2>2, <2>3, <2>4, <2>5, <2>6 DEF TypeOK, ChildInv, KindsInv
<1> QED
  BY <1>1, WorkInvariant, PTL

(* Checks never overlap, whatever the repository asks for and however long *)
(* a check that was told to stop goes on (commands.ts:110-113): the child  *)
(* of a check that still runs is the one main waits for, and main waits    *)
(* for one call at a time.                                                 *)
THEOREM ChecksInTurn == Spec => []ChecksOneAtATime
<1>1. ASSUME CallInv PROVE ChecksOneAtATime
  <2> DEFINE running == {c \in DOMAIN child : c \in CheckCalls /\ child[c].os = "running"}
             awaited == <<Item("main"), lane["main"].step>>
  <2>1. ASSUME NEW c \in running PROVE c = awaited
    <3>1. c \notin DetectionCalls /\ c \notin ToolCalls
      BY DEF CheckCalls, DetectionCalls, ToolCalls
    <3>2. Pending(c)
      BY <1>1, <3>1 DEF CallInv, ChildInv
    <3> QED
      BY <3>1, <3>2 DEF Pending, LaneOf
  <2>2. IsFiniteSet({awaited}) /\ Cardinality({awaited}) = 1
    BY FS_Singleton
  <2>3. running \in SUBSET {awaited}
    BY <2>1
  <2>4. Cardinality(running) <= 1
    <3> HIDE DEF running, awaited
    <3> QED
      BY <2>2, <2>3, FS_Subset
  <2> QED
    BY <2>4 DEF ChecksOneAtATime
<1> QED
  BY <1>1, WorkInvariant, PTL

(* A doctor or a verification that says it is done leaves no child running *)
(* and no timer armed (doctor.ts:37, commands.ts:110).                     *)
THEOREM DoneIsDone == Spec => []DoneLeavesNothing
<1>1. ASSUME CallInv, WorkInv PROVE DoneLeavesNothing
  <2> SUFFICES ASSUME program # "agents", outcome = "ok", NEW c \in DOMAIN child
               PROVE  child[c].os # "running" /\ ~child[c].armed
    BY DEF DoneLeavesNothing
  <2>1. LaneInv /\ ChildInv /\ KindsInv
    BY <1>1 DEF CallInv, WorkInv
  <2>2. c \notin DetectionCalls /\ ~Pending(c)
    <3>1. CASE program = "verify"
      <4>1. c \in CheckCalls /\ lane["main"].step = "next"
        BY <1>1, <3>1 DEF WorkInv, VerifyInv
      <4>2. c \notin DetectionCalls /\ LaneOf(c) = "main"
        BY <4>1 DEF CheckCalls, DetectionCalls, ToolCalls, LaneOf
      <4> QED
        BY <2>1, <4>1, <4>2, LanesApart DEF LaneInv, CallSteps, Pending
    <3>2. CASE program = "doctor"
      <4>1. c \in ToolCalls /\ AllInspected
        BY <1>1, <3>2 DEF WorkInv, DoctorInv
      <4>2. LaneOf(c) \in Tools /\ c \notin DetectionCalls
        BY <4>1, CallsAssumption DEF LaneOf, ToolCalls, DetectionCalls
      <4>3. lane[LaneOf(c)].step = "done"
        BY <4>1, <4>2 DEF AllInspected
      <4> QED
        BY <2>1, <4>2, <4>3, LanesApart DEF LaneInv, CallSteps, Pending
    <3> QED
      BY <2>1, <3>1, <3>2 DEF KindsInv
  <2> QED
    BY <2>1, <2>2 DEF ChildInv, NoCallUnattended
<1> QED
  BY <1>1, WorkInvariant, PTL

(* The report is about the detected checks, in their order, and complete   *)
(* when the runner is done, however many checks fail (commands.ts:107-115, *)
(* docs/run.md:66): main has a result for each item before its place.      *)
THEOREM ChecksReported == Spec => []EveryCheckReported
<1>1. ASSUME CallInv, WorkInv PROVE EveryCheckReported
  <2> SUFFICES ASSUME program = "verify"
               PROVE  /\ \A i \in DOMAIN results : results[i].name = todo[i]
                      /\ outcome = "ok" => Len(results) = Len(todo)
    BY DEF EveryCheckReported
  <2>1. LaneInv /\ ItemsInv /\ VerifyInv
    BY <1>1 DEF CallInv, WorkInv
  <2>2. DOMAIN results = 1 .. Len(results)
    BY <2>1 DEF ItemsInv
  <2>3. ASSUME outcome = "ok" PROVE Len(results) = Len(todo)
    <3>1. /\ lane["main"].at > Len(todo) /\ lane["main"].at <= Len(todo) + 1
          /\ Len(results) = lane["main"].at - 1
      BY <2>1, <2>3 DEF VerifyInv, ItemsInv, AtEnd
    <3>2. lane["main"].at \in Nat /\ Len(todo) \in Nat
      BY <2>1, LanesApart DEF LaneInv, LaneRec, ItemsInv
    <3> QED
      BY <3>1, <3>2
  <2> QED
    BY <2>1, <2>2, <2>3 DEF VerifyInv
<1> QED
  BY <1>1, WorkInvariant, PTL

(* Routing leaves out no agent it could use, for every request that names  *)
(* none and has a limit in range, and every set of installed agents        *)
(* (routing.ts:66-115, 148-157, catalog.ts:37-157).                        *)
THEOREM RoutingIsComplete == Spec => []RoutingLeavesOutNone
<1>1. ASSUME WorkInv PROVE RoutingLeavesOutNone
  <2> DEFINE task == TaskOf(asked)
             sel == Selected(asked, task, present)
             fitting == Fit(asked, task, present)
  <2> SUFFICES ASSUME Routed, asked.requested = <<>>,
                      asked.maxAgents \in 1 .. MaxAgentsPerTask
               PROVE  IF routing.made
                      THEN /\ Chosen \subseteq fitting
                           /\ Len(routing.selected) < asked.maxAgents => Chosen = fitting
                      ELSE fitting = {}
    BY DEF RoutingLeavesOutNone, Installed
  <2>1. present \subseteq AgentId /\ routing = RouteAgents(asked, present)
    BY <1>1 DEF WorkInv, AgentsInv, Routed
  <2>2. task \in AllTasks
    BY TaskIsKnown
  <2>3. /\ sel \in Seq(AgentId)
        /\ \A i \in 1 .. Len(sel) : sel[i] \in fitting
        /\ Len(sel) < asked.maxAgents =>
             \A id \in fitting : \E i \in 1 .. Len(sel) : sel[i] = id
        /\ sel = <<>> => fitting = {}
    BY <2>1, <2>2, SelectsFitting
  <2>4. present = {} => fitting = {}
    BY DEF Fit
  <2>5. IF present = {} \/ sel = <<>> THEN ~routing.made
        ELSE routing.made /\ routing.selected = sel
    BY <2>1 DEF RouteAgents, NoRoute, TaskOf
  <2>6. DOMAIN sel = 1 .. Len(sel)
    BY <2>3
  <2> HIDE DEF task, sel, fitting
  <2> QED
    BY <2>3, <2>4, <2>5, <2>6 DEF Chosen
<1> QED
  BY <1>1, WorkInvariant, PTL

(* Claude Code coordinates whenever it is installed and not ruled out by   *)
(* name: it fits every task and comes first in every list, so no limit     *)
(* cuts it off (docs/adapters.md:29, routing.ts:122).                      *)
THEOREM ClaudeFirst == Spec => []ClaudeCoordinates
<1>1. ASSUME WorkInv PROVE ClaudeCoordinates
  <2> DEFINE task == TaskOf(asked)
             sel == Selected(asked, task, present)
  <2> SUFFICES ASSUME Routed, routing.made, "claude-code" \in present,
                      asked.requested = <<>>
               PROVE  routing.coordinator = "claude-code"
    BY DEF ClaudeCoordinates, Installed
  <2>1. present \subseteq AgentId /\ routing = RouteAgents(asked, present)
    BY <1>1 DEF WorkInv, AgentsInv, Routed
  <2>2. asked.maxAgents \in 1 .. MaxAgentsPerTask
    BY <2>1 DEF RouteAgents, NoRoute
  <2>3. "claude-code" \in Fit(asked, task, present) /\ task \in AllTasks
    BY TaskIsKnown, ClaudeFits
  <2>4. sel \in Seq(AgentId) /\ \E i \in 1 .. Len(sel) : sel[i] = "claude-code"
    BY <2>1, <2>2, <2>3, SelectsFitting
  <2>5. Coordinator(sel) = "claude-code"
    BY <2>4 DEF Coordinator
  <2>6. routing.coordinator = Coordinator(sel)
    BY <2>1 DEF RouteAgents, NoRoute, TaskOf
  <2> QED
    BY <2>5, <2>6
<1> QED
  BY <1>1, WorkInvariant, PTL

=============================================================================
