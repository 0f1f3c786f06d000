----------------------------- MODULE ChildCalls -----------------------------
(***************************************************************************)
(* The commands that ask other programs and wait for their answers:        *)
(*   agents  detectAgents, then routeAgents (src/agents/detection.ts,      *)
(*           routing.ts, runAgents of src/cli/router.ts);                  *)
(*   verify  CommandRunner.run (src/verification/commands.ts);             *)
(*   doctor  the tool inspections (src/cli/services/doctor.ts) through     *)
(*           runProcess (src/core/process.ts).                             *)
(*                                                                         *)
(* Each has a spawn helper of its own, with a timer, and the timer, an     *)
(* abort signal, the error event, the exit of the child and its close      *)
(* event race.  A child may answer, fail to start, take SIGTERM as it      *)
(* likes, or never end.  The event loop runs one handler at a time: every  *)
(* action is one handler, or the code between two awaits.                  *)
(*                                                                         *)
(* Time is left out: an armed timer may fire before or after anything      *)
(* else.  Output is reduced to the exit code it comes with.  Node reports  *)
(* a child that cannot be started with error first and close after it, and *)
(* is taken to be able to send SIGTERM to its own children.                *)
(***************************************************************************)
EXTENDS AgentRouting, FiniteSets

CONSTANTS Tools,     \* the tools doctor inspects
          Repos,     \* the repositories verify may be run in
          Requests,  \* the routing requests agents may be run with
          NoRequest, \* agents runs without --route
          MaxLeft    \* bound: an agent is found only while fewer children of
                     \* answered calls than this are still running

ASSUME CallsAssumption ==
  /\ Tools \subseteq STRING /\ Tools \intersect (AgentId \union {"main"}) = {}
  /\ MaxLeft \in Nat \ {0}
  /\ NoRequest \notin Requests /\ \A r \in Requests : r.maxAgents \in Nat

VARIABLES
  program,  \* the command that runs
  lane,     \* for each chain of awaits: where it is, and the answer it awaits
  todo,     \* the items the main lane goes through
  child,    \* the children that were started and whose close is to come
  signal,   \* the abort signal given to doctor
  present,  \* the agents, or tools, that were found
  results,  \* the verification results
  asked,    \* the routing request
  routing,  \* the routing decision
  outcome   \* how the command ended

found == <<present, results>>
route == <<asked, routing>>
vars == <<program, lane, todo, child, signal, found, route, outcome>>

-----------------------------------------------------------------------------
(* The checks a repository asks for: files it has, and checks these name.  *)

NpmChecks == <<"npm-lint", "npm-typecheck", "npm-build", "npm-test">>
PythonChecks == <<"python-ruff", "python-mypy", "python-pytest", "python-tests">>
MakeChecks == <<"make-lint", "make-typecheck", "make-build", "make-test">>
AllChecks == NpmChecks \o PythonChecks \o MakeChecks \o <<"safe-fallback">>

Asks(repo, check) ==
  LET In(list) == \E i \in DOMAIN list : list[i] = check
      python == repo.files \intersect {"pyproject.toml", "requirements.txt"} # {}
      pytest == python /\ "python-pytest" \in repo.names
  IN \/ In(NpmChecks) /\ "package.json" \in repo.files /\ check \in repo.names
     \/ In(PythonChecks) /\ check # "python-tests" /\ python /\ check \in repo.names
     \/ check = "python-tests" /\ "tests" \in repo.files /\ ~pytest
     \/ In(MakeChecks) /\ "Makefile" \in repo.files /\ check \in repo.names
     \/ check = "safe-fallback" /\ repo.files = {}

Check == {AllChecks[i] : i \in DOMAIN AllChecks}

DetectedChecks(repo) == Filter(AllChecks, {check \in Check : Asks(repo, check)})

-----------------------------------------------------------------------------
(* Calls, and the three helpers that make them.                            *)

Lanes == {"main"} \union Tools

DetectionCalls == AgentId \X {"probe", "version"}
CheckCalls == Check \X {"check"}
ToolCalls == Tools \X {"locate", "version"}
Calls == DetectionCalls \union CheckCalls \union ToolCalls

LaneOf(c) == IF c \in ToolCalls THEN c[1] ELSE "main"
Item(l) == IF l = "main" THEN todo[lane[l].at] ELSE l

(* The promise of call c has not been settled.                             *)
Pending(c) ==
  LET l == LaneOf(c)
  IN /\ lane[l].answer = "pending"
     /\ c = <<Item(l), lane[l].step>>

(* A promise is settled once: what comes later finds nobody waiting.       *)
Answer(c, a) ==
  lane' = IF Pending(c) THEN [lane EXCEPT ![LaneOf(c)].answer = a] ELSE lane

(* Lane l starts the call that is its step s of its item.                  *)
Spawn(l, s) ==
  \E starts \in BOOLEAN :
    LET c == <<Item(l), s>>
        new == [os |-> IF starts THEN "running" ELSE "failed", code |-> "none",
                stop |-> FALSE, armed |-> TRUE,
                listening |-> c \in ToolCalls /\ signal # "none"]
    IN /\ lane' = [lane EXCEPT ![l].step = s, ![l].answer = "pending"]
       /\ child' = [x \in DOMAIN child \union {c} |-> IF x = c THEN new ELSE child[x]]

Without(c) == [x \in DOMAIN child \ {c} |-> child[x]]

(* Mutations: every helper gives up at its timer, or none does.            *)
TimerAlwaysSettles(c) == TRUE
TimerNeverSettles(c) == FALSE

(* Whether the timer itself settles the promise.                           *)
TimerSettles(c) == c \in DetectionCalls

Timer(c) ==
  /\ child[c].armed /\ child[c].os # "failed"
  /\ child' = [child EXCEPT ![c].armed = FALSE, ![c].stop = TRUE]
  /\ IF TimerSettles(c) THEN Answer(c, "bad") ELSE UNCHANGED lane
  /\ UNCHANGED <<program, todo, signal, found, route, outcome>>

(* Mutation: the error handler leaves the timer and the listener alone.    *)
Uncleared(ch) == [ch EXCEPT !.os = "exited", !.code = "other"]

(* The error handler clears the timer and takes the abort listener away.   *)
Cleared(ch) == [ch EXCEPT !.os = "exited", !.code = "other",
                          !.armed = FALSE, !.listening = FALSE]

Fail(c) ==
  /\ child[c].os = "failed"
  /\ child' = [child EXCEPT ![c] = Cleared(@)]
  /\ Answer(c, IF c \in ToolCalls THEN "rejected" ELSE "bad")
  /\ UNCHANGED <<program, todo, signal, found, route, outcome>>

Exited(c) == IF child[c].code = "zero" THEN "ok" ELSE "bad"

(* Mutations: the timer forgotten, and the exit code handed on as it is.   *)
CloseAnswerByCode(c) == Exited(c)
CloseAnswerRaw(c) == child[c].code

(* What the close handler answers: a check that ran out of time is -1.     *)
CloseAnswer(c) == IF c[2] = "check" /\ child[c].stop THEN "bad" ELSE Exited(c)

(* The close event: a helper that settled before takes no notice of it.    *)
Close(c) ==
  /\ child[c].os = "exited"
  /\ Answer(c, CloseAnswer(c))
  /\ child' = Without(c)
  /\ UNCHANGED <<program, todo, signal, found, route, outcome>>

(* A child ends, by itself or after SIGTERM, with any exit code; the exit  *)
(* of one nobody waits for has no further effect.                          *)
Exit(c) ==
  /\ child[c].os = "running"
  /\ IF Pending(c)
     THEN \E code \in {"zero", "other"} :
            child' = [child EXCEPT ![c].os = "exited", ![c].code = code]
     ELSE child' = Without(c)
  /\ UNCHANGED <<program, lane, todo, signal, found, route, outcome>>

(* Whoever started doctor aborts it: every listener kills its child, once. *)
Abort ==
  /\ signal = "live" /\ signal' = "aborted"
  /\ child' = [c \in DOMAIN child |->
                 IF child[c].listening
                 THEN [child[c] EXCEPT !.stop = TRUE, !.listening = FALSE]
                 ELSE child[c]]
  /\ UNCHANGED <<program, lane, todo, found, route, outcome>>

-----------------------------------------------------------------------------

Init ==
  /\ program \in {"agents", "verify", "doctor"}
  /\ lane = [l \in Lanes |-> [at |-> 1, step |-> "start", answer |-> "none"]]
  /\ todo = IF program = "agents" THEN Catalog ELSE <<>>
  /\ child = <<>>
  /\ signal \in IF program = "doctor" THEN {"none", "live"} ELSE {"none"}
  /\ present = {} /\ results = <<>>
  /\ asked = NoRequest /\ routing = NoRoute
  /\ outcome = "none"

Goto(l, s) == lane' = [lane EXCEPT ![l].step = s, ![l].answer = "none"]
NextItem == lane' = [lane EXCEPT !["main"] = [at |-> @.at + 1, step |-> "start",
                                              answer |-> "none"]]

(* Main is at step s of an item, or l has the answer of its call s.        *)
Starts(p) == program = p /\ outcome = "none" /\ lane["main"].step = "start"
Answered(l, s) == lane[l].step = s /\ lane[l].answer \notin {"none", "pending"}
AtEnd == lane["main"].at > Len(todo)

-----------------------------------------------------------------------------
(* detectAgents: one provider after the other.                             *)

Find ==
  /\ Starts("agents") /\ ~AtEnd
  /\ \/ NextItem /\ UNCHANGED child
     \/ /\ Cardinality(DOMAIN child) < MaxLeft
        /\ Spawn("main", IF Item("main") \in Probed THEN "probe" ELSE "version")
  /\ UNCHANGED <<program, todo, signal, found, route, outcome>>

ProbeAnswered ==
  /\ program = "agents" /\ Answered("main", "probe")
  /\ IF lane["main"].answer = "ok"
     THEN Spawn("main", "version")
     ELSE NextItem /\ UNCHANGED child
  /\ UNCHANGED <<program, todo, signal, found, route, outcome>>

(* An agent counts as installed whether or not it tells its version.       *)
VersionAnswered ==
  /\ program = "agents" /\ Answered("main", "version")
  /\ present' = present \union {Item("main")}
  /\ NextItem
  /\ UNCHANGED <<program, todo, child, signal, results, route, outcome>>

Route ==
  /\ Starts("agents") /\ AtEnd
  /\ \/ UNCHANGED route /\ outcome' = "ok"
     \/ \E r \in Requests :
          /\ asked' = r /\ routing' = RouteAgents(r, present)
          /\ outcome' = IF routing'.made THEN "ok" ELSE "error"
  /\ UNCHANGED <<program, lane, todo, child, signal, found>>

-----------------------------------------------------------------------------
(* CommandRunner.run: one check after the other.                           *)

Detect ==
  /\ Starts("verify")
  /\ \E repo \in Repos :
       IF repo.broken
       THEN outcome' = "error" /\ UNCHANGED <<lane, todo>>
       ELSE /\ todo' = DetectedChecks(repo)
            /\ Goto("main", "next") /\ UNCHANGED outcome
  /\ UNCHANGED <<program, child, signal, found, route>>

StartCheck ==
  /\ program = "verify" /\ lane["main"].step = "next" /\ ~AtEnd
  /\ Spawn("main", "check")
  /\ UNCHANGED <<program, todo, signal, found, route, outcome>>

CheckAnswered ==
  /\ program = "verify" /\ Answered("main", "check")
  /\ results' = Append(results, [name |-> Item("main"),
                                 passed |-> lane["main"].answer = "ok"])
  /\ lane' = [lane EXCEPT !["main"] = [at |-> @.at + 1, step |-> "next",
                                       answer |-> "none"]]
  /\ UNCHANGED <<program, todo, child, signal, present, route, outcome>>

(* Mutation: a failed check ends the loop.                                 *)
NoCheckLeftOrFailed == AtEnd \/ \E i \in DOMAIN results : ~results[i].passed

(* It does not.                                                            *)
NoCheckLeft == AtEnd

Report ==
  /\ program = "verify" /\ outcome = "none" /\ lane["main"].step = "next"
  /\ NoCheckLeft
  /\ outcome' = "ok"
  /\ UNCHANGED <<program, lane, todo, child, signal, found, route>>

-----------------------------------------------------------------------------
(* doctor: one lane for each tool, under Promise.all.                      *)

Locate(t) ==
  /\ program = "doctor" /\ lane[t].step = "start" /\ Spawn(t, "locate")
  /\ UNCHANGED <<program, todo, signal, found, route, outcome>>

(* An error of the locator counts as a tool that is not there.             *)
Located(t) ==
  /\ program = "doctor" /\ Answered(t, "locate")
  /\ IF lane[t].answer = "ok"
     THEN present' = present \union {t} /\ Spawn(t, "version")
     ELSE Goto(t, "done") /\ UNCHANGED <<present, child>>
  /\ UNCHANGED <<program, todo, signal, results, route, outcome>>

Inspected(t) ==
  /\ program = "doctor" /\ Answered(t, "version")
  /\ Goto(t, IF lane[t].answer = "rejected" THEN "thrown" ELSE "done")
  /\ UNCHANGED <<program, todo, child, signal, found, route, outcome>>

(* Mutation: Promise.any in place of Promise.all.                          *)
AnyInspected == \E t \in Tools : lane[t].step = "done"

AllInspected == \A t \in Tools : lane[t].step = "done"

Tell ==
  /\ program = "doctor" /\ outcome = "none" /\ AllInspected
  /\ outcome' = "ok"
  /\ UNCHANGED <<program, lane, todo, child, signal, found, route>>

(* Mutation: only a failure of every inspection fails the command.         *)
ThrownByAll == \A t \in Tools : lane[t].step = "thrown"

(* The first version call that throws fails the command; the other lanes   *)
(* go on.                                                                  *)
Thrown == \E t \in Tools : lane[t].step = "thrown"

Throw ==
  /\ program = "doctor" /\ outcome = "none" /\ Thrown
  /\ outcome' = "error"
  /\ UNCHANGED <<program, lane, todo, child, signal, found, route>>

-----------------------------------------------------------------------------

(* What the event loop of node has to do, and what happens to it.          *)
Handler == \E c \in DOMAIN child : Timer(c) \/ Fail(c) \/ Close(c)
AgentsStep == Find \/ ProbeAnswered \/ VersionAnswered \/ Route
VerifyStep == Detect \/ StartCheck \/ CheckAnswered \/ Report
DoctorStep == \/ \E t \in Tools : Locate(t) \/ Located(t) \/ Inspected(t)
              \/ Tell \/ Throw
EventLoop == Handler \/ AgentsStep \/ VerifyStep \/ DoctorStep

Quiet == /\ outcome # "none" /\ DOMAIN child = {}
         /\ \A t \in Tools : program = "doctor" => lane[t].step \in {"done", "thrown"}

Ended == Quiet /\ UNCHANGED vars

Next == EventLoop \/ Abort \/ (\E c \in DOMAIN child : Exit(c)) \/ Ended

(* Handlers that are due are run; nothing is assumed of the children.      *)
Spec == Init /\ [][Next]_vars /\ WF_vars(EventLoop)

=============================================================================
