----------------------------- MODULE CallSafety -----------------------------
(***************************************************************************)
(* What the commands that wait for other programs guarantee: properties of *)
(* ChildCalls.                                                             *)
(***************************************************************************)
EXTENDS ChildCalls

Child == [os : {"failed", "running", "exited"}, code : {"none", "zero", "other"},
          stop : BOOLEAN, armed : BOOLEAN, listening : BOOLEAN]
Lane == [at : 1 .. 14, answer : {"none", "pending", "ok", "bad", "rejected"},
         step : {"start", "probe", "version", "next", "check", "locate", "done",
                 "thrown"}]

TypeOK ==
  /\ program \in {"agents", "verify", "doctor"}
  /\ lane \in [Lanes -> Lane]
  /\ \A i \in DOMAIN todo : todo[i] \in AgentId \union Check
  /\ DOMAIN child \subseteq Calls /\ \A c \in DOMAIN child : child[c] \in Child
  /\ signal \in {"none", "live", "aborted"}
  /\ present \subseteq AgentId \union Tools
  /\ \A i \in DOMAIN results : results[i] \in [name : Check, passed : BOOLEAN]
  /\ asked \in Requests \union {NoRequest}
  /\ outcome \in {"none", "ok", "error"}

-----------------------------------------------------------------------------

(* No call is ever left to itself: until a call is answered its timer is   *)
(* armed, its child has been told to stop, or its end is on the way; once  *)
(* it is answered no timer and no abort listener of it is left, which      *)
(* would keep the process alive or kill for nothing (process.ts:40-70,     *)
(* detection.ts:164-191, commands.ts:130-148).                             *)
NoCallUnattended ==
  \A c \in DOMAIN child :
    IF Pending(c)
    THEN child[c].armed \/ child[c].stop \/ child[c].os # "running"
    ELSE ~child[c].armed /\ ~child[c].listening

(* Checks never overlap: no check starts while the child of an earlier one *)
(* still runs, even one that ran out of time (commands.ts:110-113).        *)
ChecksOneAtATime ==
  Cardinality({c \in DOMAIN child : c \in CheckCalls /\ child[c].os = "running"}) <= 1

(* A doctor or a verification that says it is done leaves no child running *)
(* and no timer armed (doctor.ts:37, commands.ts:110).                     *)
DoneLeavesNothing ==
  program # "agents" /\ outcome = "ok" =>
    \A c \in DOMAIN child : child[c].os # "running" /\ ~child[c].armed

(* The report is about the detected checks, in their order, and complete   *)
(* when the runner is done: a failing check or one that ran out of time    *)
(* ends nothing (commands.ts:107-115, docs/run.md:66).                     *)
EveryCheckReported ==
  program = "verify" =>
    /\ \A i \in DOMAIN results : results[i].name = todo[i]
    /\ outcome = "ok" => Len(results) = Len(todo)

(* A check passes, and an agent's probe succeeds, only by an exit with 0   *)
(* of a child that had not been told to stop (commands.ts:146,             *)
(* detection.ts:131-137).                                                  *)
OkOnlyInTime ==
  [][\A c \in DOMAIN child \ ToolCalls :
       Pending(c) /\ lane'[LaneOf(c)].answer = "ok" =>
         child[c].code = "zero" /\ ~child[c].stop]_vars

-----------------------------------------------------------------------------

Installed == present
TaskOf(r) == IF r.task \in AllTasks THEN r.task ELSE ClassifyTask(r.prompt)
Chosen == {routing.selected[i] : i \in DOMAIN routing.selected}
Routed == program = "agents" /\ outcome # "none" /\ asked # NoRequest

(* Routing leaves out no agent it could use: unless agents were asked for  *)
(* by name, or the limit is out of range, it fails only if no installed    *)
(* agent fits the task, and below the limit it selects all that fit: the   *)
(* lists of routing.ts:148-157 name every agent that catalog.ts:37-157     *)
(* says fits.                                                              *)
RoutingLeavesOutNone ==
  Routed /\ asked.requested = <<>> /\ asked.maxAgents \in 1 .. MaxAgentsPerTask =>
    LET fitting == Fit(asked, TaskOf(asked), Installed)
    IN IF routing.made
       THEN /\ Chosen \subseteq fitting
            /\ Len(routing.selected) < asked.maxAgents => Chosen = fitting
       ELSE fitting = {}

(* Claude Code coordinates whenever it is installed and not ruled out by   *)
(* name, whatever else is installed and whatever limit is set: it comes    *)
(* first in every list and fits every task (docs/adapters.md:29).          *)
ClaudeCoordinates ==
  Routed /\ routing.made /\ "claude-code" \in Installed /\ asked.requested = <<>> =>
    routing.coordinator = "claude-code"

-----------------------------------------------------------------------------

(* apolo agents comes to its answer, whatever the CLIs it asks do: its     *)
(* timer settles each call (detection.ts:173-176). That is not yet the end *)
(* of the process: index.ts:4 only sets the exit code, and a CLI that has  *)
(* taken no notice of SIGTERM is still a child that node waits for.        *)
AgentsAnswer == program = "agents" => <>(outcome # "none")

(* Every one of the three commands, and its process, comes to an end if no *)
(* child runs for ever: the answer is there, every lane has come to its    *)
(* end, and no timer and no child is left that would keep node alive. The  *)
(* two others wait for the close even of a child that ran out of time      *)
(* (process.ts:40-70, commands.ts:130-148, doctor.ts:37).                  *)
SomeChildRuns == \E c \in DOMAIN child : child[c].os = "running"
EndsWithItsChildren == []<>(~SomeChildRuns) => <>Quiet

=============================================================================
