------------------------------ MODULE PlanFile ------------------------------
(***************************************************************************)
(* A plan file, from the planner to the gates of a run, as operators:      *)
(*   what goes into a plan   (src/planning/context.ts, adapter.ts);        *)
(*   the file that is made   (src/planning/artifact.ts);                   *)
(*   what a run makes of it  (src/run/plan.ts, security.ts).               *)
(*                                                                         *)
(* Of a file only what decides whether and how it runs is kept: the keys   *)
(* the loader looks for, the front matter, the list of steps.  Its prose,  *)
(* titles, objectives, commands and paths are left out, and so are the     *)
(* gates that read the prose of a step.                                    *)
(***************************************************************************)
EXTENDS Naturals, Sequences, FiniteSets

AtMost(n, limit) == IF n > limit THEN limit ELSE n

-----------------------------------------------------------------------------
(* The context pack.  A repository: whether config.json and package.json   *)
(* are "none", "object" (JSON with an object in it), "other" (JSON without *)
(* one) or "broken", the scripts and targets among lint, typecheck, build  *)
(* and test they have, the agent executables on the PATH, and whether      *)
(* every document, memory note and Makefile found could then be read.      *)

NoContext == [ok |-> FALSE, agents |-> 0, checks |-> 0]

(* Mutation: the list of the executables found is not cut.                 *)
AllAgentsIn(repo) == IF repo.onPath = 0 THEN 1 ELSE repo.onPath

(* With no executable found there is one agent, the default slot.          *)
AgentsIn(repo) == IF repo.onPath = 0 THEN 1 ELSE AtMost(repo.onPath, 5)

(* A config that is no object, and a package.json that is no JSON, throw.  *)
ConfigThrows(repo) == repo.config \in {"broken", "other"}
PackageThrows(repo) == repo.package = "broken"

BuildContextPack(repo) ==
  IF ConfigThrows(repo) \/ PackageThrows(repo) \/ ~repo.readable
  THEN NoContext
  ELSE [ok |-> TRUE, agents |-> AgentsIn(repo),
        checks |-> (IF repo.package = "object" THEN repo.scripts ELSE 0)
                   + repo.targets]

-----------------------------------------------------------------------------
(* The content of a plan: agents allocated, verification commands.         *)

NoContent == [agents |-> 0, checks |-> 0]

FallbackPlan(context) ==
  [agents |-> AtMost(context.agents, 5), checks |-> context.checks]

(* What Claude answers is used where it has the expected type.             *)
ClaudePlan(answer, context) ==
  [agents |-> IF answer.lists THEN AtMost(answer.agents, 5)
                              ELSE AtMost(context.agents, 5),
   checks |-> context.checks]

(* Prose, and JSON that does not parse, are no answer.                     *)
ParseClaudePlan(answer, context) ==
  IF answer.form = "json" THEN ClaudePlan(answer, context)
                          ELSE FallbackPlan(context)

-----------------------------------------------------------------------------
(* Files.                                                                  *)

(* Markdown: its front matter, what it says under approvalStatus and       *)
(* status, how many items "## Steps" lists, and whether a blank line comes *)
(* before them.  "by" tells apart texts that differ in prose only.         *)
NoFront == [there |-> FALSE, sound |-> FALSE, id |-> FALSE,
            approvalStatus |-> "none", status |-> "none"]

Markdown(front, items, blank, by) ==
  [kind |-> "markdown", front |-> front, items |-> items, blank |-> blank, by |-> by]

Absent == [kind |-> "absent"]
Empty == Markdown(NoFront, 0, FALSE, NoContent)

(* The artifact: a heading and bullets, the plan's id among them.          *)
RenderPlanMarkdown(content) == Markdown(NoFront, 0, FALSE, content)

(* JSON: whether it parses, the keys of the loader, its steps as a         *)
(* sequence of [object, agent], the limits maxParallelAgents and           *)
(* maxAgents, how many agents "agents" names, how many well-formed         *)
(* entries "verifications" has, and "by" as above.                         *)
PlainJson == [kind |-> "json", parses |-> TRUE, id |-> TRUE,
              approvalStatus |-> "none", status |-> "none", approved |-> FALSE,
              required |-> TRUE, provider |-> "none", steps |-> <<>>,
              limits |-> <<0, 0>>, agents |-> 0, checks |-> 0, by |-> NoContent]

(* What `apolo plan --format json` prints: the loader finds id and task;   *)
(* allocation and verification commands are nested too deep for it.        *)
PlanAsJson(content) == [PlainJson EXCEPT !.by = content]

-----------------------------------------------------------------------------
(* loadRunPlan.                                                            *)

Refused == [ok |-> FALSE, approved |-> FALSE, required |-> TRUE, steps |-> <<>>,
            max |-> 1, checks |-> 0]

(* The first of the keys that says something.                              *)
ApprovalStatus(source) ==
  IF source.approvalStatus # "none" THEN source.approvalStatus
  ELSE IF source.status # "none" THEN source.status ELSE "pending"

(* Mutation: every step without a name gets an agent of its own.           *)
OwnAgent(i) == <<"agent-1", "agent-2", "agent-3", "agent-4", "agent-5",
                 "agent-6", "agent-7">>[AtMost(i, 7)]

DefaultAgent(i) ==
  <<"agent-1", "agent-2", "agent-3", "agent-4", "agent-5">>[AtMost(i, 5)]

DefaultStep == "agent-1"

(* A plan's steps, each as the agent it is given to.                       *)
ReadSteps(raw) ==
  IF raw = <<>> THEN <<DefaultStep>>
  ELSE [i \in DOMAIN raw |->
          IF raw[i].agent = "none" THEN DefaultAgent(i) ELSE raw[i].agent]

UniqueAgents(steps) == {steps[i] : i \in DOMAIN steps}

(* The first limit that is a positive integer, else the agents that        *)
(* "agents" names, else those of the steps.                                *)
MaxParallelAgents(doc, steps) ==
  IF doc.limits[1] > 0 THEN doc.limits[1]
  ELSE IF doc.limits[2] > 0 THEN doc.limits[2]
  ELSE IF doc.agents > 0 THEN doc.agents
  ELSE Cardinality(UniqueAgents(steps))

NormalizeJsonPlan(doc) ==
  LET steps == ReadSteps(doc.steps)
  IN IF \/ ~doc.parses \/ ~doc.id
        \/ doc.provider \notin {"none", "claude", "codex"}
        \/ \E i \in DOMAIN doc.steps : ~doc.steps[i].object
     THEN Refused
     ELSE [ok |-> TRUE, approved |-> doc.approved \/ ApprovalStatus(doc) = "approved",
           required |-> doc.required, steps |-> steps,
           max |-> MaxParallelAgents(doc, steps), checks |-> doc.checks]

(* The section's pattern ends at the first end of a line it meets ("$"     *)
(* with flag m): it holds the line below the heading, and no other.        *)
StepActions(doc) == IF doc.blank THEN 0 ELSE AtMost(doc.items, 1)

NormalizeMarkdownPlan(doc) ==
  LET steps == IF StepActions(doc) = 0 THEN <<DefaultStep>>
               ELSE [i \in 1 .. StepActions(doc) |-> DefaultAgent(i)]
  IN IF ~doc.front.there \/ ~doc.front.sound \/ ~doc.front.id
     THEN Refused
     ELSE [ok |-> TRUE, approved |-> ApprovalStatus(doc.front) = "approved",
           required |-> TRUE, steps |-> steps,
           max |-> AtMost(Cardinality(UniqueAgents(steps)), 5), checks |-> 0]

LoadRunPlan(doc) ==
  CASE doc.kind = "json"     -> NormalizeJsonPlan(doc)
    [] doc.kind = "markdown" -> NormalizeMarkdownPlan(doc)
    [] doc.kind = "absent"   -> Refused

-----------------------------------------------------------------------------
(* The gates, and what the run comes to.                                   *)

Blocked(plan) ==
  \/ plan.max > 5
  \/ Cardinality(UniqueAgents(plan.steps)) > 5
  \/ ~plan.required

RunOutcome(plan, approved) ==
  IF ~plan.ok THEN "error"
  ELSE IF Blocked(plan) THEN "failed"
  ELSE IF ~approved /\ ~plan.approved THEN "approval_required"
  ELSE "executing"

=============================================================================
