---------------------------- MODULE PlanHandoff ----------------------------
(***************************************************************************)
(* From `apolo plan` to `apolo run --from-plan`: planners (runPlan of      *)
(* src/planning/cli.ts with the context, the planner adapter and the       *)
(* artifact writer), a human who reads, edits and approves plan files, and *)
(* runners up to the gates (runTask of src/cli/router.ts, runFromPlan of   *)
(* src/run/orchestrator.ts).                                               *)
(*                                                                         *)
(* Each planner and each runner is one execution of the command, and an    *)
(* action is the code between two awaits.  Nothing locks .apolo/plans: a   *)
(* planner truncates its artifact and then writes it, and may be killed in *)
(* between.  The id of a plan is the second in which it was begun and the  *)
(* slug of its task.                                                       *)
(***************************************************************************)
EXTENDS PlanFile

CONSTANTS Planner, Runner,  \* executions of the two commands
          Task, Slug,       \* tasks, and the slug of each
          Repo,             \* what repositories may hold (see PlanFile)
          Answer,           \* what Claude may print
          Edit,             \* the texts the human may put into a plan file
          MaxClock,         \* bound: seconds that pass
          MaxEdits          \* bound: texts the human puts on the disk

ASSUME HandoffAssumption ==
  /\ Task # {} /\ Slug \in [Task -> STRING]
  /\ MaxClock \in Nat \ {0} /\ MaxEdits \in Nat
  /\ \A r \in Repo : {r.onPath, r.scripts, r.targets} \subseteq Nat
  /\ \A a \in Answer : a.agents \in Nat
  /\ \A doc \in Edit :
       \/ doc.kind = "markdown"
       \/ doc.kind = "json" /\ doc.steps \in Seq([object : BOOLEAN, agent : STRING])

VARIABLES
  repo,     \* the repository, which stays as it is
  clock,    \* the current second
  disk,     \* the plan files, by id
  planner,  \* each planner: where it is, its options, id, context and plan
  claude,   \* the claude process each planner has started
  runner,   \* each runner: where it is, its plan file and the approval
  edited    \* history: the texts the human has put on disk

vars == <<repo, clock, disk, planner, claude, runner, edited>>

-----------------------------------------------------------------------------

(* Mutation: the id is made of the task alone.                             *)
PlanIdOfTask(stamp, task) == <<1, Slug[task]>>

(* timestampId keeps the digits down to the second.                        *)
PlanId(stamp, task) == <<stamp, Slug[task]>>

(* Where the human keeps what `apolo plan --format json` has printed.      *)
Saved == <<0, "saved">>

Ids == {<<n, Slug[t]>> : n \in 1 .. MaxClock, t \in Task} \union {Saved}

Idle == [at |-> "idle", task |-> CHOOSE t \in Task : TRUE, dry |-> FALSE,
         stamp |-> 0, context |-> NoContext, content |-> NoContent]
NoClaude == [os |-> "none", fine |-> FALSE, says |-> CHOOSE a \in Answer : TRUE]
Waiting == [at |-> "idle", id |-> Saved, approved |-> FALSE, doc |-> Absent]

Init ==
  /\ repo \in Repo /\ clock = 1
  /\ disk = [i \in Ids |-> Absent]
  /\ planner = [p \in Planner |-> Idle]
  /\ claude = [p \in Planner |-> NoClaude]
  /\ runner = [r \in Runner |-> Waiting]
  /\ edited = {}

(* Where the artifact of p goes.                                           *)
IdOf(p) == PlanId(planner[p].stamp, planner[p].task)

-----------------------------------------------------------------------------
(* apolo plan.                                                             *)

(* An error, or a kill, ends the process; the file it opened stays.        *)
Failed(p) ==
  LET left == IF planner[p].at = "write" THEN planner[p] ELSE Idle
  IN [planner EXCEPT ![p] = [Idle EXCEPT !.at = "failed", !.task = left.task,
                                         !.stamp = left.stamp]]

Busy == {"context", "ask", "open", "write"}
Over == {"done", "failed"}

(* parsePlanArgs: no task, an unknown flag or format ends the command.     *)
Start(p) ==
  /\ planner[p].at = "idle"
  /\ \/ planner' = Failed(p)
     \/ \E t \in Task, dry \in BOOLEAN :
          planner' = [planner EXCEPT ![p].at = "context", ![p].task = t,
                                     ![p].dry = dry]
  /\ UNCHANGED <<repo, clock, disk, claude, runner, edited>>

(* Where a planner goes once it has a plan.                                *)
AfterPlan(p) == IF planner[p].dry THEN "done" ELSE "open"

(* The context is read, the id is fixed, and Claude is asked, if there is  *)
(* one and it is not disabled; what found it may be wrong (execFile looks  *)
(* in another PATH).                                                       *)
Begin(p) ==
  /\ planner[p].at = "context"
  /\ LET context == BuildContextPack(repo)
     IN IF ~context.ok
        THEN planner' = Failed(p) /\ UNCHANGED claude
        ELSE \/ /\ planner' = [planner EXCEPT ![p].at = AfterPlan(p),
                                 ![p].stamp = clock, ![p].context = context,
                                 ![p].content = FallbackPlan(context)]
                /\ UNCHANGED claude
             \/ /\ planner' = [planner EXCEPT ![p].at = "ask",
                                 ![p].stamp = clock, ![p].context = context]
                /\ \E os \in {"running", "failed"} :
                     claude' = [claude EXCEPT ![p] = [NoClaude EXCEPT !.os = os]]
  /\ UNCHANGED <<repo, clock, disk, runner, edited>>

(* Claude ends by itself, or by the SIGTERM that execFile sends after 20 s *)
(* or when it has printed too much: sending it settles nothing.            *)
ClaudeEnds(p) ==
  /\ claude[p].os = "running"
  /\ \E fine \in BOOLEAN, says \in Answer :
       claude' = [claude EXCEPT ![p] = [os |-> "exited", fine |-> fine, says |-> says]]
  /\ UNCHANGED <<repo, clock, disk, planner, runner, edited>>

(* Mutation: only an exit settles the call, not a failed start.            *)
SettledByExit(c) == c.os = "exited"

Settled(c) == c.os \in {"exited", "failed"}

(* Mutation: what a Claude that failed or was ended has printed counts.    *)
ContentOfAnyExit(p) ==
  IF claude[p].os = "exited" THEN ParseClaudePlan(claude[p].says, planner[p].context)
                             ELSE FallbackPlan(planner[p].context)

(* Fine is an exit with 0 that did not print too much, even one after the  *)
(* SIGTERM; anything else rejects the call, whatever was printed.          *)
Content(p) ==
  IF claude[p].fine THEN ParseClaudePlan(claude[p].says, planner[p].context)
                    ELSE FallbackPlan(planner[p].context)

Planned(p) ==
  /\ planner[p].at = "ask" /\ Settled(claude[p])
  /\ planner' =
       [planner EXCEPT ![p].at = AfterPlan(p), ![p].content = Content(p)]
  /\ claude' = [claude EXCEPT ![p] = NoClaude]
  /\ UNCHANGED <<repo, clock, disk, runner, edited>>

(* mkdir, and the open that truncates; both may fail.                      *)
Open(p) ==
  /\ planner[p].at = "open"
  /\ \/ disk' = [disk EXCEPT ![IdOf(p)] = Empty]
        /\ planner' = [planner EXCEPT ![p].at = "write"]
     \/ planner' = Failed(p) /\ UNCHANGED disk
  /\ UNCHANGED <<repo, clock, claude, runner, edited>>

(* What is on the disk already may be longer: its end stays.               *)
WithTail(doc) == [doc EXCEPT !.items = @ + 1]

Write(p) ==
  /\ planner[p].at = "write"
  /\ \/ \E doc \in {RenderPlanMarkdown(planner[p].content)} \union
                   (IF disk[IdOf(p)] = Empty THEN {}
                    ELSE {WithTail(RenderPlanMarkdown(planner[p].content))}) :
          /\ disk' = [disk EXCEPT ![IdOf(p)] = doc]
          /\ planner' = [planner EXCEPT ![p].at = "done"]
     \/ planner' = Failed(p) /\ UNCHANGED disk
  /\ UNCHANGED <<repo, clock, claude, runner, edited>>

(* The claude of a planner that is killed goes on, and nobody listens.     *)
Kill(p) ==
  /\ planner[p].at \in Busy
  /\ planner' = Failed(p)
  /\ claude' = [claude EXCEPT ![p] = NoClaude]
  /\ UNCHANGED <<repo, clock, disk, runner, edited>>

-----------------------------------------------------------------------------
(* The human.                                                              *)

(* Bound: how many texts, edits and saved prints, the human puts on disk.  *)
MayPut == Cardinality(edited) + (IF disk[Saved] = Absent THEN 0 ELSE 1) < MaxEdits

(* Plan files are edited once the planner that has left them has ended.    *)
EditPlan(i) ==
  /\ disk[i] # Absent /\ MayPut
  /\ \E p \in Planner : /\ planner[p].at \in Over
                        /\ ~planner[p].dry /\ IdOf(p) = i
  /\ \E doc \in Edit :
       /\ disk' = [disk EXCEPT ![i] = doc]
       /\ edited' = edited \union {doc}
  /\ UNCHANGED <<repo, clock, planner, claude, runner>>

SaveJson(p) ==
  /\ planner[p].at = "done" /\ MayPut
  /\ disk' = [disk EXCEPT ![Saved] = PlanAsJson(planner[p].content)]
  /\ UNCHANGED <<repo, clock, planner, claude, runner, edited>>

Tick ==
  /\ clock < MaxClock /\ clock' = clock + 1
  /\ UNCHANGED <<repo, disk, planner, claude, runner, edited>>

-----------------------------------------------------------------------------
(* apolo run --from-plan.                                                  *)

(* requestHumanApproval, before the plan is loaded: --approve, or the word *)
(* typed at the prompt; or neither. It names a file, not its text.         *)
RequestHumanApproval(r) ==
  /\ runner[r].at = "idle"
  /\ \E i \in Ids, approved \in BOOLEAN :
       /\ disk[i] # Absent
       /\ runner' = [runner EXCEPT ![r] = [at |-> "load", id |-> i,
                                           approved |-> approved, doc |-> Absent]]
  /\ UNCHANGED <<repo, clock, disk, planner, claude, edited>>

Load(r) ==
  /\ runner[r].at = "load"
  /\ LET doc == disk[runner[r].id]
     IN runner' = [runner EXCEPT ![r].doc = doc,
                     ![r].at = RunOutcome(LoadRunPlan(doc), runner[r].approved)]
  /\ UNCHANGED <<repo, clock, disk, planner, claude, edited>>

-----------------------------------------------------------------------------

PlannerStep(p) == Begin(p) \/ Planned(p) \/ Open(p) \/ Write(p)

Done ==
  /\ \A p \in Planner : planner[p].at \in Over
  /\ \A r \in Runner : runner[r].at \notin {"idle", "load"} \/ \A i \in Ids : disk[i] = Absent
  /\ UNCHANGED vars

Next ==
  \/ \E p \in Planner : \/ Start(p) \/ PlannerStep(p) \/ ClaudeEnds(p) \/ Kill(p)
                        \/ SaveJson(p)
  \/ \E i \in Ids : EditPlan(i)
  \/ \E r \in Runner : RequestHumanApproval(r) \/ Load(r)
  \/ Tick \/ Done

(* A planner that was started goes on; nothing is assumed of Claude.       *)
Spec == Init /\ [][Next]_vars /\ \A p \in Planner : WF_vars(PlannerStep(p))

=============================================================================
