--------------------------- MODULE RunOrchestrator ---------------------------
(***************************************************************************)
(* `apolo run`: runFromPlan (src/run/orchestrator.ts) with the plan        *)
(* loader, the run security gates, the executors, the verification runner, *)
(* the run memory and the PR metadata it calls, for ONE run id.            *)
(*                                                                         *)
(* An element of Proc is one execution of the command: the first creates   *)
(* the run, the others are `--resume <run-id>`.  Every await of the code   *)
(* is a point where another process may move, a signal may kill the        *)
(* process, or the user may edit the plan file.  pc[p] is the place where  *)
(* p waits; when it is the name of a ledger event, p is about to append    *)
(* that event.                                                             *)
(***************************************************************************)
EXTENDS RunLedger

CONSTANTS Step,        \* plan steps: [id, cmd]
          Plan,        \* the contents the plan file may have
          MaxScripts,  \* npm scripts that package.json may define, 4 in the code
          MaxEdits,    \* bound: how often the plan file changes
          Executors,   \* the kinds of executor that command lines ask for
          Concurrent,  \* TRUE if a resume may start while another process runs
          Crashes      \* TRUE if processes may be killed

Status == {"skipped", "completed", "failed", "needs_review"}

(* What loadRunPlan makes of a plan file, reduced to what the run depends  *)
(* on: whether it loads, whether it says approved, whether a gate of       *)
(* severity "blocked" fires on it, its steps, and how many verification    *)
(* commands it names.                                                      *)
PlanContent == [ok: BOOLEAN, approved: BOOLEAN, blocked: BOOLEAN,
                steps: SUBSET Step, verifications: Nat]

ASSUME StepAssumption ==
  \A s \in Step : s.cmd \in {"none", "empty", "spec"}
ASSUME PlanAssumption ==
  /\ Plan \subseteq PlanContent
  /\ \A c \in Plan : c.ok => c.steps # {}
ASSUME BoundAssumption ==
  /\ MaxScripts \in Nat /\ MaxEdits \in Nat
  /\ Executors \subseteq {"dry_run", "fake", "command"}
  /\ Concurrent \in BOOLEAN /\ Crashes \in BOOLEAN

VARIABLES
  pc,         \* where each process is
  opt,        \* its command line: approval given, executor, new run or resume
  seen,       \* the state it read from the checkpoint
  plan,       \* the plan it loaded
  todo,       \* steps it has not run yet
  results,    \* the statuses among its execution results
  left,       \* verification commands it has not run yet
  checkFailed,\* whether one of its verification commands failed
  outputs,    \* which of runs.jsonl and pr.json it has written
  spawned,    \* history: the steps whose command it started
  planFile,   \* the plan file on disk
  edits       \* how often the plan file has changed

procVars == <<opt, seen, plan, todo, results, left, checkFailed, outputs, spawned>>
envVars == <<planFile, edits>>
vars == <<ledgerVars, pc, procVars, envVars>>

-----------------------------------------------------------------------------

(* createExecutor: --fake-agent wins over --execute; a dry run is the      *)
(* default.                                                                *)
Executor == {"dry_run", "fake", "command"}

Options == [resume: BOOLEAN, approved: BOOLEAN, executor: Executor]
CommandLines == {o \in Options : o.executor \in Executors}

(* Mutation: a state is missing from the list.                             *)
TerminalStatesWithoutReview == {"failed", "verification_failed", "completed"}

TerminalStates == {"failed", "verification_failed", "completed", "needs_review"}

Places == Events \union
  {"idle", "initialize", "read_checkpoint", "load_noop", "load", "execute",
   "agent_child", "detect", "verify", "check_child", "memory",
   "git_branch", "git_diff", "pr",
   "open_checkpoint", "write_checkpoint", "exited", "error", "killed"}

(* The places at which a process waits for a child to close. No timer in   *)
(* run/executor.ts, run/verification.ts or run/git.ts bounds these waits.  *)
ChildWaits == {"agent_child", "check_child", "git_branch", "git_diff"}

Ended == {"exited", "error", "killed"}
Live(p) == pc[p] \notin Ended \union {"idle"}

NoPlan == [ok |-> FALSE, approved |-> FALSE, blocked |-> FALSE, steps |-> {},
           verifications |-> 0]

TypeOK ==
  /\ LedgerTypeOK
  /\ pc \in [Proc -> Places]
  /\ opt \in [Proc -> Options]
  /\ seen \in [Proc -> RunFinalState \union {NoState}]
  /\ plan \in [Proc -> PlanContent]
  /\ todo \in [Proc -> SUBSET Step]
  /\ results \in [Proc -> SUBSET Status]
  /\ left \in [Proc -> Nat]
  /\ \A p \in Proc : pc[p] \in {"verify", "check_child"} => left[p] # 0
  /\ checkFailed \in [Proc -> BOOLEAN]
  /\ outputs \in [Proc -> SUBSET {"memory", "pr"}]
  /\ spawned \in [Proc -> SUBSET Step]
  /\ planFile \in Plan
  /\ edits \in 0..MaxEdits

Init ==
  /\ LedgerInit
  /\ pc = [p \in Proc |-> "idle"]
  /\ opt = [p \in Proc |->
              [resume |-> FALSE, approved |-> FALSE, executor |-> "dry_run"]]
  /\ seen = [p \in Proc |-> NoState]
  /\ plan = [p \in Proc |-> NoPlan]
  /\ todo = [p \in Proc |-> {}]
  /\ results = [p \in Proc |-> {}]
  /\ left = [p \in Proc |-> 0]
  /\ checkFailed = [p \in Proc |-> FALSE]
  /\ outputs = [p \in Proc |-> {}]
  /\ spawned = [p \in Proc |-> {}]
  /\ planFile \in Plan
  /\ edits = 0

-----------------------------------------------------------------------------
(* Decisions.                                                              *)

(* approvalDecision: an approved plan file counts, a runtime approval too. *)
(* Mutation: a resumed run counts as approved.                             *)
ApprovedByResume(p) == plan[p].approved \/ opt[p].approved \/ opt[p].resume

Approved(p) == plan[p].approved \/ opt[p].approved

(* evaluateRunSecurity and securityAllowsSideEffects.                      *)
Severities(p) == (IF plan[p].blocked THEN {"blocked"} ELSE {})
                   \union (IF Approved(p) THEN {} ELSE {"approval"})

(* Mutation: a missing approval does not stop the run.                     *)
AllowsUnlessBlocked(p) == "blocked" \notin Severities(p)

AllowsSideEffects(p) == Severities(p) = {}

PausedState(p) == IF Severities(p) \subseteq {"approval"}
                  THEN "approval_required" ELSE "failed"

(* Mutation: the verification results are not looked at.                   *)
FinalStateOfSteps(p) ==
  CASE "failed" \in results[p] -> "failed"
    [] "failed" \notin results[p] /\ "needs_review" \in results[p] -> "needs_review"
    [] OTHER -> "completed"

FinalState(p) ==
  CASE "failed" \in results[p] -> "failed"
    [] "failed" \notin results[p] /\ "needs_review" \in results[p] -> "needs_review"
    [] results[p] \intersect {"failed", "needs_review"} = {} /\ checkFailed[p]
         -> "verification_failed"
    [] OTHER -> "completed"

(* The state runFromPlan records, checkpoints and returns.                 *)
Outcome(p) == IF AllowsSideEffects(p) THEN FinalState(p) ELSE PausedState(p)

(* The state argument of ledger.record at each call.                       *)
EventState(p) ==
  CASE pc[p] \in {"run.created", "run.resumed", "execution.started"} -> "running"
    [] pc[p] \in {"run.paused", "run.finished"} -> Outcome(p)
    [] pc[p] = "run.resume.noop" -> seen[p]
    [] OTHER -> NoState

-----------------------------------------------------------------------------
(* Steps of a process.                                                     *)

Goto(p, from, to) ==
  /\ pc[p] = from
  /\ pc' = [pc EXCEPT ![p] = to]

(* One `await ledger.record(event, ...)`.                                  *)
Log(p, event, next) ==
  /\ Goto(p, event, next)
  /\ Record(p, event, EventState(p))
  /\ UNCHANGED <<procVars, envVars>>

(* A rejected await leaves runFromPlan; the CLI prints it and exits with 1.*)
Throw(p, from) ==
  /\ Goto(p, from, "error")
  /\ UNCHANGED <<ledgerVars, procVars, envVars>>

(* `apolo run --from-plan` draws a fresh run id: it is the first process   *)
(* of its run.                                                             *)
Create(p, o) ==
  /\ \A q \in Proc : pc[q] = "idle"
  /\ ~o.resume
  /\ Goto(p, "idle", "initialize")
  /\ opt' = [opt EXCEPT ![p] = o]
  /\ UNCHANGED <<ledgerVars, seen, plan, todo, results, left, checkFailed,
                 outputs, spawned, envVars>>

(* `apolo run --resume <run-id>`                                           *)
Resume(p, o) ==
  /\ \E q \in Proc : pc[q] # "idle"
  /\ ~Concurrent => \A q \in Proc : ~Live(q)
  /\ o.resume
  /\ Goto(p, "idle", "initialize")
  /\ opt' = [opt EXCEPT ![p] = o]
  /\ UNCHANGED <<ledgerVars, seen, plan, todo, results, left, checkFailed,
                 outputs, spawned, envVars>>

Initialize(p) ==
  \/ /\ Goto(p, "initialize",
             IF opt[p].resume THEN "read_checkpoint" ELSE "run.created")
     /\ ReadLastSequence(p)
     /\ UNCHANGED <<procVars, envVars>>
  \/ ~LastLineParses /\ Throw(p, "initialize")

ReadCheckpoint(p) ==
  \/ /\ CheckpointReadable
     /\ Goto(p, "read_checkpoint",
             IF checkpoint.state \in TerminalStates
             THEN "load_noop" ELSE "run.resumed")
     /\ seen' = [seen EXCEPT ![p] = checkpoint.state]
     /\ UNCHANGED <<ledgerVars, opt, plan, todo, results, left, checkFailed,
                    outputs, spawned, envVars>>
  \/ ~CheckpointReadable /\ Throw(p, "read_checkpoint")

(* loadRunPlan, on the two paths that call it.                             *)
LoadPlanAt(p, from, next) ==
  \/ /\ planFile.ok
     /\ Goto(p, from, next)
     /\ plan' = [plan EXCEPT ![p] = planFile]
     /\ UNCHANGED <<ledgerVars, opt, seen, todo, results, left, checkFailed,
                    outputs, spawned, envVars>>
  \/ ~planFile.ok /\ Throw(p, from)

(* The terminal checkpoint: load the plan for the summary, log, return.    *)
LoadPlanForNoop(p) == LoadPlanAt(p, "load_noop", "run.resume.noop")
RecordNoop(p) == Log(p, "run.resume.noop", "exited")

RecordCreated(p) == Log(p, "run.created", "load")
RecordResumed(p) == Log(p, "run.resumed", "load")
LoadPlan(p) == LoadPlanAt(p, "load", "plan.loaded")
RecordPlanLoaded(p) == Log(p, "plan.loaded", "security.checked")

RecordSecurityChecked(p) ==
  Log(p, "security.checked",
      IF AllowsSideEffects(p) THEN "agents.routed" ELSE "run.paused")

(* Mutation: a paused run returns without its checkpoint.                  *)
RecordPausedOnly(p) == Log(p, "run.paused", "exited")

RecordPaused(p) == Log(p, "run.paused", "open_checkpoint")

(* routeAgents gives every step of the plan to exactly one agent.          *)
RecordRouted(p) ==
  /\ Goto(p, "agents.routed", "execution.started")
  /\ Record(p, "agents.routed", EventState(p))
  /\ todo' = [todo EXCEPT ![p] = plan[p].steps]
  /\ UNCHANGED <<opt, seen, plan, results, left, checkFailed, outputs,
                 spawned, envVars>>

RecordExecutionStarted(p) == Log(p, "execution.started", "execute")

(* DryRunExecutor and FakeAgentExecutor answer for all steps at once.      *)
ExecuteWithoutCommands(p) ==
  /\ opt[p].executor \in {"dry_run", "fake"}
  /\ Goto(p, "execute", "execution.completed")
  /\ results' = [results EXCEPT
       ![p] = {IF opt[p].executor = "fake" THEN "completed" ELSE "skipped"}]
  /\ todo' = [todo EXCEPT ![p] = {}]
  /\ UNCHANGED <<ledgerVars, opt, seen, plan, left, checkFailed, outputs,
                 spawned, envVars>>

(* Mutation: the loop over the steps has no end.                           *)
AfterStepForever(p, s) == IF todo[p] = {s} THEN "execute" ELSE "execute"

AfterStep(p, s) ==
  IF todo[p] = {s} THEN "execution.completed" ELSE "execute"

(* CommandAgentExecutor, a step it settles without a child process.        *)
SettleStep(p, s) ==
  /\ opt[p].executor = "command"
  /\ s \in todo[p] /\ s.cmd # "spec"
  /\ Goto(p, "execute", AfterStep(p, s))
  /\ todo' = [todo EXCEPT ![p] = @ \ {s}]
  /\ results' = [results EXCEPT
       ![p] = @ \union {IF s.cmd = "none" THEN "needs_review" ELSE "failed"}]
  /\ UNCHANGED <<ledgerVars, opt, seen, plan, left, checkFailed, outputs,
                 spawned, envVars>>

(* ... and one whose command it spawns: the side effect begins here. The   *)
(* order among the steps of the routed agents makes no difference.         *)
SpawnStep(p, s) ==
  /\ opt[p].executor = "command"
  /\ s \in todo[p] /\ s.cmd = "spec"
  /\ Goto(p, "execute", "agent_child")
  /\ spawned' = [spawned EXCEPT ![p] = @ \union {s}]
  /\ UNCHANGED <<ledgerVars, opt, seen, plan, todo, results, left,
                 checkFailed, outputs, envVars>>

(* The child closes, or could not be spawned; nothing bounds the wait.     *)
CloseStep(p, s, status) ==
  /\ s \in todo[p] \intersect spawned[p]
  /\ Goto(p, "agent_child", AfterStep(p, s))
  /\ todo' = [todo EXCEPT ![p] = @ \ {s}]
  /\ results' = [results EXCEPT ![p] = @ \union {status}]
  /\ UNCHANGED <<ledgerVars, opt, seen, plan, left, checkFailed, outputs,
                 spawned, envVars>>

RecordExecutionCompleted(p) == Log(p, "execution.completed", "detect")

(* runVerification: the plan's commands, or the npm scripts package.json   *)
(* defines; a package.json that does not parse throws.                     *)
VerificationCounts(p) ==
  IF plan[p].verifications > 0 THEN {plan[p].verifications} ELSE 0..MaxScripts

DetectVerifications(p, n) ==
  /\ Goto(p, "detect", IF n = 0 THEN "verification.completed" ELSE "verify")
  /\ left' = [left EXCEPT ![p] = n]
  /\ UNCHANGED <<ledgerVars, opt, seen, plan, todo, results, checkFailed,
                 outputs, spawned, envVars>>

DetectionThrows(p) == plan[p].verifications = 0 /\ Throw(p, "detect")

(* Mutation: one check too many.                                           *)
AfterCheckLate(p) == IF left[p] = 0 THEN "verification.completed" ELSE "verify"

AfterCheck(p) == IF left[p] = 1 THEN "verification.completed" ELSE "verify"

SettleCheck(p, from, passed) ==
  /\ Goto(p, from, AfterCheck(p))
  /\ left' = [left EXCEPT ![p] = @ - 1]
  /\ checkFailed' = [checkFailed EXCEPT ![p] = @ \/ ~passed]
  /\ UNCHANGED <<ledgerVars, opt, seen, plan, todo, results, outputs,
                 spawned, envVars>>

(* runVerificationCommand: an empty command fails without a child.         *)
EmptyCheck(p) == plan[p].verifications > 0 /\ SettleCheck(p, "verify", FALSE)

SpawnCheck(p) ==
  /\ Goto(p, "verify", "check_child")
  /\ UNCHANGED <<ledgerVars, procVars, envVars>>

CloseCheck(p, passed) == SettleCheck(p, "check_child", passed)

RecordVerificationCompleted(p) == Log(p, "verification.completed", "memory")

(* recordRunMemory appends to .apolo/memory/runs.jsonl.                    *)
WriteOutput(p, from, output, next) ==
  /\ Goto(p, from, next)
  /\ outputs' = [outputs EXCEPT ![p] = @ \union {output}]
  /\ UNCHANGED <<ledgerVars, opt, seen, plan, todo, results, left,
                 checkFailed, spawned, envVars>>

RecordRunMemory(p) == WriteOutput(p, "memory", "memory", "memory.updated")

(* Mutation: no PR metadata.                                               *)
RecordMemoryOnly(p) == Log(p, "memory.updated", "run.finished")

RecordMemoryUpdated(p) == Log(p, "memory.updated", "git_branch")

(* preparePrMetadata asks git for the branch and for the diff, one child    *)
(* after the other; whatever git answers, the metadata are written. No     *)
(* code reads pr.json, so that its truncation and its writing are one step.*)
CloseGit(p, from, to) ==
  /\ Goto(p, from, to)
  /\ UNCHANGED <<ledgerVars, procVars, envVars>>

CloseGitBranch(p) == CloseGit(p, "git_branch", "git_diff")
CloseGitDiff(p) == CloseGit(p, "git_diff", "pr")

PreparePrMetadata(p) == WriteOutput(p, "pr", "pr", "pr.prepared")
RecordPrPrepared(p) == Log(p, "pr.prepared", "run.finished")

(* Mutation: the checkpoint does not wait for the ledger.                  *)
FinishUnlogged(p) ==
  /\ Goto(p, "run.finished", "open_checkpoint")
  /\ UNCHANGED <<ledgerVars, procVars, envVars>>

RecordFinished(p) == Log(p, "run.finished", "open_checkpoint")

OpenCheckpoint(p) ==
  /\ Goto(p, "open_checkpoint", "write_checkpoint")
  /\ TruncateCheckpoint
  /\ UNCHANGED <<procVars, envVars>>

SaveCheckpoint(p) ==
  /\ Goto(p, "write_checkpoint", "exited")
  /\ WriteCheckpoint(p, Outcome(p))
  /\ UNCHANGED <<procVars, envVars>>

(* The exit code runTask (src/cli/router.ts) makes of the returned state.  *)
ReturnedState(p) == IF seen[p] \in TerminalStates THEN seen[p] ELSE Outcome(p)

(* Mutation: one of the two failures is forgotten.                         *)
ExitCodeOfFailed(p) ==
  CASE ReturnedState(p) = "approval_required" -> 2
    [] ReturnedState(p) = "failed" -> 1
    [] OTHER -> 0

ExitCode(p) ==
  CASE ReturnedState(p) = "approval_required" -> 2
    [] ReturnedState(p) \in {"failed", "verification_failed"} -> 1
    [] OTHER -> 0

-----------------------------------------------------------------------------
(* The environment.                                                        *)

(* A signal or a power key ends a process between two of its writes; a     *)
(* child it spawned is not stopped.                                        *)
Kill(p) ==
  /\ Crashes
  /\ Live(p)
  /\ pc' = [pc EXCEPT ![p] = "killed"]
  /\ UNCHANGED <<ledgerVars, procVars, envVars>>

AppendFails(p) ==
  /\ pc[p] \in Events
  /\ RecordTorn(p, pc[p], EventState(p))
  /\ pc' = [pc EXCEPT ![p] = "error"]
  /\ UNCHANGED <<procVars, envVars>>

EditPlan ==
  /\ edits < MaxEdits
  /\ edits' = edits + 1
  /\ planFile' \in Plan \ {planFile}
  /\ UNCHANGED <<ledgerVars, pc, procVars>>

-----------------------------------------------------------------------------

(* The steps that wait for a child process.                                *)
AwaitChild(p) ==
  \/ \E s \in Step, status \in {"completed", "failed"} : CloseStep(p, s, status)
  \/ \E passed \in BOOLEAN : CloseCheck(p, passed)
  \/ CloseGitBranch(p) \/ CloseGitDiff(p)

(* The steps the process takes by itself.                                  *)
Advance(p) ==
  \/ Initialize(p) \/ ReadCheckpoint(p)
  \/ LoadPlanForNoop(p) \/ RecordNoop(p)
  \/ RecordCreated(p) \/ RecordResumed(p) \/ LoadPlan(p) \/ RecordPlanLoaded(p)
  \/ RecordSecurityChecked(p) \/ RecordPaused(p)
  \/ RecordRouted(p) \/ RecordExecutionStarted(p)
  \/ ExecuteWithoutCommands(p)
  \/ \E s \in Step : SettleStep(p, s) \/ SpawnStep(p, s)
  \/ RecordExecutionCompleted(p)
  \/ \E n \in VerificationCounts(p) : DetectVerifications(p, n)
  \/ DetectionThrows(p) \/ EmptyCheck(p) \/ SpawnCheck(p)
  \/ RecordVerificationCompleted(p)
  \/ RecordRunMemory(p) \/ RecordMemoryUpdated(p)
  \/ PreparePrMetadata(p) \/ RecordPrPrepared(p)
  \/ RecordFinished(p) \/ OpenCheckpoint(p) \/ SaveCheckpoint(p)

Start(p) == \E o \in CommandLines : Create(p, o) \/ Resume(p, o)

Environment == EditPlan \/ \E p \in Proc : Kill(p) \/ AppendFails(p)

(* Every process of the command has come to its end.                       *)
AllEnded == \A p \in Proc : pc[p] \in Ended

Next ==
  \/ \E p \in Proc : Start(p) \/ Advance(p) \/ AwaitChild(p)
  \/ Environment
  \/ AllEnded /\ UNCHANGED vars

Spec == Init /\ [][Next]_vars

=============================================================================
