------------------------------ MODULE RunSafety ------------------------------
(***************************************************************************)
(* What `apolo run` guarantees: properties of RunOrchestrator.             *)
(***************************************************************************)
EXTENDS RunOrchestrator, FiniteSets

Lines == DOMAIN ledger

-----------------------------------------------------------------------------
(* Whatever is killed, torn or interleaved.                                *)

(* The ledger is written before the checkpoint, and the checkpoint carries *)
(* the in-memory sequence: whenever checkpoint.json can be read, the       *)
(* ledger holds the run.paused or run.finished event with its sequence and *)
(* state (orchestrator.ts:76-77, 123-124).                                 *)
LoggedEnd(state, sequence) ==
  \E i \in Lines :
    /\ ledger[i].event \in {"run.paused", "run.finished"}
    /\ ledger[i].state = state
    /\ ledger[i].sequence = sequence

CheckpointBacked ==
  checkpoint.file = "written" =>
    LoggedEnd(checkpoint.state, checkpoint.sequence)

(* Why it holds: a process that has come to its checkpoint logged the end  *)
(* with the state and the sequence it is about to save, and neither moves  *)
(* any more. Together the two are inductive.                               *)
CheckpointInv ==
  /\ CheckpointBacked
  /\ \A p \in Proc : pc[p] \in {"open_checkpoint", "write_checkpoint"} =>
       LoggedEnd(Outcome(p), seq[p])

(* Process p has logged the security check and then the start of its work. *)
Started(p) ==
  \E i, j \in Lines :
    /\ i < j /\ ledger[i].by = p /\ ledger[j].by = p
    /\ ledger[i].event = "security.checked"
    /\ ledger[j].event = "execution.started"

(* A command of a step is started only by a process that asked for         *)
(* execution, on a plan that process loaded and whose gates it passed, and *)
(* after it logged the security check and the start of the execution:      *)
(* nobody's approval or check counts for another process or another plan   *)
(* text (orchestrator.ts:59-89).                                           *)
SideEffectsAuthorized ==
  \A p \in Proc : spawned[p] # {} =>
    /\ opt[p].executor = "command"
    /\ spawned[p] \subseteq plan[p].steps
    /\ ~plan[p].blocked
    /\ plan[p].approved \/ opt[p].approved
    /\ Started(p)

(* Why it holds: before the plan is loaded nothing has been spawned; from   *)
(* the security check on, the plan in hand is the one that was checked;    *)
(* and a process comes to its commands only through the two events.        *)
Unloaded == {"idle", "initialize", "read_checkpoint", "load_noop",
             "run.created", "run.resumed", "load"}
Routing == {"agents.routed", "execution.started"}
Executing == {"execute", "agent_child"}

Checked(p) ==
  \E i \in Lines : ledger[i].by = p /\ ledger[i].event = "security.checked"

Authorized(p) ==
  /\ pc[p] \in Unloaded => spawned[p] = {}
  /\ pc[p] \in Routing \union Executing => AllowsSideEffects(p)
  /\ pc[p] \in Routing => Checked(p)
  /\ pc[p] \in Executing => Started(p)
  /\ pc[p] \in Executing \union {"execution.started"} => todo[p] \subseteq plan[p].steps
  /\ spawned[p] # {} =>
       /\ opt[p].executor = "command" /\ spawned[p] \subseteq plan[p].steps
       /\ AllowsSideEffects(p) /\ Started(p)

AuthorizedInv == \A p \in Proc : Authorized(p)

(* A run.finished event means its process left nothing out (every step     *)
(* settled, every verification run, memory and PR metadata written), and   *)
(* its state does not embellish: a failed step is always "failed", and     *)
(* "completed" has neither a failed check nor a step to review             *)
(* (orchestrator.ts:88-123, 170-184).                                      *)
FinishedIsEarned ==
  \A i \in Lines : ledger[i].event = "run.finished" =>
    LET p == ledger[i].by IN
      /\ todo[p] = {} /\ left[p] = 0 /\ outputs[p] = {"memory", "pr"}
      /\ "failed" \in results[p] => ledger[i].state = "failed"
      /\ ledger[i].state = "completed" =>
           results[p] \subseteq {"completed", "skipped"} /\ ~checkFailed[p]
      /\ {s \in plan[p].steps : s.cmd = "spec"} \subseteq spawned[p]
           \/ opt[p].executor # "command"

(* Exit code 0 says that the run is done: the ledger then holds a          *)
(* run.finished event without a failure, logged by this process or, for a  *)
(* resume that had nothing to do, by an earlier one. A process that exits  *)
(* with 2 for want of an approval has not begun an execution               *)
(* (router.ts:242-256, orchestrator.ts:41-46, 73-79).                      *)
ExitCodeTellsTheRun ==
  \A p \in Proc : pc[p] = "exited" =>
    /\ ExitCode(p) = 0 =>
         \E i \in Lines : /\ ledger[i].event = "run.finished"
                          /\ ledger[i].state \in {"completed", "needs_review"}
    /\ ExitCode(p) = 2 =>
         \A i \in Lines : ledger[i].by = p => ledger[i].event # "execution.started"

-----------------------------------------------------------------------------
(* When one process at a time works on the run.                            *)

(* Across resumes, kills and torn appends the sequence numbers of the      *)
(* complete ledger lines are 1, 2, 3, ... without gap or repetition.       *)
SequenceIsPosition == \A i \in Lines : ledger[i].sequence = i

(* Why it holds: one process at a time is live, and once it has read the   *)
(* last sequence its counter is the number of complete lines in the file.  *)
SerialInv ==
  /\ \A p, q \in Proc : Live(p) /\ Live(q) => p = q
  /\ SequenceIsPosition
  /\ \A p \in Proc :
       Live(p) /\ pc[p] # "initialize" => seq[p] = Len(ledger)

(* A run is executed a second time only if the process that executed it    *)
(* before failed or was killed before its checkpoint: a resume of a run    *)
(* that finished never executes it again.                                  *)
ReexecutionOnlyAfterFailure ==
  \A i, j \in Lines :
    (/\ i < j
     /\ ledger[i].event = "execution.started"
     /\ ledger[j].event = "execution.started")
    => pc[ledger[i].by] \in {"error", "killed"}

(* When nobody is working on the run and the last process to log came to   *)
(* its regular end, ledger and checkpoint tell a reader the same state.    *)
QuiescentAgreement ==
  (/\ \A p \in Proc : ~Live(p)
   /\ ledger # <<>>
   /\ pc[ledger[Len(ledger)].by] = "exited")
  => /\ checkpoint.file = "written"
     /\ checkpoint.state = ledger[Len(ledger)].state

(* The abstract run. While a process is between truncating and writing the *)
(* checkpoint the run still has the status that process found.             *)
PriorStatus(p) == IF opt[p].resume THEN seen[p] ELSE "new"

StatusOfRun ==
  CASE checkpoint.file = "absent" -> "new"
    [] checkpoint.file = "written" -> checkpoint.state
    [] OTHER ->
         IF \E p \in Proc : pc[p] = "write_checkpoint"
         THEN PriorStatus(CHOOSE p \in Proc : pc[p] = "write_checkpoint")
         ELSE "lost"

Abstract == INSTANCE RunStatus WITH
  status <- StatusOfRun,
  work <- Cardinality({i \in Lines : ledger[i].event = "execution.started"})

(* One process at a time implements the abstract run: it pauses and        *)
(* resumes, ends at most once, and work never begins after the end or      *)
(* after the checkpoint is lost.                                           *)
ImplementsRunStatus == Abstract!Spec

-----------------------------------------------------------------------------
(* Liveness. A process that is not killed keeps taking its own steps. That *)
(* the children it waits for ever close is not assumed: no timer of the    *)
(* code enforces it.                                                       *)

FairSpec == Spec /\ \A p \in Proc : WF_vars(Advance(p))

(* Every process that starts comes to an end unless one of its children    *)
(* keeps it waiting for ever: no loop and no other await is left open,     *)
(* whatever was thrown, torn or edited (executor.ts:85, verification.ts:55 *)
(* and git.ts:58 are the only waits without an end of their own).          *)
EndsUnlessAChildHangs ==
  \A p \in Proc :
    []<>(pc[p] \notin ChildWaits) => (Live(p) ~> pc[p] \in Ended)

-----------------------------------------------------------------------------
(* What the documents say and the code does not do.                        *)

(* docs/SYSTEM.md:332: "verification timeout: record failed result";       *)
(* docs/run.md:66: the command runner applies per-command timeouts. Every  *)
(* check that is started is settled (verification.ts:55-90).               *)
ChecksAreSettled ==
  \A p \in Proc : pc[p] = "check_child" ~> pc[p] # "check_child"

(* docs/product-contracts.md:105: sequence is monotonic within a run.      *)
SequenceMonotonic ==
  \A i, j \in Lines : i < j => ledger[i].sequence < ledger[j].sequence

=============================================================================
