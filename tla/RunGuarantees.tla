---------------------------- MODULE RunGuarantees ----------------------------
(***************************************************************************)
(* Machine-checked proofs of what `apolo run` guarantees whatever is       *)
(* killed, torn or interleaved, for any number of processes, any plans and *)
(* any bounds: no command starts unless it is authorized, a finished run   *)
(* is earned, and an exit code tells the truth.                            *)
(*                                                                         *)
(* All three follow from one summary of the actions, EveryStep: where a    *)
(* process may go from its place, which of its entries change there, and   *)
(* what it has got when it arrives.                                        *)
(***************************************************************************)
EXTENDS RunProofs

-----------------------------------------------------------------------------
(* What a process does at each place.                                      *)

(* A step of process p, or one that befalls it.                            *)
StepOf(p) == Start(p) \/ Advance(p) \/ AwaitChild(p) \/ Kill(p) \/ AppendFails(p)

(* The control flow of runFromPlan: where a process may go from a place.   *)
Follows(from, to) ==
  \/ to \in {"error", "killed"}
  \/ from = "idle" /\ to = "initialize"
  \/ from = "initialize" /\ to \in {"read_checkpoint", "run.created"}
  \/ from = "read_checkpoint" /\ to \in {"load_noop", "run.resumed"}
  \/ from = "load_noop" /\ to = "run.resume.noop"
  \/ from \in {"run.created", "run.resumed"} /\ to = "load"
  \/ from = "load" /\ to = "plan.loaded"
  \/ from = "plan.loaded" /\ to = "security.checked"
  \/ from = "security.checked" /\ to \in {"agents.routed", "run.paused"}
  \/ from = "agents.routed" /\ to = "execution.started"
  \/ from = "execution.started" /\ to = "execute"
  \/ from \in Executing /\ to \in Executing \union {"execution.completed"}
  \/ from = "execution.completed" /\ to = "detect"
  \/ from \in {"detect", "verify", "check_child"}
       /\ to \in {"verify", "check_child", "verification.completed"}
  \/ from = "verification.completed" /\ to = "memory"
  \/ from = "memory" /\ to = "memory.updated"
  \/ from = "memory.updated" /\ to = "git_branch"
  \/ from = "git_branch" /\ to = "git_diff"
  \/ from = "git_diff" /\ to = "pr"
  \/ from = "pr" /\ to = "pr.prepared"
  \/ from = "pr.prepared" /\ to = "run.finished"
  \/ from \in {"run.paused", "run.finished"} /\ to = "open_checkpoint"
  \/ from = "open_checkpoint" /\ to = "write_checkpoint"
  \/ from \in {"run.resume.noop", "write_checkpoint"} /\ to = "exited"

(* The event a process appends is the one whose name is its place, and it  *)
(* does not get past that place without.                                   *)
Appends(p) ==
  pc[p] \in Events /\ ledger' = Append(ledger, NewEvent(p, pc[p], EventState(p)))

Writes(p) ==
  /\ UNCHANGED ledger \/ Appends(p)
  /\ pc[p] \in Events /\ pc'[p] \notin {"error", "killed"} => Appends(p)

(* The checkpoint changes when the process truncates it and, if it is      *)
(* still empty then, holds the outcome once the process has written it.    *)
Saves(p) ==
  /\ pc[p] \notin {"open_checkpoint", "write_checkpoint"} => UNCHANGED checkpoint
  /\ pc'[p] \in {"error", "killed"} => UNCHANGED checkpoint
  /\ pc'[p] = "write_checkpoint" => checkpoint' = Unwritten("empty")
  /\ pc[p] = "write_checkpoint" /\ pc'[p] = "exited" /\ checkpoint.file = "empty" =>
       checkpoint'.file = "written" /\ checkpoint'.state = Outcome(p)

(* The places at which an entry of the process changes.                    *)
Frame(p) ==
  /\ pc[p] # "idle" => opt'[p] = opt[p]
  /\ pc[p] # "read_checkpoint" => seen'[p] = seen[p]
  /\ pc[p] \notin {"load", "load_noop"} => plan'[p] = plan[p]
  /\ pc[p] \notin Executing \union {"agents.routed"} => todo'[p] = todo[p]
  /\ pc[p] \notin Executing => results'[p] = results[p] /\ spawned'[p] = spawned[p]
  /\ pc[p] \notin {"detect", "verify", "check_child"} =>
       left'[p] = left[p] /\ checkFailed'[p] = checkFailed[p]
  /\ pc[p] \notin {"memory", "pr"} => outputs'[p] = outputs[p]

SpecSteps(p) == {s \in plan[p].steps : s.cmd = "spec"}

(* ... and what it has got when it comes to a place.                       *)
Gets(p) ==
  /\ pc'[p] = "initialize" /\ ~opt'[p].resume => \A q \in Proc : pc[q] = "idle"
  /\ pc'[p] = "read_checkpoint" => opt[p].resume
  /\ pc'[p] = "run.created" => ~opt[p].resume
  /\ pc[p] = "read_checkpoint" =>
       \/ seen'[p] = seen[p] /\ pc'[p] \in {"error", "killed"}
       \/ /\ checkpoint.file = "written" /\ seen'[p] = checkpoint.state
          /\ pc'[p] = IF seen'[p] \in TerminalStates THEN "load_noop" ELSE "run.resumed"
  /\ pc'[p] = "agents.routed" => AllowsSideEffects(p)
  /\ pc'[p] = "run.paused" => ~AllowsSideEffects(p)
  /\ pc'[p] = "execution.started" => todo'[p] = plan[p].steps
  /\ pc[p] \in Executing =>
       /\ todo'[p] \subseteq todo[p] /\ spawned'[p] \subseteq spawned[p] \union todo[p]
       /\ spawned'[p] = spawned[p] \/ opt[p].executor = "command"
  /\ pc[p] \in Executing /\ opt[p].executor = "command"
       /\ SpecSteps(p) \ todo[p] \subseteq spawned[p]
     => SpecSteps(p) \ todo'[p] \subseteq spawned'[p]
  /\ pc'[p] = "execution.completed" => todo'[p] = {}
  /\ pc'[p] = "verification.completed" => left'[p] = 0
  /\ outputs[p] \subseteq outputs'[p]
  /\ pc'[p] = "memory.updated" => "memory" \in outputs'[p]
  /\ pc'[p] = "pr.prepared" => "pr" \in outputs'[p]

(* A process that has ended takes no step; an idle one can only start.     *)
Moves(p) == /\ pc[p] \notin Ended
            /\ pc[p] = "idle" => pc'[p] = "initialize"
            /\ Follows(pc[p], pc'[p])
            /\ Writes(p) /\ Saves(p) /\ Frame(p) /\ Gets(p)

LEMMA EveryStep ==
  ASSUME TypeOK, NEW p \in Proc, StepOf(p)
  PROVE  Moves(p)
<1> USE DEF Moves, Follows, Writes, Saves, Frame, Gets, Executing, procVars
<1>0. ASSUME NEW from, NEW to, Goto(p, from, to)
      PROVE  pc[p] = from /\ pc'[p] = to
  BY <1>0 DEF Goto, TypeOK
<1>1. ASSUME NEW event, NEW next, Log(p, event, next)
      PROVE  /\ pc[p] = event /\ pc'[p] = next
             /\ ledger' = Append(ledger, NewEvent(p, pc[p], EventState(p)))
             /\ UNCHANGED procVars /\ UNCHANGED checkpoint
  BY <1>0, <1>1 DEF Log, Record
<1>2. ASSUME NEW from \in {"initialize", "read_checkpoint", "load_noop", "load", "detect"},
             Throw(p, from)
      PROVE  Moves(p)
  BY <1>0, <1>2 DEF Throw, ledgerVars, Events, Ended
<1>3. CASE Start(p)
  BY <1>0, <1>3 DEF Start, Create, Resume, ledgerVars, Events, Ended, TypeOK
<1>4. CASE Initialize(p)
  BY <1>0, <1>2, <1>4 DEF Initialize, ReadLastSequence, Events, Ended
<1>5. CASE ReadCheckpoint(p)
  <2>1. CASE Throw(p, "read_checkpoint")
    BY <1>2, <2>1
  <2>2. CASE ~Throw(p, "read_checkpoint")
    <3>1. /\ pc[p] = "read_checkpoint" /\ checkpoint.file = "written"
          /\ pc'[p] = IF checkpoint.state \in TerminalStates
                      THEN "load_noop" ELSE "run.resumed"
          /\ seen'[p] = checkpoint.state
          /\ UNCHANGED <<ledger, checkpoint, opt, plan, todo, results, left,
                         checkFailed, outputs, spawned>>
      BY <1>0, <1>5, <2>2 DEF ReadCheckpoint, CheckpointReadable, ledgerVars, TypeOK
    <3> QED BY <3>1 DEF Events, Ended
  <2> QED BY <2>1, <2>2
<1>6. CASE LoadPlanForNoop(p) \/ LoadPlan(p)
  BY <1>0, <1>2, <1>6 DEF LoadPlanForNoop, LoadPlan, LoadPlanAt, ledgerVars, Events, Ended
<1>7. CASE \/ RecordNoop(p) \/ RecordCreated(p) \/ RecordResumed(p)
           \/ RecordPlanLoaded(p) \/ RecordPaused(p)
           \/ RecordExecutionStarted(p) \/ RecordExecutionCompleted(p)
           \/ RecordVerificationCompleted(p) \/ RecordMemoryUpdated(p)
           \/ RecordPrPrepared(p) \/ RecordFinished(p)
  BY <1>1, <1>7 DEF RecordNoop, RecordCreated, RecordResumed,
       RecordPlanLoaded, RecordPaused,
       RecordExecutionStarted, RecordExecutionCompleted,
       RecordVerificationCompleted, RecordMemoryUpdated, RecordPrPrepared,
       RecordFinished, Appends, Events, Ended
<1>8. CASE RecordSecurityChecked(p)
  BY <1>1, <1>8 DEF RecordSecurityChecked, Appends, Events, Ended
<1>9. CASE RecordRouted(p)
  BY <1>0, <1>9 DEF RecordRouted, Record, Appends, Events, Ended, TypeOK
<1>10. CASE ExecuteWithoutCommands(p)
  BY <1>0, <1>10 DEF ExecuteWithoutCommands, ledgerVars, Events, Ended, TypeOK
<1>11. ASSUME NEW s \in Step, SettleStep(p, s)
       PROVE  Moves(p)
  BY <1>0, <1>11 DEF SettleStep, AfterStep, SpecSteps, ledgerVars, Events, Ended, TypeOK
<1>12. ASSUME NEW s \in Step, SpawnStep(p, s)
       PROVE  Moves(p)
  BY <1>0, <1>12 DEF SpawnStep, ledgerVars, Events, Ended, TypeOK
<1>13. ASSUME NEW s \in Step, NEW status, CloseStep(p, s, status)
       PROVE  Moves(p)
  BY <1>0, <1>13 DEF CloseStep, AfterStep, ledgerVars, Events, Ended, TypeOK
<1>14. ASSUME NEW n \in VerificationCounts(p), DetectVerifications(p, n)
       PROVE  Moves(p)
  BY <1>0, <1>14 DEF DetectVerifications, ledgerVars, Events, Ended, TypeOK
<1>15. ASSUME NEW from \in {"verify", "check_child"}, NEW passed,
              SettleCheck(p, from, passed)
       PROVE  Moves(p)
  BY <1>0, <1>15 DEF SettleCheck, AfterCheck, ledgerVars, Events, Ended, TypeOK
<1>16. CASE DetectionThrows(p) \/ EmptyCheck(p)
  BY <1>2, <1>15, <1>16 DEF DetectionThrows, EmptyCheck
<1>17. CASE SpawnCheck(p) \/ CloseGitBranch(p) \/ CloseGitDiff(p)
  BY <1>0, <1>17 DEF SpawnCheck, CloseGitBranch, CloseGitDiff, CloseGit,
    ledgerVars, Events, Ended
<1>18. CASE RecordRunMemory(p) \/ PreparePrMetadata(p)
  BY <1>0, <1>18 DEF RecordRunMemory, PreparePrMetadata, WriteOutput, ledgerVars,
                     Events, Ended, TypeOK
<1>19. CASE OpenCheckpoint(p) \/ SaveCheckpoint(p)
  BY <1>0, <1>19 DEF OpenCheckpoint, SaveCheckpoint, TruncateCheckpoint,
                     WriteCheckpoint, Events, Ended
<1>20. CASE AwaitChild(p)
  BY <1>13, <1>15, <1>17, <1>20 DEF AwaitChild, CloseCheck
<1>21. CASE Kill(p)
  BY <1>21 DEF Kill, Live, ledgerVars, Ended, TypeOK
<1>22. CASE AppendFails(p)
  BY <1>22 DEF AppendFails, RecordTorn, Appends, Events, Ended, TypeOK
<1> QED
  BY <1>3, <1>4, <1>5, <1>6, <1>7, <1>8, <1>9, <1>10, <1>11, <1>12, <1>14,
     <1>16, <1>17, <1>18, <1>19, <1>20, <1>21, <1>22 DEF Advance, StepOf

-----------------------------------------------------------------------------
(* No command without authorization.                                       *)

(* What was logged stays logged.                                           *)
LEMMA LoggedStays ==
  ASSUME TypeOK, LedgerStep, NEW p \in Proc
  PROVE  (Checked(p) => Checked(p)') /\ (Started(p) => Started(p)')
BY LinesStay DEF Checked, Started

(* The event a process appends comes after everything in the ledger.       *)
LEMMA AppendLast ==
  ASSUME TypeOK, NEW p \in Proc, Appends(p)
  PROVE  \E j \in Lines' : /\ ledger'[j].by = p /\ ledger'[j].event = pc[p]
                           /\ \A i \in Lines : i < j
<1> DEFINE e == NewEvent(p, pc[p], EventState(p))
           j == Len(ledger) + 1
<1>1. e.by = p /\ e.event = pc[p]
  BY DEF NewEvent
<1>2. ledger' = Append(ledger, e) /\ ledger \in Seq(LedgerEvent)
  BY DEF Appends, TypeOK, LedgerTypeOK
<1> HIDE DEF e
<1>3. j \in DOMAIN ledger' /\ ledger'[j] = e
  BY <1>2
<1>4. \A i \in DOMAIN ledger : i < j
  BY <1>2
<1> QED BY <1>1, <1>3, <1>4 DEF Lines

(* Gates and approval depend on the entries of the process only.           *)
LEMMA GatesAreOwn ==
  ASSUME NEW q \in Proc, UNCHANGED <<opt[q], plan[q]>>
  PROVE  AllowsSideEffects(q)' = AllowsSideEffects(q)
BY DEF AllowsSideEffects, Severities, Approved

(* A step of the process keeps its authorization.                          *)
LEMMA AuthorizedStep ==
  ASSUME TypeOK, NEW p \in Proc, Authorized(p), LedgerStep, Moves(p)
  PROVE  Authorized(p)'
<1> USE DEF Moves, Follows, Frame, Gets, Unloaded, Routing, Executing
<1>1. (Checked(p) => Checked(p)') /\ (Started(p) => Started(p)')
  BY LoggedStays
<1>2. pc[p] \notin Unloaded =>
        UNCHANGED <<opt[p], plan[p]>> /\ AllowsSideEffects(p)' = AllowsSideEffects(p)
  BY GatesAreOwn
<1>3. pc'[p] \in Unloaded => spawned'[p] = {}
  BY DEF Authorized
<1>4. pc'[p] \in Routing \union Executing =>
        pc[p] \in {"security.checked"} \union Routing \union Executing
  OBVIOUS
<1>5. pc'[p] \in Routing \union Executing => AllowsSideEffects(p)'
  BY <1>2, <1>4 DEF Authorized
<1>6. pc'[p] \in Routing => Checked(p)'
  <2>1. pc'[p] = "agents.routed" => Checked(p)'
    BY AppendLast DEF Writes, Appends, Events, Checked
  <2> QED BY <1>1, <2>1 DEF Authorized
<1>7. pc'[p] \in Executing => Started(p)'
  <2>1. ASSUME pc[p] = "execution.started", pc'[p] = "execute"
        PROVE  Started(p)'
    <3>1. PICK i \in Lines : ledger[i].by = p /\ ledger[i].event = "security.checked"
      BY <2>1 DEF Authorized, Checked
    <3>2. i \in Lines' /\ ledger'[i] = ledger[i]
      BY LinesStay
    <3>3. Appends(p)
      BY <2>1 DEF Writes, Events
    <3>4. PICK j \in Lines' : /\ ledger'[j].by = p
                              /\ ledger'[j].event = "execution.started"
                              /\ i < j
      BY <2>1, <3>1, <3>3, AppendLast
    <3> QED BY <3>1, <3>2, <3>4 DEF Started
  <2> QED BY <1>1, <2>1 DEF Authorized
<1>8. pc'[p] \in Executing \union {"execution.started"} => todo'[p] \subseteq plan'[p].steps
  BY DEF Authorized
<1>9. ASSUME spawned'[p] # {}
      PROVE  /\ opt'[p].executor = "command" /\ spawned'[p] \subseteq plan'[p].steps
             /\ AllowsSideEffects(p)' /\ Started(p)'
  <2>1. pc[p] \notin Unloaded
    BY <1>9 DEF Authorized
  <2>2. CASE spawned'[p] = spawned[p]
    BY <1>1, <1>2, <1>9, <2>1, <2>2 DEF Authorized
  <2>3. CASE spawned'[p] # spawned[p]
    <3>1. /\ pc[p] \in Executing /\ opt[p].executor = "command"
          /\ spawned'[p] \subseteq spawned[p] \union todo[p]
      BY <2>3
    <3>2. AllowsSideEffects(p) /\ Started(p) /\ todo[p] \subseteq plan[p].steps
      BY <3>1 DEF Authorized
    <3> QED BY <1>1, <1>2, <2>1, <3>1, <3>2 DEF Authorized
  <2> QED BY <2>2, <2>3
<1> QED BY <1>3, <1>5, <1>6, <1>7, <1>8, <1>9 DEF Authorized

(* The authorization of a process does not depend on the others.           *)
LEMMA AuthorizedElsewhere ==
  ASSUME TypeOK, NEW q \in Proc, Authorized(q), LedgerStep, UNCHANGED Own(q)
  PROVE  Authorized(q)'
<1>1. (Checked(q) => Checked(q)') /\ (Started(q) => Started(q)')
  BY LoggedStays
<1>2. UNCHANGED <<pc[q], opt[q], plan[q], todo[q], spawned[q]>>
  BY DEF Own
<1>3. AllowsSideEffects(q)' = AllowsSideEffects(q)
  BY <1>2, GatesAreOwn
<1> QED BY <1>1, <1>2, <1>3 DEF Authorized

(* No command of a step is started unless its process asked for execution, *)
(* has loaded a plan with that step whose gates and approval it checked,   *)
(* and has logged the check and the start: whatever other processes do,    *)
(* whoever is killed, and whenever the plan file is edited.                *)
THEOREM NoUnauthorizedCommand == Spec => []SideEffectsAuthorized
<1>1. Init => AuthorizedInv
  BY DEF Init, AuthorizedInv, Authorized, Unloaded, Routing, Executing
<1>2. TypeOK /\ AuthorizedInv /\ [Next]_vars => AuthorizedInv'
  <2> SUFFICES ASSUME TypeOK, AuthorizedInv, [Next]_vars
               PROVE  AuthorizedInv'
    OBVIOUS
  <2>1. CASE UNCHANGED <<ledger, seq, pc, procVars>>
    <3>1. \A q \in Proc : UNCHANGED Own(q)
      BY <2>1 DEF Own, procVars
    <3> QED BY <2>1, <3>1, AuthorizedElsewhere DEF AuthorizedInv, LedgerStep
  <2>2. CASE UNCHANGED vars \/ EditPlan
    BY <2>1, <2>2 DEF vars, EditPlan, ledgerVars
  <2>3. ASSUME NEW p \in Proc, StepOf(p)
        PROVE  AuthorizedInv'
    <3>1. Moves(p) /\ LedgerStep /\ \A q \in Proc \ {p} : UNCHANGED Own(q)
      BY <2>3, EveryStep, Locality DEF StepOf
    <3> QED BY <3>1, AuthorizedStep, AuthorizedElsewhere DEF AuthorizedInv
  <2> QED BY <2>2, <2>3 DEF Next, Environment, StepOf
<1>3. TypeOK /\ AuthorizedInv => SideEffectsAuthorized
  <2> SUFFICES ASSUME TypeOK, AuthorizedInv, NEW p \in Proc, spawned[p] # {}
               PROVE  /\ opt[p].executor = "command"
                      /\ spawned[p] \subseteq plan[p].steps
                      /\ ~plan[p].blocked
                      /\ plan[p].approved \/ opt[p].approved
                      /\ Started(p)
    BY DEF SideEffectsAuthorized
  <2> QED BY DEF AuthorizedInv, Authorized, AllowsSideEffects, Severities,
                 Approved
<1> QED BY <1>1, <1>2, <1>3, TypeCorrect, PTL DEF Spec

-----------------------------------------------------------------------------
(* What a finished run has behind it.                                      *)

Ending == {"open_checkpoint", "write_checkpoint"}
Stopping == Ending \union Ended

(* The places of an execution, in their order.                             *)
Prepared == {"pr.prepared", "run.finished"}
Remembered == {"memory.updated", "git_branch", "git_diff", "pr"} \union Prepared
Verified == {"verification.completed", "memory"} \union Remembered
Executed == {"execution.completed", "detect", "verify", "check_child"}
              \union Verified
Begun == Executing \union Executed
Working == {"execution.started"} \union Begun

(* What a process has done when it is at a place.                          *)
Earning(p) ==
  /\ pc[p] \in Working =>
       /\ AllowsSideEffects(p)
       /\ opt[p].executor = "command" => SpecSteps(p) \ todo[p] \subseteq spawned[p]
  /\ pc[p] \in Executed => todo[p] = {}
  /\ pc[p] \in Verified => left[p] = 0
  /\ pc[p] \in Remembered => "memory" \in outputs[p]
  /\ pc[p] \in Prepared => "pr" \in outputs[p]
  /\ pc[p] = "agents.routed" => AllowsSideEffects(p)
  /\ pc[p] = "run.paused" => ~AllowsSideEffects(p)
  /\ pc[p] \in {"load_noop", "run.resume.noop"} => seen[p] \in TerminalStates

Complete(p) ==
  /\ todo[p] = {} /\ left[p] = 0 /\ outputs[p] = {"memory", "pr"}
  /\ SpecSteps(p) \subseteq spawned[p] \/ opt[p].executor # "command"

(* What a line e that process p has logged says of p ever after.           *)
Vouches(p, e) ==
  /\ e.event = "run.finished" =>
       pc[p] \in Stopping /\ Complete(p) /\ e.state = FinalState(p)
  /\ e.event = "run.paused" => e.state \in {"approval_required", "failed"}
  /\ e.event = "execution.started" =>
       pc[p] \in Begun \union Stopping /\ AllowsSideEffects(p)

Earned(p) ==
  /\ Earning(p)
  /\ \A i \in Lines : ledger[i].by = p => Vouches(p, ledger[i])

EarnedInv == \A p \in Proc : Earned(p)

(* The decisions depend on the entries of the process only.                *)
LEMMA FinalStateIsOwn ==
  ASSUME NEW p \in Proc, UNCHANGED <<results[p], checkFailed[p]>>
  PROVE  FinalState(p)' = FinalState(p)
BY DEF FinalState

(* The final state does not embellish.                                     *)
LEMMA FinalStateTells ==
  ASSUME NEW p \in Proc
  PROVE  /\ FinalState(p) \in {"failed", "verification_failed", "completed", "needs_review"}
         /\ "failed" \in results[p] => FinalState(p) = "failed"
         /\ FinalState(p) = "completed" =>
              /\ "failed" \notin results[p] /\ "needs_review" \notin results[p]
              /\ ~checkFailed[p]
<1>1. CASE "failed" \in results[p]
  BY <1>1 DEF FinalState
<1>2. CASE "failed" \notin results[p] /\ "needs_review" \in results[p]
  BY <1>2 DEF FinalState
<1>3. CASE "failed" \notin results[p] /\ "needs_review" \notin results[p]
  <2>1. results[p] \intersect {"failed", "needs_review"} = {}
    BY <1>3
  <2>2. CASE checkFailed[p]
    BY <1>3, <2>1, <2>2 DEF FinalState
  <2>3. CASE ~checkFailed[p]
    BY <1>3, <2>1, <2>3 DEF FinalState
  <2> QED BY <2>2, <2>3
<1> QED BY <1>1, <1>2, <1>3

(* The steps with a command are those of the plan in hand.                 *)
LEMMA SpecStepsAreOwn ==
  ASSUME NEW p \in Proc, plan'[p] = plan[p]
  PROVE  SpecSteps(p)' = SpecSteps(p)
BY DEF SpecSteps

(* The places keep what they say.                                          *)
LEMMA EarningStep ==
  ASSUME TypeOK, NEW p \in Proc, Moves(p), Earning(p)
  PROVE  Earning(p)'
<1> USE DEF Moves, Frame, Gets, Follows, Executing
<1>1. /\ opt'[p] = opt[p] \/ pc'[p] = "initialize"
      /\ plan'[p] = plan[p] \/ pc[p] \in {"load", "load_noop"}
  OBVIOUS
<1>2. pc'[p] \in Working \union {"agents.routed"} =>
        AllowsSideEffects(p)' = AllowsSideEffects(p) /\ SpecSteps(p)' = SpecSteps(p)
  BY <1>1, GatesAreOwn, SpecStepsAreOwn
  DEF Working, Begun, Executed, Verified, Remembered, Prepared
<1>3. pc'[p] = "run.paused" => AllowsSideEffects(p)' = AllowsSideEffects(p)
  BY <1>1, GatesAreOwn
<1>4. pc'[p] \in Working => AllowsSideEffects(p)'
  BY <1>2 DEF Earning, Working, Begun, Executed, Verified, Remembered, Prepared
<1>5. ASSUME pc'[p] \in Working, opt'[p].executor = "command"
      PROVE  SpecSteps(p)' \ todo'[p] \subseteq spawned'[p]
  <2>1. CASE pc'[p] = "execution.started"
    BY <1>2, <1>5, <2>1 DEF SpecSteps, Working
  <2>2. CASE pc'[p] # "execution.started"
    <3>1. pc[p] \in Working /\ opt'[p] = opt[p] /\ SpecSteps(p)' = SpecSteps(p)
      BY <1>1, <1>2, <1>5, <2>2
      DEF Working, Begun, Executed, Verified, Remembered, Prepared
    <3>2. SpecSteps(p) \ todo[p] \subseteq spawned[p]
      BY <1>5, <3>1 DEF Earning
    <3>3. pc[p] # "agents.routed"
      BY <3>1 DEF Working, Begun, Executed, Verified, Remembered, Prepared
    <3> QED BY <1>5, <3>1, <3>2, <3>3
  <2> QED BY <2>1, <2>2
<1>6. pc'[p] \in Executed => todo'[p] = {}
  BY DEF Earning, Executed, Verified, Remembered, Prepared
<1>7. pc'[p] \in Verified => left'[p] = 0
  BY DEF Earning, Verified, Remembered, Prepared
<1>8. pc'[p] \in Remembered => "memory" \in outputs'[p]
  BY DEF Earning, Remembered, Prepared
<1>9. pc'[p] \in Prepared => "pr" \in outputs'[p]
  BY DEF Earning, Prepared
<1>10. pc'[p] \in {"load_noop", "run.resume.noop"} => seen'[p] \in TerminalStates
  BY DEF Earning, Executing
<1>11. pc'[p] = "agents.routed" => AllowsSideEffects(p)'
  BY <1>2
<1>12. pc'[p] = "run.paused" => ~AllowsSideEffects(p)'
  BY <1>3
<1> QED BY <1>4, <1>5, <1>6, <1>7, <1>8, <1>9, <1>10, <1>11, <1>12 DEF Earning

(* A line that a step finds, or the one it appends.                        *)
LEMMA LineOfStep ==
  ASSUME TypeOK, NEW p \in Proc, Writes(p), NEW i \in Lines'
  PROVE  \/ i \in Lines /\ ledger'[i] = ledger[i]
         \/ /\ pc[p] \in Events /\ i = Len(ledger) + 1
            /\ ledger'[i] = NewEvent(p, pc[p], EventState(p))
<1>1. ledger \in Seq(LedgerEvent) /\ Len(ledger) \in Nat
  BY DEF TypeOK, LedgerTypeOK
<1>2. CASE UNCHANGED ledger
  BY <1>2 DEF Lines
<1>3. CASE Appends(p)
  <2> DEFINE e == NewEvent(p, pc[p], EventState(p))
  <2>1. ledger' = Append(ledger, e) /\ pc[p] \in Events
    BY <1>3 DEF Appends
  <2> HIDE DEF e
  <2>2. i \in 1..(Len(ledger) + 1)
    BY <1>1, <2>1 DEF Lines
  <2>3. CASE i = Len(ledger) + 1
    <3>1. ledger'[i] = e
      BY <1>1, <2>1, <2>3
    <3> QED BY <2>1, <2>3, <3>1 DEF e
  <2>4. CASE i # Len(ledger) + 1
    <3>1. i \in 1..Len(ledger)
      BY <1>1, <2>2, <2>4
    <3> QED BY <1>1, <2>1, <3>1 DEF Lines
  <2> QED BY <2>3, <2>4
<1> QED BY <1>2, <1>3 DEF Writes

(* What a process has vouched for stays true when it goes on.              *)
LEMMA VouchedStays ==
  ASSUME TypeOK, NEW p \in Proc, Moves(p), NEW e, Vouches(p, e)
  PROVE  Vouches(p, e)'
<1> USE DEF Moves, Frame, Gets, Follows, Executing
<1>1. ASSUME e.event = "run.finished"
      PROVE  pc'[p] \in Stopping /\ Complete(p)' /\ e.state = FinalState(p)'
  <2>1. pc[p] \in Ending /\ pc[p] \notin Executing
    BY <1>1 DEF Vouches, Stopping, Ending, Executing
  <2>2. /\ pc'[p] \in Stopping
        /\ UNCHANGED <<plan[p], opt[p], todo[p], results[p], left[p],
                       checkFailed[p], outputs[p], spawned[p]>>
    BY <2>1 DEF Stopping, Ending, Ended, Executing
  <2>3. FinalState(p)' = FinalState(p) /\ SpecSteps(p)' = SpecSteps(p)
    BY <2>2, FinalStateIsOwn, SpecStepsAreOwn
  <2> QED BY <1>1, <2>2, <2>3 DEF Vouches, Complete
<1>2. ASSUME e.event = "execution.started"
      PROVE  pc'[p] \in Begun \union Stopping /\ AllowsSideEffects(p)'
  <2>1. pc[p] \in Begun \union Ending /\ AllowsSideEffects(p)
    BY <1>2 DEF Vouches, Stopping
  <2>2. pc'[p] \in Begun \union Stopping /\ UNCHANGED <<opt[p], plan[p]>>
    BY <2>1 DEF Begun, Executed, Verified, Remembered, Prepared, Stopping,
                Ending, Ended
  <2> QED BY <2>1, <2>2, GatesAreOwn
<1> QED BY <1>1, <1>2 DEF Vouches

(* A line that a process appends is vouched for.                           *)
LEMMA VouchesForNew ==
  ASSUME TypeOK, NEW p \in Proc, Moves(p), Earning(p), pc[p] \in Events,
         NEW e, e.event = pc[p], e.state = EventState(p)
  PROVE  Vouches(p, e)'
<1> USE DEF Moves, Frame, Follows, Executing
<1>2. ASSUME pc[p] = "run.finished"
      PROVE  pc'[p] \in Stopping /\ Complete(p)' /\ e.state = FinalState(p)'
  <2>1. /\ pc'[p] \in Stopping
        /\ UNCHANGED <<plan[p], opt[p], todo[p], results[p], left[p],
                       checkFailed[p], outputs[p], spawned[p]>>
    BY <1>2 DEF Stopping, Ending, Ended
  <2>2. FinalState(p)' = FinalState(p) /\ SpecSteps(p)' = SpecSteps(p)
    BY <2>1, FinalStateIsOwn, SpecStepsAreOwn
  <2>3. /\ AllowsSideEffects(p) /\ todo[p] = {} /\ left[p] = 0
        /\ "memory" \in outputs[p] /\ "pr" \in outputs[p]
        /\ opt[p].executor = "command" => SpecSteps(p) \ todo[p] \subseteq spawned[p]
    BY <1>2 DEF Earning, Working, Begun, Executed, Verified, Remembered, Prepared
  <2>4. outputs[p] = {"memory", "pr"}
    BY <2>3 DEF TypeOK
  <2>5. e.state = FinalState(p)
    BY <1>2, <2>3 DEF EventState, Outcome
  <2>6. Complete(p)
    BY <2>3, <2>4 DEF Complete
  <2> QED BY <2>1, <2>2, <2>5, <2>6 DEF Complete
<1>3. ASSUME pc[p] = "run.paused"
      PROVE  e.state \in {"approval_required", "failed"}
  BY <1>3 DEF Earning, EventState, Outcome, PausedState
<1>4. ASSUME pc[p] = "execution.started"
      PROVE  pc'[p] \in Begun \union Stopping /\ AllowsSideEffects(p)'
  <2>1. AllowsSideEffects(p)
    BY <1>4 DEF Earning, Working
  <2>2. pc'[p] \in Begun \union Stopping /\ UNCHANGED <<opt[p], plan[p]>>
    BY <1>4 DEF Begun, Stopping, Ended
  <2> QED BY <2>1, <2>2, GatesAreOwn
<1> QED BY <1>2, <1>3, <1>4 DEF Vouches

(* The step of the process itself, ...                                     *)
LEMMA EarnedStep ==
  ASSUME TypeOK, NEW p \in Proc, Moves(p), Earned(p)
  PROVE  Earned(p)'
<1>1. Earning(p)'
  BY EarningStep DEF Earned
<1>2. ASSUME NEW i \in Lines', ledger'[i].by = p
      PROVE  Vouches(p, ledger[i])'
  <2>1. PICK e : e = ledger'[i]
    OBVIOUS
  <2>2. CASE i \in Lines /\ ledger'[i] = ledger[i]
    <3>1. Vouches(p, e)
      BY <1>2, <2>1, <2>2 DEF Earned
    <3>2. Vouches(p, e)'
      BY <3>1, VouchedStays
    <3> QED BY <2>1, <3>2 DEF Vouches
  <2>3. CASE pc[p] \in Events /\ ledger'[i] = NewEvent(p, pc[p], EventState(p))
    <3>1. e.event = pc[p] /\ e.state = EventState(p)
      BY <2>1, <2>3 DEF NewEvent
    <3>2. Vouches(p, e)'
      BY <2>3, <3>1, VouchesForNew DEF Earned
    <3> QED BY <2>1, <3>2 DEF Vouches
  <2> QED BY <2>2, <2>3, LineOfStep DEF Moves
<1> QED BY <1>1, <1>2 DEF Earned

(* ... and of another one.                                                 *)
LEMMA EarnedElsewhere ==
  ASSUME TypeOK, NEW q \in Proc, Earned(q), UNCHANGED Own(q),
         \A i \in Lines' : ledger'[i].by = q => i \in Lines /\ ledger'[i] = ledger[i]
  PROVE  Earned(q)'
<1>1. UNCHANGED <<pc[q], opt[q], seen[q], plan[q], todo[q], results[q], left[q],
                  checkFailed[q], outputs[q], spawned[q]>>
  BY DEF Own
<1>2. /\ AllowsSideEffects(q)' = AllowsSideEffects(q)
      /\ FinalState(q)' = FinalState(q) /\ SpecSteps(q)' = SpecSteps(q)
  BY <1>1, GatesAreOwn, FinalStateIsOwn, SpecStepsAreOwn
<1>3. Earning(q)'
  BY <1>1, <1>2 DEF Earned, Earning
<1>4. ASSUME NEW i \in Lines', ledger'[i].by = q
      PROVE  Vouches(q, ledger[i])'
  <2>1. Vouches(q, ledger[i]) /\ ledger'[i] = ledger[i]
    BY <1>4 DEF Earned
  <2>2. Complete(q)' = Complete(q)
    BY <1>1, <1>2 DEF Complete
  <2> QED BY <1>1, <1>2, <2>1, <2>2 DEF Vouches
<1> QED BY <1>3, <1>4 DEF Earned

LEMMA EarnedInvariant == Spec => []EarnedInv
<1>1. Init => EarnedInv
  <2> SUFFICES ASSUME Init, NEW p \in Proc
               PROVE  Earned(p)
    BY DEF EarnedInv
  <2>1. pc[p] = "idle" /\ Lines = {}
    BY DEF Init, LedgerInit, Lines
  <2> QED BY <2>1 DEF Earned, Earning, Working, Begun, Executed, Verified,
                      Remembered, Prepared, Executing
<1>2. TypeOK /\ EarnedInv /\ [Next]_vars => EarnedInv'
  <2> SUFFICES ASSUME TypeOK, EarnedInv, [Next]_vars
               PROVE  EarnedInv'
    OBVIOUS
  <2>1. CASE UNCHANGED <<ledger, seq, pc, procVars>>
    <3>1. \A q \in Proc : UNCHANGED Own(q)
      BY <2>1 DEF Own, procVars
    <3> QED BY <2>1, <3>1, EarnedElsewhere DEF EarnedInv, Lines
  <2>2. CASE UNCHANGED vars \/ EditPlan
    BY <2>1, <2>2 DEF vars, EditPlan, ledgerVars
  <2>3. ASSUME NEW p \in Proc, StepOf(p)
        PROVE  EarnedInv'
    <3>1. Moves(p) /\ \A q \in Proc \ {p} : UNCHANGED Own(q)
      BY <2>3, EveryStep, Locality DEF StepOf
    <3>2. ASSUME NEW q \in Proc \ {p}, NEW i \in Lines', ledger'[i].by = q
          PROVE  i \in Lines /\ ledger'[i] = ledger[i]
      <4>1. NewEvent(p, pc[p], EventState(p)).by = p
        BY DEF NewEvent
      <4> QED BY <3>1, <3>2, <4>1, LineOfStep DEF Moves
    <3>3. \A q \in Proc \ {p} : Earned(q)'
      BY <3>1, <3>2, EarnedElsewhere DEF EarnedInv
    <3> QED BY <3>1, <3>3, EarnedStep DEF EarnedInv
  <2> QED BY <2>2, <2>3 DEF Next, Environment, StepOf
<1> QED BY <1>1, <1>2, TypeCorrect, PTL DEF Spec

(* A run.finished event means that its process left nothing out, and its   *)
(* state does not embellish what the steps and the checks came to: for any *)
(* number of processes on the run, any plans, kills and torn appends       *)
(* (orchestrator.ts:88-123, 170-184).                                      *)
THEOREM FinishedRunsAreEarned == Spec => []FinishedIsEarned
<1>1. TypeOK /\ EarnedInv => FinishedIsEarned
  <2> SUFFICES ASSUME TypeOK, EarnedInv, NEW i \in Lines,
                      ledger[i].event = "run.finished"
               PROVE  LET p == ledger[i].by IN
                      /\ todo[p] = {} /\ left[p] = 0 /\ outputs[p] = {"memory", "pr"}
                      /\ "failed" \in results[p] => ledger[i].state = "failed"
                      /\ ledger[i].state = "completed" =>
                           results[p] \subseteq {"completed", "skipped"} /\ ~checkFailed[p]
                      /\ {s \in plan[p].steps : s.cmd = "spec"} \subseteq spawned[p]
                           \/ opt[p].executor # "command"
    BY DEF FinishedIsEarned
  <2> DEFINE p == ledger[i].by
  <2>1. p \in Proc
    <3>1. ledger[i] \in LedgerEvent
      BY DEF TypeOK, LedgerTypeOK, Lines
    <3> QED BY <3>1 DEF LedgerEvent
  <2>2. Complete(p) /\ ledger[i].state = FinalState(p)
    BY <2>1 DEF EarnedInv, Earned, Vouches
  <2> HIDE DEF p
  <2>3. results[p] \subseteq Status
    BY <2>1 DEF TypeOK
  <2>4. /\ "failed" \in results[p] => FinalState(p) = "failed"
        /\ FinalState(p) = "completed" =>
             "failed" \notin results[p] /\ "needs_review" \notin results[p] /\ ~checkFailed[p]
    BY <2>1, FinalStateTells
  <2>5. FinalState(p) = "completed" => results[p] \subseteq {"completed", "skipped"}
    BY <2>3, <2>4 DEF Status
  <2> QED BY <2>2, <2>4, <2>5 DEF Complete, SpecSteps, p
<1> QED BY <1>1, EarnedInvariant, TypeCorrect, PTL

-----------------------------------------------------------------------------
(* What an exit code says of the run.                                      *)

Done == {"completed", "needs_review"}

EndedWith(state) ==
  \E i \in Lines : /\ ledger[i].event \in {"run.paused", "run.finished"}
                   /\ ledger[i].state = state

FinishedWith(state) ==
  \E i \in Lines : ledger[i].event = "run.finished" /\ ledger[i].state = state

(* A resume that had nothing to do has seen a state that some process has  *)
(* finished with; any other process that returns has logged its own end.   *)
Backed(p) ==
  /\ seen[p] \in Done => FinishedWith(seen[p])
  /\ pc[p] = "exited" => seen[p] \in TerminalStates \/ EndedWith(Outcome(p))

BackedInv == \A p \in Proc : Backed(p)

(* No run pauses with a state that says it is done.                        *)
LEMMA DoneIsFinished ==
  ASSUME TypeOK, EarnedInv, NEW state \in Done, EndedWith(state)
  PROVE  FinishedWith(state)
<1>1. PICK i \in Lines : /\ ledger[i].event \in {"run.paused", "run.finished"}
                         /\ ledger[i].state = state
  BY DEF EndedWith
<1>2. ledger[i] \in LedgerEvent
  BY DEF TypeOK, LedgerTypeOK, Lines
<1>3. ledger[i].by \in Proc
  BY <1>2 DEF LedgerEvent
<1>4. Vouches(ledger[i].by, ledger[i])
  BY <1>3 DEF EarnedInv, Earned
<1>5. ledger[i].event # "run.paused"
  BY <1>1, <1>4 DEF Vouches, Done
<1> QED BY <1>1, <1>5 DEF FinishedWith

(* A step of the process itself and of another one.                        *)
LEMMA BackedStep ==
  ASSUME TypeOK, EarnedInv, CheckpointInv, LedgerStep, NEW p \in Proc,
         Moves(p), Backed(p)
  PROVE  Backed(p)'
<1> USE DEF Moves, Follows, Executing
<1>1. ASSUME seen'[p] \in Done
      PROVE  FinishedWith(seen[p])'
  <2>1. CASE seen'[p] = seen[p]
    <3> DEFINE s == seen[p]
    <3>1. FinishedWith(s)
      BY <1>1, <2>1 DEF Backed
    <3>2. PICK i \in Lines : ledger[i].event = "run.finished" /\ ledger[i].state = s
      BY <3>1 DEF FinishedWith
    <3>3. i \in Lines' /\ ledger'[i] = ledger[i]
      BY LinesStay
    <3> QED BY <2>1, <3>2, <3>3 DEF FinishedWith
  <2>2. CASE seen'[p] # seen[p]
    <3>1. /\ pc[p] = "read_checkpoint" /\ checkpoint.file = "written"
          /\ seen'[p] = checkpoint.state
      BY <2>2 DEF Frame, Gets
    <3>2. EndedWith(checkpoint.state)
      BY <3>1 DEF CheckpointInv, CheckpointBacked, LoggedEnd, EndedWith
    <3>3. FinishedWith(checkpoint.state)
      BY <1>1, <3>1, <3>2, DoneIsFinished
    <3>4. UNCHANGED ledger
      BY <3>1 DEF Writes, Appends, Events
    <3> QED BY <3>1, <3>3, <3>4 DEF FinishedWith, Lines
  <2> QED BY <2>1, <2>2
<1>2. ASSUME pc'[p] = "exited"
      PROVE  seen'[p] \in TerminalStates \/ EndedWith(Outcome(p))'
  <2>1. seen'[p] = seen[p] /\ pc[p] \in {"run.resume.noop", "write_checkpoint"}
    BY <1>2 DEF Frame
  <2>2. CASE pc[p] = "run.resume.noop"
    BY <2>1, <2>2 DEF EarnedInv, Earned, Earning
  <2>3. CASE pc[p] = "write_checkpoint"
    <3> DEFINE o == Outcome(p)
    <3>1. LoggedEnd(Outcome(p), seq[p])
      BY <2>3 DEF CheckpointInv
    <3>2. Outcome(p)' = o
      BY <2>3, OutcomeIsOwn DEF Frame
    <3>3. PICK i \in Lines : /\ ledger[i].event \in {"run.paused", "run.finished"}
                             /\ ledger[i].state = o
      BY <3>1 DEF LoggedEnd
    <3>4. i \in Lines' /\ ledger'[i] = ledger[i]
      BY LinesStay
    <3> QED BY <3>2, <3>3, <3>4 DEF EndedWith
  <2> QED BY <2>1, <2>2, <2>3
<1> QED BY <1>1, <1>2 DEF Backed

LEMMA BackedElsewhere ==
  ASSUME TypeOK, LedgerStep, NEW q \in Proc, UNCHANGED Own(q), Backed(q)
  PROVE  Backed(q)'
<1> DEFINE s == seen[q]
           o == Outcome(q)
<1>1. UNCHANGED <<pc[q], seen[q]>> /\ Outcome(q)' = o
  BY OutcomeIsOwn DEF Own
<1>2. s \in Done => FinishedWith(seen[q])'
  <2>1. ASSUME s \in Done
        PROVE  FinishedWith(seen[q])'
    <3>1. PICK i \in Lines : ledger[i].event = "run.finished" /\ ledger[i].state = s
      BY <2>1 DEF Backed, FinishedWith
    <3>2. i \in Lines' /\ ledger'[i] = ledger[i]
      BY LinesStay
    <3> QED BY <1>1, <3>1, <3>2 DEF FinishedWith
  <2> QED BY <2>1
<1>3. EndedWith(o) => EndedWith(Outcome(q))'
  <2>1. ASSUME EndedWith(o)
        PROVE  EndedWith(Outcome(q))'
    <3>1. PICK i \in Lines : /\ ledger[i].event \in {"run.paused", "run.finished"}
                             /\ ledger[i].state = o
      BY <2>1 DEF EndedWith
    <3>2. i \in Lines' /\ ledger'[i] = ledger[i]
      BY LinesStay
    <3> QED BY <1>1, <3>1, <3>2 DEF EndedWith
  <2> QED BY <2>1
<1> QED BY <1>1, <1>2, <1>3 DEF Backed

LEMMA BackedInvariant == Spec => []BackedInv
<1>1. Init => BackedInv
  BY DEF Init, BackedInv, Backed, Done, NoState
<1>2. TypeOK /\ EarnedInv /\ CheckpointInv /\ BackedInv /\ [Next]_vars => BackedInv'
  <2> SUFFICES ASSUME TypeOK, EarnedInv, CheckpointInv, BackedInv, [Next]_vars
               PROVE  BackedInv'
    OBVIOUS
  <2>1. CASE UNCHANGED <<ledger, seq, pc, procVars>>
    <3>1. LedgerStep /\ \A q \in Proc : UNCHANGED Own(q)
      BY <2>1 DEF Own, procVars, LedgerStep
    <3> QED BY <3>1, BackedElsewhere DEF BackedInv
  <2>2. CASE UNCHANGED vars \/ EditPlan
    BY <2>1, <2>2 DEF vars, EditPlan, ledgerVars
  <2>3. ASSUME NEW p \in Proc, StepOf(p)
        PROVE  BackedInv'
    <3>1. Moves(p) /\ LedgerStep /\ \A q \in Proc \ {p} : UNCHANGED Own(q)
      BY <2>3, EveryStep, Locality DEF StepOf
    <3> QED BY <3>1, BackedStep, BackedElsewhere DEF BackedInv
  <2> QED BY <2>2, <2>3 DEF Next, Environment, StepOf
<1> QED BY <1>1, <1>2, TypeCorrect, EarnedInvariant, CheckpointInvariant, PTL DEF Spec

(* Exit code 0 is backed by a run.finished event without a failure, and a  *)
(* process that exits with 2 has begun no execution: for any number of     *)
(* overlapping processes, kills and torn appends (router.ts:242-256,       *)
(* orchestrator.ts:41-46, 73-79).                                          *)
THEOREM ExitCodesAreTrue == Spec => []ExitCodeTellsTheRun
<1>1. TypeOK /\ EarnedInv /\ BackedInv => ExitCodeTellsTheRun
  <2> SUFFICES ASSUME TypeOK, EarnedInv, BackedInv, NEW p \in Proc, pc[p] = "exited"
               PROVE  /\ ExitCode(p) = 0 =>
                           \E i \in Lines : /\ ledger[i].event = "run.finished"
                                            /\ ledger[i].state \in {"completed", "needs_review"}
                      /\ ExitCode(p) = 2 =>
                           \A i \in Lines : ledger[i].by = p =>
                             ledger[i].event # "execution.started"
    BY DEF ExitCodeTellsTheRun
  <2>1. FinalState(p) \in Done \union {"failed", "verification_failed"}
    BY FinalStateTells DEF Done
  <2>2. PausedState(p) \in {"approval_required", "failed"}
    BY DEF PausedState
  <2>3. ASSUME ExitCode(p) = 0
        PROVE  \E i \in Lines : /\ ledger[i].event = "run.finished"
                                /\ ledger[i].state \in {"completed", "needs_review"}
    <3>1. ReturnedState(p) \notin {"approval_required", "failed", "verification_failed"}
      BY <2>3 DEF ExitCode
    <3>2. CASE seen[p] \in TerminalStates
      BY <3>1, <3>2 DEF ReturnedState, TerminalStates, BackedInv, Backed, Done,
                        FinishedWith
    <3>3. CASE seen[p] \notin TerminalStates
      <4>1. Outcome(p) \in Done
        BY <2>1, <2>2, <3>1, <3>3 DEF ReturnedState, Outcome
      <4>2. EndedWith(Outcome(p))
        BY <3>3 DEF BackedInv, Backed
      <4> QED BY <4>1, <4>2, DoneIsFinished DEF FinishedWith, Done
    <3> QED BY <3>2, <3>3
  <2>4. ASSUME ExitCode(p) = 2, NEW i \in Lines, ledger[i].by = p
        PROVE  ledger[i].event # "execution.started"
    <3>1. ReturnedState(p) = "approval_required"
      BY <2>4 DEF ExitCode
    <3>2. Outcome(p) = "approval_required"
      BY <3>1 DEF ReturnedState, TerminalStates
    <3>3. ~AllowsSideEffects(p)
      BY <2>1, <3>2 DEF Outcome, Done
    <3> QED BY <2>4, <3>3 DEF EarnedInv, Earned, Vouches
  <2> QED BY <2>3, <2>4
<1> QED BY <1>1, EarnedInvariant, BackedInvariant, TypeCorrect, PTL

=============================================================================
