------------------------------ MODULE RunProofs ------------------------------
(***************************************************************************)
(* Machine-checked proofs about `apolo run`, for any number of processes,  *)
(* any plans and any bounds.                                               *)
(***************************************************************************)
EXTENDS RunSafety, TLAPS

-----------------------------------------------------------------------------
(* Type correctness.                                                       *)

(* The decisions of a process are run states.                              *)
LEMMA OutcomeType ==
  ASSUME TypeOK, NEW p \in Proc
  PROVE  /\ Outcome(p) \in RunFinalState
         /\ EventState(p) \in RunFinalState \union {NoState}
<1>1. PausedState(p) \in RunFinalState
  BY DEF PausedState, RunFinalState
<1>2. FinalState(p) \in RunFinalState
  <2>1. CASE "failed" \in results[p]
    BY <2>1 DEF FinalState, RunFinalState
  <2>2. CASE "failed" \notin results[p] /\ "needs_review" \in results[p]
    BY <2>2 DEF FinalState, RunFinalState
  <2>3. CASE "failed" \notin results[p] /\ "needs_review" \notin results[p]
    <3>1. results[p] \intersect {"failed", "needs_review"} = {}
      BY <2>3
    <3>2. CASE checkFailed[p]
      BY <2>3, <3>1, <3>2 DEF FinalState, RunFinalState
    <3>3. CASE ~checkFailed[p]
      BY <2>3, <3>1, <3>3 DEF FinalState, RunFinalState
    <3> QED BY <3>2, <3>3
  <2> QED BY <2>1, <2>2, <2>3
<1>3. Outcome(p) \in RunFinalState
  BY <1>1, <1>2 DEF Outcome
<1>4. seen[p] \in RunFinalState \union {NoState}
  BY DEF TypeOK
<1>5. EventState(p) \in RunFinalState \union {NoState}
  <2>1. CASE pc[p] \in {"run.created", "run.resumed", "execution.started"}
    BY <2>1 DEF EventState, RunFinalState
  <2>2. CASE pc[p] \in {"run.paused", "run.finished"}
    BY <2>2, <1>3 DEF EventState
  <2>3. CASE pc[p] = "run.resume.noop"
    BY <2>3, <1>4 DEF EventState
  <2>4. CASE pc[p] \notin {"run.created", "run.resumed", "execution.started",
                          "run.paused", "run.finished", "run.resume.noop"}
    BY <2>4 DEF EventState
  <2> QED BY <2>1, <2>2, <2>3, <2>4
<1> QED BY <1>3, <1>5

(* An append, whole or torn, leaves the ledger files well formed.          *)
LEMMA RecordType ==
  ASSUME LedgerTypeOK, NEW p \in Proc, NEW event \in Events,
         NEW state \in RunFinalState \union {NoState},
         Record(p, event, state) \/ RecordTorn(p, event, state)
  PROVE  LedgerTypeOK'
<1>1. NewEvent(p, event, state) \in LedgerEvent
  BY DEF NewEvent, LedgerEvent, LedgerTypeOK
<1>2. Append(ledger, NewEvent(p, event, state)) \in Seq(LedgerEvent)
  BY <1>1 DEF LedgerTypeOK
<1>3. seq' \in [Proc -> Nat] /\ UNCHANGED checkpoint
  BY DEF LedgerTypeOK, Record, RecordTorn
<1>4. tail' \in Tails
  BY DEF Record, RecordTorn, Tails
<1>5. ledger' \in Seq(LedgerEvent)
  BY <1>2 DEF LedgerTypeOK, Record, RecordTorn
<1> QED BY <1>3, <1>4, <1>5 DEF LedgerTypeOK

(* Reading the last sequence number yields a natural number.               *)
LEMMA LastSequenceType ==
  ASSUME LedgerTypeOK
  PROVE  LastSequence \in Nat
<1>1. CASE ledger = <<>>
  BY <1>1 DEF LastSequence
<1>2. CASE ledger # <<>>
  <2>1. Len(ledger) \in 1..Len(ledger)
    BY <1>2 DEF LedgerTypeOK
  <2>2. ledger[Len(ledger)] \in LedgerEvent
    BY <2>1 DEF LedgerTypeOK
  <2> QED BY <1>2, <2>2 DEF LastSequence, LedgerEvent
<1> QED BY <1>1, <1>2

(* Writing a checkpoint leaves the ledger files well formed.               *)
LEMMA CheckpointType ==
  ASSUME LedgerTypeOK, NEW p \in Proc, NEW state \in RunFinalState,
         TruncateCheckpoint \/ WriteCheckpoint(p, state)
  PROVE  LedgerTypeOK'
BY DEF LedgerTypeOK, TruncateCheckpoint, WriteCheckpoint, Unwritten,
       RunCheckpoint, CheckpointFile

(* What a move of one process does to the places of all.                   *)
LEMMA GotoPlaces ==
  ASSUME TypeOK, NEW p \in Proc, NEW from, NEW to \in Places, Goto(p, from, to)
  PROVE  /\ pc' \in [Proc -> Places]
         /\ pc[p] = from
         /\ \A q \in Proc : pc'[q] = IF q = p THEN to ELSE pc[q]
BY DEF TypeOK, Goto

(* A logging step keeps all types.                                         *)
LEMMA LogType ==
  ASSUME TypeOK, NEW p \in Proc, NEW event \in Events,
         NEW next \in Places \ {"verify", "check_child"}, Log(p, event, next)
  PROVE  TypeOK'
<1>1. EventState(p) \in RunFinalState \union {NoState}
  BY OutcomeType
<1>2. LedgerTypeOK'
  BY <1>1, RecordType DEF TypeOK, Log
<1>3. /\ pc' \in [Proc -> Places]
      /\ \A q \in Proc : pc'[q] = IF q = p THEN next ELSE pc[q]
  BY GotoPlaces DEF Log
<1> QED BY <1>2, <1>3 DEF TypeOK, Log, procVars, envVars

(* So does an error.                                                       *)
LEMMA ThrowType ==
  ASSUME TypeOK, NEW p \in Proc, NEW from, Throw(p, from)
  PROVE  TypeOK'
<1>1. "error" \in Places
  BY DEF Places
<1>2. /\ pc' \in [Proc -> Places]
      /\ \A q \in Proc : pc'[q] = IF q = p THEN "error" ELSE pc[q]
  BY <1>1, GotoPlaces DEF Throw
<1> QED BY <1>2 DEF TypeOK, Throw, LedgerTypeOK, ledgerVars, procVars, envVars

(* The steps that log, by name.                                            *)
LEMMA LoggingSteps ==
  ASSUME NEW p \in Proc,
         \/ RecordNoop(p) \/ RecordCreated(p) \/ RecordResumed(p)
         \/ RecordPlanLoaded(p) \/ RecordSecurityChecked(p) \/ RecordPaused(p)
         \/ RecordExecutionStarted(p) \/ RecordExecutionCompleted(p)
         \/ RecordVerificationCompleted(p) \/ RecordMemoryUpdated(p)
         \/ RecordPrPrepared(p) \/ RecordFinished(p)
  PROVE  \E event \in Events, next \in Places \ {"verify", "check_child"} :
           Log(p, event, next)
BY DEF RecordNoop, RecordCreated, RecordResumed, RecordPlanLoaded,
       RecordSecurityChecked, RecordPaused, RecordExecutionStarted,
       RecordExecutionCompleted, RecordVerificationCompleted,
       RecordMemoryUpdated, RecordPrPrepared, RecordFinished, Events, Places

(* A settled check: there was one to run, so the count stays a natural.    *)
LEMMA SettleCheckType ==
  ASSUME TypeOK, NEW p \in Proc, NEW from \in {"verify", "check_child"},
         NEW passed \in BOOLEAN, SettleCheck(p, from, passed)
  PROVE  TypeOK'
<1> DEFINE to == AfterCheck(p)
<1>1. to \in Places
  BY DEF AfterCheck, Places, Events
<1>2. /\ pc' \in [Proc -> Places] /\ pc[p] = from
      /\ \A q \in Proc : pc'[q] = IF q = p THEN to ELSE pc[q]
  BY <1>1, GotoPlaces DEF SettleCheck
<1>3. left[p] \in Nat \ {0}
  BY <1>2 DEF TypeOK
<1>4. left' \in [Proc -> Nat]
  BY <1>3 DEF SettleCheck, TypeOK
<1>5. \A q \in Proc : pc'[q] \in {"verify", "check_child"} => left'[q] # 0
  BY <1>2, <1>3 DEF SettleCheck, TypeOK, AfterCheck
<1>6. checkFailed' \in [Proc -> BOOLEAN]
  BY DEF SettleCheck, TypeOK
<1> QED BY <1>2, <1>4, <1>5, <1>6 DEF SettleCheck, TypeOK, LedgerTypeOK,
                                      ledgerVars, envVars

(* Every step a process takes by itself keeps all types.                   *)
LEMMA AdvanceType ==
  ASSUME TypeOK, NEW p \in Proc, Advance(p)
  PROVE  TypeOK'
<1> DEFINE At(to) == /\ pc' \in [Proc -> Places]
                     /\ \A q \in Proc : pc'[q] = IF q = p THEN to ELSE pc[q]
<1> USE DEF procVars, envVars, ledgerVars
<1>0. ASSUME NEW from, NEW to \in Places, Goto(p, from, to)
      PROVE  At(to) /\ pc[p] = from
  BY <1>0, GotoPlaces
<1>1. CASE Initialize(p)
  <2>1. CASE Throw(p, "initialize")
    BY <2>1, ThrowType
  <2>2. CASE ~Throw(p, "initialize")
    <3>1. At("read_checkpoint") \/ At("run.created")
      BY <1>0, <1>1, <2>2 DEF Initialize, Places, Events
    <3> QED BY <1>1, <2>2, <3>1, LastSequenceType
            DEF Initialize, TypeOK, LedgerTypeOK, ReadLastSequence
  <2> QED BY <2>1, <2>2
<1>2. CASE ReadCheckpoint(p)
  <2>1. CASE Throw(p, "read_checkpoint")
    BY <2>1, ThrowType
  <2>2. CASE ~Throw(p, "read_checkpoint")
    <3>1. At("load_noop") \/ At("run.resumed")
      BY <1>0, <1>2, <2>2 DEF ReadCheckpoint, Places, Events
    <3>2. checkpoint.state \in RunFinalState \union {NoState}
      BY DEF TypeOK, LedgerTypeOK, RunCheckpoint
    <3> QED BY <1>2, <2>2, <3>1, <3>2 DEF ReadCheckpoint, TypeOK, LedgerTypeOK
  <2> QED BY <2>1, <2>2
<1>3. ASSUME NEW from, NEW next \in Places \ {"verify", "check_child"},
             LoadPlanAt(p, from, next)
      PROVE  TypeOK'
  <2>1. CASE Throw(p, from)
    BY <2>1, ThrowType
  <2>2. CASE ~Throw(p, from)
    <3>1. planFile \in PlanContent
      BY PlanAssumption DEF TypeOK
    <3>2. At(next)
      BY <1>0, <1>3, <2>2 DEF LoadPlanAt
    <3> QED BY <1>3, <2>2, <3>1, <3>2 DEF LoadPlanAt, TypeOK, LedgerTypeOK
  <2> QED BY <2>1, <2>2
<1>4. CASE LoadPlanForNoop(p) \/ LoadPlan(p)
  BY <1>3, <1>4 DEF LoadPlanForNoop, LoadPlan, Events, Places
<1>5. CASE RecordRouted(p)
  <2>1. EventState(p) \in RunFinalState \union {NoState}
    BY OutcomeType
  <2>2. "agents.routed" \in Events
    BY DEF Events
  <2>3. LedgerTypeOK'
    BY <1>5, <2>1, <2>2, RecordType DEF TypeOK, RecordRouted
  <2>4. plan[p].steps \in SUBSET Step
    BY DEF TypeOK, PlanContent
  <2>5. At("execution.started")
    BY <1>0, <1>5 DEF RecordRouted, Places, Events
  <2> QED BY <1>5, <2>3, <2>4, <2>5 DEF RecordRouted, TypeOK
<1>6. CASE ExecuteWithoutCommands(p)
  <2>1. At("execution.completed")
    BY <1>0, <1>6 DEF ExecuteWithoutCommands, Places, Events
  <2> QED BY <1>6, <2>1 DEF ExecuteWithoutCommands, TypeOK, LedgerTypeOK, Status
<1>7. ASSUME NEW s \in Step, SettleStep(p, s) \/ SpawnStep(p, s)
      PROVE  TypeOK'
  <2>1. CASE SettleStep(p, s)
    <3>1. At("execution.completed") \/ At("execute")
      BY <1>0, <2>1 DEF SettleStep, AfterStep, Places, Events
    <3> QED BY <2>1, <3>1 DEF SettleStep, TypeOK, LedgerTypeOK, Status
  <2>2. CASE SpawnStep(p, s)
    <3>1. At("agent_child")
      BY <1>0, <2>2 DEF SpawnStep, Places
    <3> QED BY <2>2, <3>1, <1>7 DEF SpawnStep, TypeOK, LedgerTypeOK
  <2> QED BY <1>7, <2>1, <2>2
<1>8. ASSUME NEW n \in VerificationCounts(p), DetectVerifications(p, n)
      PROVE  TypeOK'
  <2>1. n \in Nat
    BY BoundAssumption DEF VerificationCounts, TypeOK, PlanContent
  <2>2. At(IF n = 0 THEN "verification.completed" ELSE "verify")
    BY <1>0, <1>8 DEF DetectVerifications, Places, Events
  <2> QED BY <1>8, <2>1, <2>2 DEF DetectVerifications, TypeOK, LedgerTypeOK
<1>9. CASE DetectionThrows(p)
  BY <1>9, ThrowType DEF DetectionThrows
<1>10. CASE EmptyCheck(p)
  BY <1>10, SettleCheckType DEF EmptyCheck
<1>11. CASE SpawnCheck(p)
  <2>1. At("check_child") /\ pc[p] = "verify"
    BY <1>0, <1>11 DEF SpawnCheck, Places
  <2> QED BY <1>11, <2>1 DEF SpawnCheck, TypeOK, LedgerTypeOK
<1>12. CASE RecordRunMemory(p) \/ PreparePrMetadata(p)
  <2>1. At("memory.updated") \/ At("pr.prepared")
    BY <1>0, <1>12 DEF RecordRunMemory, PreparePrMetadata, WriteOutput, Places,
                       Events
  <2>2. outputs' \in [Proc -> SUBSET {"memory", "pr"}]
    BY <1>12 DEF RecordRunMemory, PreparePrMetadata, WriteOutput, TypeOK
  <2>3. UNCHANGED <<ledger, tail, checkpoint, seq, opt, seen, plan, todo, results,
                    left, checkFailed, spawned, planFile, edits>>
    BY <1>12 DEF RecordRunMemory, PreparePrMetadata, WriteOutput
  <2> QED BY <2>1, <2>2, <2>3 DEF TypeOK, LedgerTypeOK
<1>13. CASE OpenCheckpoint(p)
  <2>1. LedgerTypeOK'
    BY <1>13, CheckpointType, OutcomeType DEF OpenCheckpoint, TypeOK
  <2>2. At("write_checkpoint")
    BY <1>0, <1>13 DEF OpenCheckpoint, Places
  <2> QED BY <1>13, <2>1, <2>2 DEF OpenCheckpoint, TypeOK
<1>14. CASE SaveCheckpoint(p)
  <2>1. LedgerTypeOK'
    BY <1>14, CheckpointType, OutcomeType DEF SaveCheckpoint, TypeOK
  <2>2. At("exited")
    BY <1>0, <1>14 DEF SaveCheckpoint, Places
  <2> QED BY <1>14, <2>1, <2>2 DEF SaveCheckpoint, TypeOK
<1>15. ASSUME NEW event \in Events,
              NEW next \in Places \ {"verify", "check_child"},
              Log(p, event, next)
       PROVE  TypeOK'
  BY <1>15, LogType
<1> QED
  BY <1>1, <1>2, <1>4, <1>5, <1>6, <1>7, <1>8, <1>9, <1>10, <1>11, <1>12,
     <1>13, <1>14, <1>15, LoggingSteps DEF Advance

(* A process that waits for a child and a process that starts.             *)
LEMMA AwaitChildType ==
  ASSUME TypeOK, NEW p \in Proc, AwaitChild(p)
  PROVE  TypeOK'
<1>1. ASSUME NEW s \in Step, NEW status \in {"completed", "failed"},
             CloseStep(p, s, status)
      PROVE  TypeOK'
  <2> DEFINE to == AfterStep(p, s)
  <2>1. to \in Places \ {"verify", "check_child"}
    BY DEF AfterStep, Places, Events
  <2>2. /\ pc' \in [Proc -> Places]
        /\ \A q \in Proc : pc'[q] = IF q = p THEN to ELSE pc[q]
    BY <1>1, <2>1, GotoPlaces DEF CloseStep
  <2> HIDE DEF to
  <2> QED BY <1>1, <2>1, <2>2 DEF CloseStep, TypeOK, LedgerTypeOK, Status,
                                  ledgerVars, envVars
<1>2. ASSUME NEW passed \in BOOLEAN, CloseCheck(p, passed)
      PROVE  TypeOK'
  BY <1>2, SettleCheckType DEF CloseCheck
<1>3. ASSUME NEW from, NEW to \in Places \ {"verify", "check_child"},
             CloseGit(p, from, to)
      PROVE  TypeOK'
  <2>1. /\ pc' \in [Proc -> Places]
        /\ \A q \in Proc : pc'[q] = IF q = p THEN to ELSE pc[q]
    BY <1>3, GotoPlaces DEF CloseGit
  <2> QED BY <1>3, <2>1 DEF CloseGit, TypeOK, LedgerTypeOK, ledgerVars,
                            procVars, envVars
<1> QED BY <1>1, <1>2, <1>3 DEF AwaitChild, CloseGitBranch, CloseGitDiff, Places

LEMMA StartType ==
  ASSUME TypeOK, NEW p \in Proc, Start(p)
  PROVE  TypeOK'
<1>1. PICK o \in Options : Create(p, o) \/ Resume(p, o)
  BY DEF Start, CommandLines
<1>2. /\ pc' \in [Proc -> Places]
      /\ \A q \in Proc : pc'[q] = IF q = p THEN "initialize" ELSE pc[q]
  BY <1>1, GotoPlaces DEF Create, Resume, Places
<1> QED BY <1>1, <1>2 DEF Create, Resume, TypeOK, LedgerTypeOK, ledgerVars,
                          envVars

(* A kill, a torn append and an edit of the plan file.                     *)
LEMMA EnvironmentType ==
  ASSUME TypeOK, Environment
  PROVE  TypeOK'
<1>1. CASE EditPlan
  BY <1>1, BoundAssumption
  DEF EditPlan, TypeOK, LedgerTypeOK, ledgerVars, procVars
<1>2. ASSUME NEW p \in Proc, Kill(p)
      PROVE  TypeOK'
  BY <1>2 DEF Kill, TypeOK, LedgerTypeOK, ledgerVars, procVars, envVars, Places
<1>3. ASSUME NEW p \in Proc, AppendFails(p)
      PROVE  TypeOK'
  <2>1. EventState(p) \in RunFinalState \union {NoState}
    BY OutcomeType
  <2>2. LedgerTypeOK'
    BY <1>3, <2>1, RecordType DEF AppendFails, TypeOK
  <2> QED BY <1>3, <2>2 DEF AppendFails, TypeOK, procVars, envVars, Places
<1> QED BY <1>1, <1>2, <1>3 DEF Environment

(* Every reachable state is well typed, and a process that waits for a     *)
(* verification command still has one to run.                              *)
THEOREM TypeCorrect == Spec => []TypeOK
<1>1. Init => TypeOK
  BY BoundAssumption
  DEF Init, LedgerInit, TypeOK, LedgerTypeOK, Tails, RunCheckpoint, Unwritten,
      CheckpointFile, Options, Executor, PlanContent, NoPlan, Places
<1>2. TypeOK /\ [Next]_vars => TypeOK'
  <2> SUFFICES ASSUME TypeOK, [Next]_vars
               PROVE  TypeOK'
    OBVIOUS
  <2>1. CASE UNCHANGED vars
    BY <2>1 DEF vars, ledgerVars, procVars, envVars, TypeOK, LedgerTypeOK
  <2> QED BY <2>1, StartType, AdvanceType, AwaitChildType, EnvironmentType
          DEF Next
<1> QED BY <1>1, <1>2, PTL DEF Spec

-----------------------------------------------------------------------------
(* The ledger is written before the checkpoint.                            *)

(* What a process does to its own entries and to nobody else's.            *)
Own(p) == <<pc[p], opt[p], seen[p], plan[p], todo[p], results[p], left[p],
            checkFailed[p], outputs[p], spawned[p], seq[p]>>

(* A ledger step: nothing, or one append, whole or torn.                   *)
LedgerStep ==
  UNCHANGED ledger \/ \E e \in LedgerEvent : ledger' = Append(ledger, e)

(* An append by a process.                                                 *)
LEMMA RecordStep ==
  ASSUME TypeOK, NEW p \in Proc, NEW event \in Events,
         Record(p, event, EventState(p)) \/ RecordTorn(p, event, EventState(p))
  PROVE  /\ LedgerStep
         /\ \A q \in Proc \ {p} : seq'[q] = seq[q]
         /\ UNCHANGED checkpoint
<1>1. EventState(p) \in RunFinalState \union {NoState}
  BY OutcomeType
<1>2. NewEvent(p, event, EventState(p)) \in LedgerEvent
  BY <1>1 DEF NewEvent, LedgerEvent, TypeOK, LedgerTypeOK
<1>3. LedgerStep
  BY <1>2 DEF LedgerStep, Record, RecordTorn
<1>4. \A q \in Proc \ {p} : seq'[q] = seq[q]
  BY DEF Record, RecordTorn, TypeOK, LedgerTypeOK
<1> QED BY <1>3, <1>4 DEF Record, RecordTorn

(* No process touches the entries of another one; the ledger only grows;   *)
(* and only SaveCheckpoint and OpenCheckpoint touch the checkpoint.        *)
LEMMA Locality ==
  ASSUME TypeOK, NEW p \in Proc,
         Start(p) \/ Advance(p) \/ AwaitChild(p) \/ Kill(p) \/ AppendFails(p)
  PROVE  /\ \A q \in Proc \ {p} : UNCHANGED Own(q)
         /\ LedgerStep
         /\ \/ UNCHANGED checkpoint
            \/ OpenCheckpoint(p)
            \/ SaveCheckpoint(p)
<1> USE DEF procVars, envVars, ledgerVars, Goto, Own, LedgerStep
<1>1. ASSUME NEW event \in Events, NEW next, Log(p, event, next)
      PROVE  /\ \A q \in Proc \ {p} : UNCHANGED Own(q)
             /\ LedgerStep /\ UNCHANGED checkpoint
  BY <1>1, RecordStep DEF Log, TypeOK
<1>2. ASSUME NEW from, Throw(p, from)
      PROVE  (\A q \in Proc \ {p} : UNCHANGED Own(q)) /\ UNCHANGED <<ledger, checkpoint>>
  BY <1>2 DEF Throw, TypeOK
<1>3. ASSUME NEW from, NEW next, LoadPlanAt(p, from, next)
      PROVE  (\A q \in Proc \ {p} : UNCHANGED Own(q)) /\ UNCHANGED <<ledger, checkpoint>>
  BY <1>2, <1>3 DEF LoadPlanAt, TypeOK
<1>4. ASSUME NEW from, NEW passed, SettleCheck(p, from, passed)
      PROVE  (\A q \in Proc \ {p} : UNCHANGED Own(q)) /\ UNCHANGED <<ledger, checkpoint>>
  BY <1>4 DEF SettleCheck, TypeOK
<1>5. CASE Start(p)
  <2>1. PICK o \in Options : Create(p, o) \/ Resume(p, o)
    BY <1>5 DEF Start, CommandLines
  <2> QED BY <2>1 DEF Create, Resume, TypeOK
<1>6. CASE Initialize(p) \/ ReadCheckpoint(p)
  BY <1>6, <1>2 DEF Initialize, ReadCheckpoint, ReadLastSequence, TypeOK,
                    LedgerTypeOK
<1>7. CASE LoadPlanForNoop(p) \/ LoadPlan(p)
  BY <1>7, <1>3 DEF LoadPlanForNoop, LoadPlan
<1>8. CASE RecordRouted(p)
  BY <1>8, RecordStep DEF RecordRouted, TypeOK, Events
<1>9. CASE ExecuteWithoutCommands(p)
  BY <1>9 DEF ExecuteWithoutCommands, TypeOK
<1>10. CASE \E s \in Step : SettleStep(p, s) \/ SpawnStep(p, s)
  BY <1>10 DEF SettleStep, SpawnStep, TypeOK
<1>11. CASE \/ \E n \in VerificationCounts(p) : DetectVerifications(p, n)
            \/ DetectionThrows(p) \/ EmptyCheck(p) \/ SpawnCheck(p)
  BY <1>11, <1>2, <1>4 DEF DetectVerifications, DetectionThrows, EmptyCheck,
                           SpawnCheck, TypeOK
<1>12. CASE RecordRunMemory(p) \/ PreparePrMetadata(p)
  BY <1>12 DEF RecordRunMemory, PreparePrMetadata, WriteOutput, TypeOK
<1>13. CASE OpenCheckpoint(p) \/ SaveCheckpoint(p)
  BY <1>13 DEF OpenCheckpoint, SaveCheckpoint, TruncateCheckpoint,
               WriteCheckpoint, TypeOK
<1>14. CASE AwaitChild(p)
  BY <1>14, <1>4 DEF AwaitChild, CloseCheck, CloseStep, CloseGitBranch,
                     CloseGitDiff, CloseGit, TypeOK
<1>15. CASE Kill(p)
  BY <1>15 DEF Kill, TypeOK
<1>16. CASE AppendFails(p)
  BY <1>16, RecordStep DEF AppendFails, TypeOK
<1> QED
  BY <1>1, <1>5, <1>6, <1>7, <1>8, <1>9, <1>10, <1>11, <1>12, <1>13, <1>14,
     <1>15, <1>16, LoggingSteps DEF Advance

(* Lines stay where they are.                                              *)
LEMMA LinesStay ==
  ASSUME TypeOK, LedgerStep, NEW i \in Lines
  PROVE  i \in Lines' /\ ledger'[i] = ledger[i]
<1>1. CASE UNCHANGED ledger
  BY <1>1 DEF Lines
<1>2. ASSUME NEW e \in LedgerEvent, ledger' = Append(ledger, e)
      PROVE  i \in Lines' /\ ledger'[i] = ledger[i]
  <2>1. ledger \in Seq(LedgerEvent)
    BY DEF TypeOK, LedgerTypeOK
  <2>2. i \in 1..Len(ledger)
    BY <2>1 DEF Lines
  <2>3. Len(ledger') = Len(ledger) + 1 /\ ledger' \in Seq(LedgerEvent)
    BY <1>2, <2>1
  <2>4. i \in 1..Len(ledger')
    BY <2>1, <2>2, <2>3
  <2> QED BY <1>2, <2>1, <2>2, <2>3, <2>4 DEF Lines
<1> QED BY <1>1, <1>2 DEF LedgerStep

(* A logged end stays logged.                                              *)
LEMMA LoggedEndStays ==
  ASSUME TypeOK, LedgerStep, NEW state, NEW n, LoggedEnd(state, n)
  PROVE  LoggedEnd(state, n)'
<1>1. PICK i \in Lines : /\ ledger[i].event \in {"run.paused", "run.finished"}
                         /\ ledger[i].state = state
                         /\ ledger[i].sequence = n
  BY DEF LoggedEnd
<1>2. i \in Lines' /\ ledger'[i] = ledger[i]
  BY LinesStay
<1> QED BY <1>1, <1>2 DEF LoggedEnd

(* The outcome of a process depends on its own entries only.               *)
LEMMA OutcomeIsOwn ==
  ASSUME NEW q \in Proc, UNCHANGED <<plan[q], opt[q], results[q], checkFailed[q]>>
  PROVE  Outcome(q)' = Outcome(q)
BY DEF Outcome, AllowsSideEffects, Severities, Approved, FinalState, PausedState

(* The only ways to the checkpoint: through the two events that end a run. *)
LEMMA WaysToCheckpoint ==
  ASSUME TypeOK, NEW p \in Proc,
         Start(p) \/ Advance(p) \/ AwaitChild(p) \/ Kill(p) \/ AppendFails(p),
         pc'[p] \in {"open_checkpoint", "write_checkpoint"}
  PROVE  RecordPaused(p) \/ RecordFinished(p) \/ OpenCheckpoint(p)
<1>1. ASSUME NEW from, NEW to, Goto(p, from, to)
      PROVE  pc'[p] = to
  BY <1>1 DEF Goto, TypeOK
<1> USE <1>1
<1>2. ASSUME NEW from, NEW next \in {"run.resume.noop", "plan.loaded"},
             LoadPlanAt(p, from, next)
      PROVE  FALSE
  BY <1>2 DEF LoadPlanAt, Throw
<1>3. ~Start(p)
  BY DEF Start, Create, Resume
<1>4. ~Initialize(p) /\ ~ReadCheckpoint(p)
  BY DEF Initialize, ReadCheckpoint, Throw
<1>5. ~LoadPlanForNoop(p) /\ ~LoadPlan(p)
  BY <1>2 DEF LoadPlanForNoop, LoadPlan
<1>6. /\ ~RecordNoop(p) /\ ~RecordCreated(p) /\ ~RecordResumed(p)
      /\ ~RecordPlanLoaded(p) /\ ~RecordSecurityChecked(p)
      /\ ~RecordRouted(p) /\ ~RecordExecutionStarted(p)
      /\ ~RecordExecutionCompleted(p) /\ ~RecordVerificationCompleted(p)
      /\ ~RecordMemoryUpdated(p) /\ ~RecordPrPrepared(p)
  BY DEF RecordNoop, RecordCreated, RecordResumed, RecordPlanLoaded,
         RecordSecurityChecked, RecordRouted, RecordExecutionStarted,
         RecordExecutionCompleted, RecordVerificationCompleted,
         RecordMemoryUpdated, RecordPrPrepared, Log
<1>7. /\ ~ExecuteWithoutCommands(p)
      /\ \A s \in Step : ~SettleStep(p, s) /\ ~SpawnStep(p, s)
  BY DEF ExecuteWithoutCommands, SettleStep, SpawnStep, AfterStep
<1>8. /\ \A n \in VerificationCounts(p) : ~DetectVerifications(p, n)
      /\ ~DetectionThrows(p) /\ ~EmptyCheck(p) /\ ~SpawnCheck(p)
  BY DEF DetectVerifications, DetectionThrows, EmptyCheck, SpawnCheck, Throw,
         SettleCheck, AfterCheck
<1>9. ~RecordRunMemory(p) /\ ~PreparePrMetadata(p) /\ ~SaveCheckpoint(p)
  BY DEF RecordRunMemory, PreparePrMetadata, WriteOutput, SaveCheckpoint
<1>10. ~AwaitChild(p)
  BY DEF AwaitChild, CloseStep, CloseCheck, SettleCheck, AfterStep, AfterCheck,
         CloseGitBranch, CloseGitDiff, CloseGit
<1>11. ~Kill(p) /\ ~AppendFails(p)
  BY DEF Kill, AppendFails, TypeOK
<1> QED BY <1>3, <1>4, <1>5, <1>6, <1>7, <1>8, <1>9, <1>10, <1>11 DEF Advance

(* One step of a process keeps the invariant.                              *)
LEMMA CheckpointStep ==
  ASSUME TypeOK, CheckpointInv, NEW p \in Proc,
         Start(p) \/ Advance(p) \/ AwaitChild(p) \/ Kill(p) \/ AppendFails(p)
  PROVE  CheckpointInv'
<1>1. /\ \A q \in Proc \ {p} : UNCHANGED Own(q)
      /\ LedgerStep
      /\ UNCHANGED checkpoint \/ OpenCheckpoint(p) \/ SaveCheckpoint(p)
  BY Locality
<1>2. CheckpointBacked'
  <2>1. CASE UNCHANGED checkpoint
    BY <2>1, <1>1, LoggedEndStays DEF CheckpointInv, CheckpointBacked
  <2>2. CASE OpenCheckpoint(p)
    BY <2>2 DEF OpenCheckpoint, TruncateCheckpoint, Unwritten, CheckpointBacked
  <2>3. CASE SaveCheckpoint(p)
    <3>1. LoggedEnd(Outcome(p), seq[p])
      BY <2>3 DEF SaveCheckpoint, Goto, CheckpointInv
    <3>2. LoggedEnd(Outcome(p), seq[p])'
      BY <2>3, <3>1 DEF SaveCheckpoint, WriteCheckpoint, LoggedEnd, Lines,
                        procVars, Outcome, AllowsSideEffects, Severities,
                        Approved, FinalState, PausedState
    <3>3. Outcome(p)' = Outcome(p) /\ seq'[p] = seq[p]
      BY <2>3, OutcomeIsOwn DEF SaveCheckpoint, WriteCheckpoint, procVars
    <3>4. checkpoint'.file = "written" =>
            checkpoint'.state = Outcome(p) /\ checkpoint'.sequence = seq[p]
      BY <2>3 DEF SaveCheckpoint, WriteCheckpoint, Unwritten
    <3> QED BY <3>2, <3>3, <3>4 DEF CheckpointBacked, LoggedEnd
  <2> QED BY <1>1, <2>1, <2>2, <2>3
<1>3. ASSUME NEW q \in Proc \ {p},
             pc'[q] \in {"open_checkpoint", "write_checkpoint"}
      PROVE  LoggedEnd(Outcome(q), seq[q])'
  <2>1. /\ pc'[q] = pc[q] /\ seq'[q] = seq[q]
        /\ UNCHANGED <<plan[q], opt[q], results[q], checkFailed[q]>>
    BY <1>1 DEF Own
  <2>2. LoggedEnd(Outcome(q), seq[q])
    BY <1>3, <2>1 DEF CheckpointInv
  <2>3. Outcome(q)' = Outcome(q)
    BY <2>1, OutcomeIsOwn
  <2> DEFINE o == Outcome(q)
             n == seq[q]
  <2>4. PICK i \in Lines : /\ ledger[i].event \in {"run.paused", "run.finished"}
                           /\ ledger[i].state = o
                           /\ ledger[i].sequence = n
    BY <2>2 DEF LoggedEnd
  <2>5. i \in Lines' /\ ledger'[i] = ledger[i]
    BY <1>1, LinesStay
  <2> QED BY <2>1, <2>3, <2>4, <2>5 DEF LoggedEnd
<1>4. ASSUME pc'[p] \in {"open_checkpoint", "write_checkpoint"}
      PROVE  LoggedEnd(Outcome(p), seq[p])'
  <2>1. CASE OpenCheckpoint(p)
    <3>1. LoggedEnd(Outcome(p), seq[p])
      BY <2>1 DEF OpenCheckpoint, Goto, CheckpointInv
    <3>2. Outcome(p)' = Outcome(p) /\ seq' = seq /\ ledger' = ledger
      BY <2>1, OutcomeIsOwn DEF OpenCheckpoint, TruncateCheckpoint, procVars
    <3> QED BY <3>1, <3>2 DEF LoggedEnd, Lines
  <2>2. CASE RecordPaused(p) \/ RecordFinished(p)
    <3>1. /\ pc[p] \in {"run.paused", "run.finished"}
          /\ Record(p, pc[p], EventState(p))
          /\ UNCHANGED procVars
      BY <2>2 DEF RecordPaused, RecordFinished, Log, Goto
    <3>2. EventState(p) = Outcome(p) /\ Outcome(p)' = Outcome(p)
      BY <3>1, OutcomeIsOwn DEF EventState, procVars
    <3> DEFINE i == Len(ledger) + 1
    <3>3. i \in Lines' /\ ledger'[i] = NewEvent(p, pc[p], EventState(p))
      BY <3>1 DEF Record, Lines, TypeOK, LedgerTypeOK
    <3>4. seq'[p] = seq[p] + 1
      BY <3>1 DEF Record, TypeOK, LedgerTypeOK
    <3>5. /\ ledger'[i].event \in {"run.paused", "run.finished"}
          /\ ledger'[i].state = Outcome(p)'
          /\ ledger'[i].sequence = seq'[p]
      BY <3>1, <3>2, <3>3, <3>4 DEF NewEvent
    <3> QED BY <3>3, <3>5 DEF LoggedEnd
  <2> QED BY <1>4, <2>1, <2>2, WaysToCheckpoint
<1> QED BY <1>2, <1>3, <1>4 DEF CheckpointInv

(* The ledger backs the checkpoint, and whoever is about to write it.      *)
LEMMA CheckpointInvariant == Spec => []CheckpointInv
<1>1. Init => CheckpointInv
  BY DEF Init, LedgerInit, CheckpointInv, CheckpointBacked, Unwritten
<1>2. TypeOK /\ CheckpointInv /\ [Next]_vars => CheckpointInv'
  <2> SUFFICES ASSUME TypeOK, CheckpointInv, [Next]_vars
               PROVE  CheckpointInv'
    OBVIOUS
  <2>1. CASE UNCHANGED <<ledgerVars, pc, procVars>>
    <3>1. \A p \in Proc : Outcome(p)' = Outcome(p)
      BY <2>1, OutcomeIsOwn DEF procVars
    <3> QED BY <2>1, <3>1 DEF CheckpointInv, CheckpointBacked, LoggedEnd, Lines,
                              ledgerVars
  <2>2. CASE UNCHANGED vars \/ EditPlan
    BY <2>1, <2>2 DEF vars, EditPlan
  <2> QED BY <2>2, CheckpointStep DEF Next, Environment
<1> QED BY <1>1, <1>2, TypeCorrect, PTL DEF Spec

(* Whatever process is killed, whichever append is torn and however the    *)
(* processes interleave, a checkpoint that can be read is backed by the    *)
(* ledger event with its state and its sequence.                           *)
THEOREM LedgerBeforeCheckpoint == Spec => []CheckpointBacked
<1>1. CheckpointInv => CheckpointBacked
  BY DEF CheckpointInv
<1> QED BY <1>1, CheckpointInvariant, PTL

-----------------------------------------------------------------------------
(* Sequence numbers, when one process at a time works on the run.          *)

(* What a step of a running process does to the ledger and its counter.    *)
LEMMA SequenceStep ==
  ASSUME TypeOK, NEW p \in Proc,
         Advance(p) \/ AwaitChild(p) \/ Kill(p) \/ AppendFails(p)
  PROVE  /\ Live(p)
         /\ pc'[p] # "initialize"
         /\ \/ UNCHANGED <<ledger, seq>> /\ pc[p] # "initialize"
            \/ UNCHANGED <<ledger, seq>> /\ ~Live(p)'
            \/ ReadLastSequence(p)
            \/ /\ pc[p] # "initialize"
               /\ \E event \in Events :
                    \/ Record(p, event, EventState(p))
                    \/ RecordTorn(p, event, EventState(p)) /\ ~Live(p)'
<1> USE DEF Live, Ended, ledgerVars
<1>1. ASSUME NEW from, NEW to, Goto(p, from, to)
      PROVE  pc[p] = from /\ pc'[p] = to
  BY <1>1 DEF Goto, TypeOK
<1>2. \A event \in Events :
        event \notin Ended \union {"idle"} /\ event # "initialize"
  BY DEF Events
<1>3. CASE \E event \in Events, next \in Places \ {"initialize"} : Log(p, event, next)
  BY <1>1, <1>2, <1>3 DEF Log
<1>4. CASE \/ RecordNoop(p) \/ RecordCreated(p) \/ RecordResumed(p)
           \/ RecordPlanLoaded(p) \/ RecordSecurityChecked(p) \/ RecordPaused(p)
           \/ RecordExecutionStarted(p) \/ RecordExecutionCompleted(p)
           \/ RecordVerificationCompleted(p) \/ RecordMemoryUpdated(p)
           \/ RecordPrPrepared(p) \/ RecordFinished(p)
  BY <1>3, <1>4 DEF RecordNoop, RecordCreated, RecordResumed,
       RecordPlanLoaded, RecordSecurityChecked, RecordPaused,
       RecordExecutionStarted, RecordExecutionCompleted,
       RecordVerificationCompleted, RecordMemoryUpdated, RecordPrPrepared,
       RecordFinished, Events, Places
<1>5. CASE Initialize(p)
  BY <1>1, <1>5 DEF Initialize, Throw
<1>6. CASE ReadCheckpoint(p)
  BY <1>1, <1>6 DEF ReadCheckpoint, Throw
<1>7. CASE LoadPlanForNoop(p) \/ LoadPlan(p)
  BY <1>1, <1>7 DEF LoadPlanForNoop, LoadPlan, LoadPlanAt, Throw
<1>8. CASE RecordRouted(p)
  BY <1>1, <1>8 DEF RecordRouted, Events
<1>9. CASE \/ ExecuteWithoutCommands(p)
           \/ \E s \in Step : SettleStep(p, s) \/ SpawnStep(p, s)
  BY <1>1, <1>9 DEF ExecuteWithoutCommands, SettleStep, SpawnStep, AfterStep
<1>10. CASE \/ \E n \in VerificationCounts(p) : DetectVerifications(p, n)
            \/ DetectionThrows(p) \/ EmptyCheck(p) \/ SpawnCheck(p)
  BY <1>1, <1>10 DEF DetectVerifications, DetectionThrows, EmptyCheck,
       SpawnCheck, Throw, SettleCheck, AfterCheck
<1>11. CASE RecordRunMemory(p) \/ PreparePrMetadata(p)
  BY <1>1, <1>11 DEF RecordRunMemory, PreparePrMetadata, WriteOutput
<1>12. CASE OpenCheckpoint(p) \/ SaveCheckpoint(p)
  BY <1>1, <1>12 DEF OpenCheckpoint, SaveCheckpoint, TruncateCheckpoint,
       WriteCheckpoint
<1>13. CASE AwaitChild(p)
  BY <1>1, <1>13 DEF AwaitChild, CloseGitBranch, CloseGitDiff, CloseGit,
       CloseStep, CloseCheck, SettleCheck, AfterStep,
       AfterCheck
<1>14. CASE Kill(p)
  BY <1>14 DEF Kill, TypeOK
<1>15. CASE AppendFails(p)
  <2>1. pc[p] \in Events /\ pc'[p] = "error"
    BY <1>15 DEF AppendFails, TypeOK
  <2> QED BY <1>2, <1>15, <2>1 DEF AppendFails
<1> QED
  BY <1>4, <1>5, <1>6, <1>7, <1>8, <1>9, <1>10, <1>11, <1>12, <1>13, <1>14,
     <1>15 DEF Advance

(* An append of the next number keeps positions and numbers together.      *)
LEMMA AppendKeepsPositions ==
  ASSUME TypeOK, SequenceIsPosition, NEW e \in LedgerEvent,
         e.sequence = Len(ledger) + 1, ledger' = Append(ledger, e)
  PROVE  SequenceIsPosition' /\ Len(ledger') = Len(ledger) + 1
<1>1. ledger \in Seq(LedgerEvent) /\ Len(ledger) \in Nat
  BY DEF TypeOK, LedgerTypeOK
<1>2. Len(ledger') = Len(ledger) + 1 /\ ledger' \in Seq(LedgerEvent)
  BY <1>1
<1>3. ASSUME NEW i \in Lines'
      PROVE  ledger'[i].sequence = i
  <2>1. i \in 1..(Len(ledger) + 1)
    BY <1>2 DEF Lines
  <2>2. CASE i = Len(ledger) + 1
    BY <1>1, <2>2
  <2>3. CASE i # Len(ledger) + 1
    <3>1. i \in 1..Len(ledger)
      BY <1>1, <2>1, <2>3
    <3>2. i \in Lines /\ ledger'[i] = ledger[i]
      BY <1>1, <3>1 DEF Lines
    <3> QED BY <3>2 DEF SequenceIsPosition
  <2> QED BY <2>2, <2>3
<1> QED BY <1>2, <1>3 DEF SequenceIsPosition

(* The last line of a ledger numbered by position carries its length.      *)
LEMMA LastIsLength ==
  ASSUME TypeOK, SequenceIsPosition
  PROVE  LastSequence = Len(ledger)
<1>1. CASE ledger = <<>>
  BY <1>1 DEF LastSequence
<1>2. CASE ledger # <<>>
  <2>1. Len(ledger) \in Lines
    BY <1>2 DEF Lines, TypeOK, LedgerTypeOK
  <2> QED BY <1>2, <2>1 DEF LastSequence, SequenceIsPosition
<1> QED BY <1>1, <1>2

(* A step of the one live process.                                         *)
LEMMA SerialStep ==
  ASSUME TypeOK, SerialInv, NEW p \in Proc,
         Advance(p) \/ AwaitChild(p) \/ Kill(p) \/ AppendFails(p)
  PROVE  SerialInv'
<1>1. /\ Live(p)
      /\ pc'[p] # "initialize"
      /\ \A q \in Proc \ {p} : ~Live(q) /\ ~Live(q)'
  <2>1. Live(p) /\ pc'[p] # "initialize"
    BY SequenceStep
  <2>2. \A q \in Proc \ {p} : pc'[q] = pc[q]
    BY Locality DEF Own
  <2> QED BY <2>1, <2>2 DEF SerialInv, Live
<1>2. SUFFICES SequenceIsPosition' /\ (Live(p)' => seq'[p] = Len(ledger'))
  BY <1>1 DEF SerialInv
<1>3. CASE UNCHANGED <<ledger, seq>>
           /\ (pc[p] # "initialize" \/ ~Live(p)')
  BY <1>1, <1>3 DEF SerialInv, SequenceIsPosition, Lines
<1>4. CASE ReadLastSequence(p)
  <2>1. LastSequence = Len(ledger)
    BY LastIsLength DEF SerialInv
  <2> QED BY <1>4, <2>1 DEF ReadLastSequence, SerialInv, SequenceIsPosition,
                            Lines, TypeOK, LedgerTypeOK
<1>5. ASSUME NEW event \in Events, pc[p] # "initialize",
             \/ Record(p, event, EventState(p))
             \/ RecordTorn(p, event, EventState(p)) /\ ~Live(p)'
      PROVE  SequenceIsPosition' /\ (Live(p)' => seq'[p] = Len(ledger'))
  <2> DEFINE e == NewEvent(p, event, EventState(p))
  <2>1. e \in LedgerEvent /\ e.sequence = Len(ledger) + 1
    <3>1. EventState(p) \in RunFinalState \union {NoState}
      BY OutcomeType
    <3>2. seq[p] = Len(ledger)
      BY <1>1, <1>5 DEF SerialInv
    <3> QED BY <3>1, <3>2 DEF NewEvent, LedgerEvent, TypeOK, LedgerTypeOK
  <2>2. CASE ledger' = Append(ledger, e)
    <3>1. SequenceIsPosition' /\ Len(ledger') = Len(ledger) + 1
      BY <2>1, <2>2, AppendKeepsPositions DEF SerialInv
    <3>2. seq'[p] = seq[p] + 1
      BY <1>5 DEF Record, RecordTorn, TypeOK, LedgerTypeOK
    <3> QED BY <1>1, <1>5, <3>1, <3>2 DEF SerialInv
  <2>3. CASE ledger' = ledger /\ ~Live(p)'
    BY <2>3 DEF SerialInv, SequenceIsPosition, Lines
  <2> QED BY <1>5, <2>2, <2>3 DEF Record, RecordTorn
<1> QED BY <1>3, <1>4, <1>5, SequenceStep

(* If a resume waits until nobody works on the run, one process at a time  *)
(* is live and its counter is the length of the ledger.                    *)
LEMMA SerialInvariant ==
  ASSUME ~Concurrent
  PROVE  Spec => []SerialInv
<1>1. Init => SerialInv
  BY DEF Init, LedgerInit, SerialInv, SequenceIsPosition, Lines, Live
<1>2. TypeOK /\ SerialInv /\ [Next]_vars => SerialInv'
  <2> SUFFICES ASSUME TypeOK, SerialInv, [Next]_vars
               PROVE  SerialInv'
    OBVIOUS
  <2>1. CASE UNCHANGED <<ledgerVars, pc>>
    BY <2>1 DEF SerialInv, SequenceIsPosition, Lines, Live, ledgerVars
  <2>2. CASE UNCHANGED vars \/ EditPlan
    BY <2>1, <2>2 DEF vars, EditPlan
  <2>3. ASSUME NEW p \in Proc, Start(p)
        PROVE  SerialInv'
    <3>1. /\ \A q \in Proc : ~Live(q)
          /\ pc' = [pc EXCEPT ![p] = "initialize"]
          /\ UNCHANGED ledgerVars
      BY <2>3 DEF Start, Create, Resume, Goto, Live
    <3>2. \A q \in Proc : Live(q)' => q = p
      BY <3>1 DEF Live, TypeOK
    <3>3. pc'[p] = "initialize"
      BY <3>1 DEF TypeOK
    <3> QED BY <3>1, <3>2, <3>3 DEF SerialInv, SequenceIsPosition, Lines,
                                    ledgerVars
  <2> QED BY <2>2, <2>3, SerialStep DEF Next, Environment
<1> QED BY <1>1, <1>2, TypeCorrect, PTL DEF Spec

(* If a resume waits until nobody works on the run, the complete lines of  *)
(* the ledger are numbered 1, 2, 3, ... whatever is killed or torn.        *)
THEOREM SerialSequence ==
  ASSUME ~Concurrent
  PROVE  Spec => []SequenceIsPosition
<1>1. SerialInv => SequenceIsPosition
  BY DEF SerialInv
<1>2. Spec => []SerialInv
  BY SerialInvariant
<1> QED BY <1>1, <1>2, PTL

=============================================================================
