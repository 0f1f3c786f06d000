------------------------------ MODULE RunResumes ------------------------------
(***************************************************************************)
(* Machine-checked proofs of what holds when a resume waits until nobody   *)
(* works on the run (~Concurrent), for any number of resumes, any plans,   *)
(* kills and torn appends: ledger and checkpoint agree when the run is at  *)
(* rest, a run is executed again only after a failure, and the whole run   *)
(* implements the abstract RunStatus.                                      *)
(***************************************************************************)
EXTENDS RunGuarantees, FiniteSetTheorems

(* A process that has not read the checkpoint yet.                         *)
Arriving == {"initialize", "read_checkpoint"}

(* A process that is on its way to find that it has nothing to do.         *)
Noop == Arriving \union {"load_noop", "run.resume.noop"}

(* What checkpoint.json holds while p, which has read it, works.           *)
Finds(p) ==
  IF opt[p].resume
  THEN checkpoint.file = "written" /\ checkpoint.state = seen[p]
  ELSE checkpoint.file = "absent"

Last == ledger[Len(ledger)]

(* A live process and the files: it finds the checkpoint as it was when it *)
(* came, and saves the end that it logged last.                            *)
Alone(p) ==
  /\ pc[p] = "idle" => \A i \in Lines : ledger[i].by # p
  /\ pc[p] = "initialize" /\ ~opt[p].resume => checkpoint.file = "absent"
  /\ pc[p] \in Noop \ {"initialize"} => opt[p].resume
  /\ Live(p) /\ pc[p] \notin Arriving \union {"write_checkpoint"} => Finds(p)
  /\ Live(p) /\ pc[p] \notin Noop => PriorStatus(p) \in Abstract!Open
  /\ pc[p] = "write_checkpoint" => checkpoint.file = "empty"
  /\ pc[p] \in Ending => ledger # <<>> /\ Last.by = p /\ Last.state = Outcome(p)

(* The files when the process that wrote them last has come to its end:    *)
(* they agree, and after an execution they say that the run has ended.     *)
Agreement ==
  ledger # <<>> /\ pc[Last.by] = "exited" =>
    checkpoint.file = "written" /\ checkpoint.state = Last.state

ExecutionSettles ==
  \A i \in Lines :
    ledger[i].event = "execution.started" /\ pc[ledger[i].by] = "exited" =>
      checkpoint.file = "written" /\ checkpoint.state \in TerminalStates

ResumeInv ==
  /\ \A p \in Proc : Alone(p)
  /\ ledger = <<>> => checkpoint.file = "absent"
  /\ checkpoint.file = "written" =>
       checkpoint.state \in {"approval_required"} \union TerminalStates
  /\ Agreement
  /\ ExecutionSettles
  /\ ReexecutionOnlyAfterFailure

-----------------------------------------------------------------------------

(* The states that a run can be saved with.                                *)
LEMMA OutcomeSettles ==
  ASSUME NEW p \in Proc
  PROVE  /\ Outcome(p) \in {"approval_required"} \union TerminalStates
         /\ AllowsSideEffects(p) => Outcome(p) \in TerminalStates
<1>1. FinalState(p) \in TerminalStates
  BY FinalStateTells DEF TerminalStates
<1>2. PausedState(p) \in {"approval_required", "failed"}
  BY DEF PausedState
<1> QED BY <1>1, <1>2 DEF Outcome, TerminalStates

(* The state of a process as far as the checkpoint is concerned.           *)
LEMMA PriorStatusIsOwn ==
  ASSUME NEW p \in Proc, UNCHANGED <<opt[p], seen[p]>>
  PROVE  PriorStatus(p)' = PriorStatus(p)
BY DEF PriorStatus

(* The line of an append is the last one.                                  *)
LEMMA AppendedIsLast ==
  ASSUME TypeOK, NEW p \in Proc, Appends(p)
  PROVE  /\ ledger' # <<>>
         /\ Last' = NewEvent(p, pc[p], EventState(p))
<1> DEFINE e == NewEvent(p, pc[p], EventState(p))
<1>1. ledger \in Seq(LedgerEvent) /\ ledger' = Append(ledger, e)
  BY DEF TypeOK, LedgerTypeOK, Appends
<1> HIDE DEF e
<1>2. ledger' # <<>> /\ ledger'[Len(ledger')] = e
  BY <1>1
<1> QED BY <1>2 DEF Last, e

(* A process that starts finds the files as the others left them.          *)
LEMMA AloneStep ==
  ASSUME TypeOK, ResumeInv, EarnedInv, NEW p \in Proc, Moves(p)
  PROVE  Alone(p)'
<1> USE DEF Moves, Follows, Frame, Gets, Saves, Executing
<1>1. Alone(p) /\ Earning(p)
  BY DEF ResumeInv, EarnedInv, Earned
<1>2. pc'[p] # "idle"
  BY DEF Ended
<1>3. ASSUME pc'[p] = "initialize", ~opt'[p].resume
      PROVE  checkpoint'.file = "absent"
  <2>1. \A q \in Proc : pc[q] = "idle"
    BY <1>3
  <2>2. \A i \in Lines : ledger[i].by \notin Proc
    BY <2>1 DEF ResumeInv, Alone
  <2>3. \A i \in Lines : ledger[i] \in LedgerEvent
    BY DEF TypeOK, LedgerTypeOK, Lines
  <2>4. Lines = {}
    BY <2>2, <2>3 DEF LedgerEvent
  <2>5. ledger = <<>>
    BY <2>4 DEF Lines, TypeOK, LedgerTypeOK
  <2> QED BY <1>3, <2>1, <2>5 DEF ResumeInv
<1>4. pc'[p] \in Noop \ {"initialize"} => opt'[p].resume
  BY <1>1 DEF Alone, Noop, Arriving
<1>5. ASSUME Live(p)', pc'[p] \notin Arriving \union {"write_checkpoint"}
      PROVE  Finds(p)'
  <2>1. UNCHANGED checkpoint /\ opt'[p] = opt[p]
    BY <1>5 DEF Live, Ended, Arriving
  <2>2. CASE pc[p] \in Arriving
    BY <1>1, <1>5, <2>1, <2>2 DEF Alone, Finds, Live, Ended, Arriving, Noop
  <2>3. CASE pc[p] \notin Arriving
    <3>1. Live(p) /\ pc[p] # "write_checkpoint" /\ seen'[p] = seen[p]
      BY <1>5, <2>3 DEF Live, Ended, Arriving
    <3> QED BY <1>1, <2>1, <2>3, <3>1 DEF Alone, Finds
  <2> QED BY <2>2, <2>3
<1>6. ASSUME Live(p)', pc'[p] \notin Noop
      PROVE  PriorStatus(p)' \in Abstract!Open
  <2>1. opt'[p] = opt[p]
    BY <1>6 DEF Live, Ended, Noop, Arriving
  <2>2. CASE pc[p] = "initialize"
    BY <1>6, <2>1, <2>2 DEF PriorStatus, Abstract!Open, Live, Ended, Noop, Arriving
  <2>3. CASE pc[p] = "read_checkpoint"
    <3>1. seen'[p] = "approval_required"
      BY <1>6, <2>3 DEF ResumeInv, Live, Ended, Noop
    <3> QED BY <3>1 DEF PriorStatus, Abstract!Open
  <2>4. CASE pc[p] \notin Arriving
    <3>1. Live(p) /\ pc[p] \notin Noop /\ seen'[p] = seen[p]
      BY <1>6, <2>4 DEF Live, Ended, Arriving, Noop
    <3> QED BY <1>1, <2>1, <3>1, PriorStatusIsOwn DEF Alone
  <2> QED BY <2>2, <2>3, <2>4 DEF Arriving
<1>7. pc'[p] = "write_checkpoint" => checkpoint'.file = "empty"
  BY DEF Unwritten
<1>8. ASSUME pc'[p] \in Ending
      PROVE  ledger' # <<>> /\ Last'.by = p /\ Last'.state = Outcome(p)'
  <2>1. Outcome(p)' = Outcome(p)
    BY <1>8, OutcomeIsOwn DEF Ending
  <2>2. CASE pc[p] = "open_checkpoint"
    <3>1. UNCHANGED ledger
      BY <2>2 DEF Writes, Appends, Events
    <3> QED BY <1>1, <2>1, <2>2, <3>1 DEF Alone, Ending, Last
  <2>3. CASE pc[p] \in {"run.paused", "run.finished"}
    <3>1. Appends(p)
      BY <1>8, <2>3 DEF Writes, Events, Ending
    <3>2. EventState(p) = Outcome(p)
      BY <2>3 DEF EventState
    <3>3. /\ NewEvent(p, pc[p], EventState(p)).by = p
          /\ NewEvent(p, pc[p], EventState(p)).state = EventState(p)
      BY DEF NewEvent
    <3> QED BY <2>1, <3>1, <3>2, <3>3, AppendedIsLast
  <2> QED BY <1>8, <2>2, <2>3 DEF Ending
<1> QED BY <1>2, <1>3, <1>4, <1>5, <1>6, <1>7, <1>8 DEF Alone

(* The others are idle or have ended.                                      *)
LEMMA AloneElsewhere ==
  ASSUME TypeOK, NEW p \in Proc, Moves(p), NEW q \in Proc \ {p}, Alone(q),
         ~Live(q), UNCHANGED Own(q)
  PROVE  Alone(q)'
<1>1. pc'[q] = pc[q] /\ ~Live(q)'
  BY DEF Own, Live
<1>2. pc'[q] \notin Noop \union Ending
  BY <1>1 DEF Live, Ended, Noop, Arriving, Ending
<1>3. ASSUME pc'[q] = "idle", NEW i \in Lines'
      PROVE  ledger'[i].by # q
  <2>1. NewEvent(p, pc[p], EventState(p)).by = p
    BY DEF NewEvent
  <2> QED BY <1>1, <1>3, <2>1, LineOfStep DEF Alone, Moves
<1> QED BY <1>1, <1>2, <1>3 DEF Alone, Noop, Arriving, Ending

(* Where the last line comes from, and what its process has left behind.   *)
LEMMA AgreementStep ==
  ASSUME TypeOK, ResumeInv, SerialInv, NEW p \in Proc, Moves(p),
         \A q \in Proc \ {p} : UNCHANGED Own(q)
  PROVE  Agreement'
<1> USE DEF Moves, Follows, Executing
<1> SUFFICES ASSUME ledger' # <<>>, pc'[Last'.by] = "exited"
             PROVE  checkpoint'.file = "written" /\ checkpoint'.state = Last'.state
  BY DEF Agreement
<1>1. Alone(p)
  BY DEF ResumeInv
<1>2. CASE Appends(p)
  <2>1. Last' = NewEvent(p, pc[p], EventState(p))
    BY <1>2, AppendedIsLast
  <2>2. Last'.by = p /\ Last'.state = EventState(p)
    BY <2>1 DEF NewEvent
  <2>3. pc[p] = "run.resume.noop"
    BY <1>2, <2>2 DEF Appends, Events
  <2>4. checkpoint.file = "written" /\ checkpoint.state = seen[p]
    BY <1>1, <2>3 DEF Alone, Finds, Noop, Arriving, Live, Ended
  <2>5. EventState(p) = seen[p]
    BY <2>3 DEF EventState
  <2> QED BY <2>2, <2>3, <2>4, <2>5 DEF Saves
<1>3. CASE UNCHANGED ledger
  <2> DEFINE q == Last.by
  <2>1. q \in Proc
    <3>1. Last \in LedgerEvent
      BY <1>3 DEF Last, TypeOK, LedgerTypeOK
    <3> QED BY <3>1 DEF LedgerEvent
  <2>2. Last' = Last
    BY <1>3 DEF Last
  <2> HIDE DEF q
  <2>3. CASE q = p
    <3>1. pc[p] = "write_checkpoint"
      <4>1. pc[p] # "run.resume.noop"
        BY <1>3, <2>2, <2>3 DEF q, Writes, Appends, Events, TypeOK, LedgerTypeOK
      <4> QED BY <2>2, <2>3, <4>1 DEF q
    <3>2. Last.state = Outcome(p) /\ checkpoint.file = "empty"
      BY <1>1, <3>1 DEF Alone, Ending
    <3> QED BY <2>2, <2>3, <3>1, <3>2 DEF q, Saves
  <2>4. CASE q # p
    <3>1. pc[q] = "exited"
      BY <2>1, <2>2, <2>4 DEF q, Own
    <3>2. checkpoint.file = "written" /\ checkpoint.state = Last.state
      BY <1>3, <3>1 DEF q, ResumeInv, Agreement
    <3>3. pc[p] \notin Ending
      BY <1>1, <2>4 DEF q, Alone
    <3> QED BY <2>2, <3>2, <3>3 DEF Saves, Ending
  <2> QED BY <2>3, <2>4
<1> QED BY <1>2, <1>3 DEF Writes

(* An execution leaves a checkpoint that ends the run, ...                 *)
LEMMA ExecutionStep ==
  ASSUME TypeOK, ResumeInv, EarnedInv, NEW p \in Proc, Moves(p),
         \A q \in Proc \ {p} : UNCHANGED Own(q)
  PROVE  ExecutionSettles'
<1> USE DEF Moves, Follows, Executing
<1> SUFFICES ASSUME NEW i \in Lines', ledger'[i].event = "execution.started",
                    pc'[ledger'[i].by] = "exited"
             PROVE  checkpoint'.file = "written" /\ checkpoint'.state \in TerminalStates
  BY DEF ExecutionSettles
<1>1. Alone(p)
  BY DEF ResumeInv
<1>2. i \in Lines /\ ledger'[i] = ledger[i]
  <2>1. CASE pc[p] \in Events /\ ledger'[i] = NewEvent(p, pc[p], EventState(p))
    <3>1. pc[p] = "execution.started" /\ pc'[p] = "exited"
      BY <2>1 DEF NewEvent
    <3> QED BY <3>1
  <2> QED BY <2>1, LineOfStep
<1> DEFINE q == ledger[i].by
<1>3. q \in Proc /\ pc'[q] = "exited" /\ ledger[i].event = "execution.started"
  <2>1. ledger[i] \in LedgerEvent
    BY <1>2 DEF TypeOK, LedgerTypeOK, Lines
  <2> QED BY <1>2, <2>1 DEF LedgerEvent
<1>4. pc[q] \in Begun \union Stopping /\ AllowsSideEffects(q)
  BY <1>2, <1>3 DEF EarnedInv, Earned, Vouches
<1>5. pc[q] = "exited" => checkpoint.file = "written" /\ checkpoint.state \in TerminalStates
  BY <1>2, <1>3 DEF ResumeInv, ExecutionSettles
<1> HIDE DEF q
<1>6. CASE q = p
  <2>1. pc[p] = "write_checkpoint"
    BY <1>3, <1>4, <1>6 DEF Begun, Executed, Verified, Remembered, Prepared,
                            Stopping, Ending, Ended
  <2>2. checkpoint'.file = "written" /\ checkpoint'.state = Outcome(p)
    BY <1>1, <1>3, <1>6, <2>1 DEF Alone, Saves
  <2> QED BY <1>4, <1>6, <2>2, OutcomeSettles
<1>7. CASE q # p
  <2>1. pc[q] = "exited"
    BY <1>3, <1>7 DEF Own
  <2>2. checkpoint.file = "written" /\ checkpoint.state \in TerminalStates
    BY <1>5, <2>1
  <2>3. pc[p] # "write_checkpoint"
    BY <1>1, <2>2 DEF Alone
  <2>4. pc[p] # "open_checkpoint"
    <3>1. ASSUME pc[p] = "open_checkpoint"
          PROVE  FALSE
      <4>1. Finds(p) /\ PriorStatus(p) \in Abstract!Open
        BY <1>1, <3>1 DEF Alone, Live, Ended, Noop, Arriving
      <4> QED BY <2>2, <4>1 DEF Finds, PriorStatus, Abstract!Open, TerminalStates
    <3> QED BY <3>1
  <2> QED BY <2>2, <2>3, <2>4 DEF Saves
<1> QED BY <1>6, <1>7

(* ... so nobody executes again unless the one who did has died.           *)
LEMMA ReexecutionStep ==
  ASSUME TypeOK, ResumeInv, SerialInv, EarnedInv, NEW p \in Proc, Moves(p),
         Live(p), \A q \in Proc \ {p} : UNCHANGED Own(q)
  PROVE  ReexecutionOnlyAfterFailure'
<1> USE DEF Moves, Follows, Executing
<1> SUFFICES ASSUME NEW i \in Lines', NEW j \in Lines', i < j,
                    ledger'[i].event = "execution.started",
                    ledger'[j].event = "execution.started"
             PROVE  pc'[ledger'[i].by] \in {"error", "killed"}
  BY DEF ReexecutionOnlyAfterFailure
<1>1. ledger \in Seq(LedgerEvent) /\ Len(ledger) \in Nat
  BY DEF TypeOK, LedgerTypeOK
<1>2. i \in Lines /\ ledger'[i] = ledger[i]
  <2>1. CASE i = Len(ledger) + 1
    <3>1. j \in Lines \/ j = Len(ledger) + 1
      BY LineOfStep
    <3> QED BY <1>1, <2>1, <3>1 DEF Lines
  <2> QED BY <2>1, LineOfStep
<1> DEFINE q == ledger[i].by
<1>3. q \in Proc /\ ledger[i].event = "execution.started"
  <2>1. ledger[i] \in LedgerEvent
    BY <1>1, <1>2 DEF Lines
  <2> QED BY <1>2, <2>1 DEF LedgerEvent
<1>4. pc[q] \in Begun \union Stopping
  BY <1>2, <1>3 DEF EarnedInv, Earned, Vouches
<1>5. CASE j \in Lines /\ ledger'[j] = ledger[j]
  <2>1. pc[q] \in {"error", "killed"}
    BY <1>2, <1>3, <1>5 DEF ResumeInv, ReexecutionOnlyAfterFailure
  <2>2. pc'[q] = pc[q]
    BY <1>3, <2>1 DEF Own, Ended
  <2> QED BY <1>2, <2>1, <2>2
<1>6. CASE pc[p] \in Events /\ ledger'[j] = NewEvent(p, pc[p], EventState(p))
  <2>1. pc[p] = "execution.started"
    BY <1>6 DEF NewEvent
  <2>2. q # p
    BY <1>4, <2>1 DEF Begun, Executed, Verified, Remembered, Prepared,
                      Stopping, Ending, Ended
  <2>3. ~Live(q) /\ pc'[q] = pc[q]
    BY <1>3, <2>2 DEF SerialInv, Own
  <2>4. pc[q] \in Ended
    BY <1>4, <2>3 DEF Live, Begun, Executed, Verified, Remembered, Prepared,
                      Stopping, Ending, Ended
  <2>5. pc[q] # "exited"
    <3>1. Finds(p) /\ PriorStatus(p) \in Abstract!Open
      BY <2>1 DEF ResumeInv, Alone, Live, Ended, Noop, Arriving
    <3>2. ASSUME pc[q] = "exited"
          PROVE  FALSE
      <4>1. checkpoint.file = "written" /\ checkpoint.state \in TerminalStates
        BY <1>2, <1>3, <3>2 DEF ResumeInv, ExecutionSettles
      <4> QED BY <3>1, <4>1 DEF Finds, PriorStatus, Abstract!Open, TerminalStates
    <3> QED BY <3>2
  <2> QED BY <1>2, <2>3, <2>4, <2>5 DEF Ended
<1> QED BY <1>5, <1>6, LineOfStep

(* A step of one process, when no other is live.                           *)
LEMMA ResumeStep ==
  ASSUME TypeOK, ResumeInv, SerialInv, EarnedInv, NEW p \in Proc, StepOf(p),
         \A q \in Proc \ {p} : ~Live(q)
  PROVE  ResumeInv'
<1>1. Moves(p) /\ \A q \in Proc \ {p} : UNCHANGED Own(q)
  BY EveryStep, Locality DEF StepOf
<1>2. Alone(p)
  BY DEF ResumeInv
<1>3. \A q \in Proc : Alone(q)'
  BY <1>1, AloneStep, AloneElsewhere DEF ResumeInv
<1>4. ledger' = <<>> => checkpoint'.file = "absent"
  <2>1. ASSUME ledger' = <<>>
        PROVE  checkpoint'.file = "absent"
    <3>1. ledger = <<>>
      BY <1>1, <2>1, AppendedIsLast DEF Moves, Writes
    <3>2. pc[p] \notin Ending
      BY <1>2, <3>1 DEF Alone
    <3> QED BY <1>1, <3>1, <3>2 DEF ResumeInv, Moves, Saves, Ending
  <2> QED BY <2>1
<1>5. checkpoint'.file = "written" =>
        checkpoint'.state \in {"approval_required"} \union TerminalStates
  <2>1. CASE pc[p] = "write_checkpoint" /\ pc'[p] = "exited"
    BY <1>1, <1>2, <2>1, OutcomeSettles DEF Alone, Moves, Saves
  <2>2. CASE pc'[p] = "write_checkpoint"
    BY <1>1, <2>2 DEF Moves, Saves, Unwritten
  <2>3. CASE pc'[p] # "write_checkpoint" /\ ~(pc[p] = "write_checkpoint" /\ pc'[p] = "exited")
    <3>1. UNCHANGED checkpoint
      BY <1>1, <2>3 DEF Moves, Follows, Saves, Executing
    <3> QED BY <3>1 DEF ResumeInv
  <2> QED BY <2>1, <2>2, <2>3
<1>6. Agreement' /\ ExecutionSettles'
  BY <1>1, AgreementStep, ExecutionStep
<1>7. ReexecutionOnlyAfterFailure'
  <2>1. CASE Live(p)
    BY <1>1, <2>1, ReexecutionStep
  <2>2. CASE ~Live(p)
    <3>1. pc[p] = "idle" /\ pc'[p] = "initialize"
      BY <1>1, <2>2 DEF Live, Moves
    <3>2. UNCHANGED ledger
      BY <1>1, <3>1 DEF Moves, Writes, Appends, Events
    <3>3. ASSUME NEW i \in Lines, pc[ledger[i].by] \in {"error", "killed"}
          PROVE  pc'[ledger[i].by] = pc[ledger[i].by]
      <4>1. ledger[i] \in LedgerEvent
        BY DEF TypeOK, LedgerTypeOK, Lines
      <4>2. ledger[i].by \in Proc \ {p}
        BY <3>1, <3>3, <4>1 DEF LedgerEvent
      <4> QED BY <1>1, <4>2 DEF Own
    <3> QED BY <3>2, <3>3 DEF ResumeInv, ReexecutionOnlyAfterFailure, Lines
  <2> QED BY <2>1, <2>2
<1> QED BY <1>3, <1>4, <1>5, <1>6, <1>7 DEF ResumeInv

LEMMA ResumeInvariant ==
  ASSUME ~Concurrent
  PROVE  Spec => []ResumeInv
<1>1. Init => ResumeInv
  <2> SUFFICES ASSUME Init
               PROVE  ResumeInv
    OBVIOUS
  <2>1. ledger = <<>> /\ Lines = {} /\ checkpoint = Unwritten("absent")
    BY DEF Init, LedgerInit, Lines
  <2>2. \A p \in Proc : pc[p] = "idle"
    BY DEF Init
  <2>3. \A p \in Proc : Alone(p)
    BY <2>1, <2>2 DEF Alone, Live, Ending, Noop, Arriving
  <2> QED BY <2>1, <2>3 DEF ResumeInv, Agreement, ExecutionSettles,
                            ReexecutionOnlyAfterFailure, Unwritten
<1>2. /\ TypeOK /\ SerialInv /\ SerialInv' /\ EarnedInv /\ ResumeInv
      /\ [Next]_vars
      => ResumeInv'
  <2> SUFFICES ASSUME TypeOK, SerialInv, SerialInv', EarnedInv, ResumeInv, [Next]_vars
               PROVE  ResumeInv'
    OBVIOUS
  <2>1. CASE UNCHANGED <<ledgerVars, pc, procVars>>
    <3>1. \A p \in Proc : /\ Outcome(p)' = Outcome(p) /\ PriorStatus(p)' = PriorStatus(p)
                          /\ Finds(p)' = Finds(p) /\ Live(p)' = Live(p)
      BY <2>1, OutcomeIsOwn, PriorStatusIsOwn DEF procVars, ledgerVars, Finds, Live
    <3>2. Last' = Last /\ Lines' = Lines /\ UNCHANGED <<ledger, checkpoint, pc, opt>>
      BY <2>1 DEF Last, Lines, procVars, ledgerVars
    <3>3. \A p \in Proc : Alone(p)'
      BY <3>1, <3>2 DEF ResumeInv, Alone
    <3> QED BY <3>2, <3>3 DEF ResumeInv, Agreement, ExecutionSettles,
                              ReexecutionOnlyAfterFailure
  <2>2. CASE UNCHANGED vars \/ EditPlan
    BY <2>1, <2>2 DEF vars, EditPlan
  <2>3. ASSUME NEW p \in Proc, StepOf(p)
        PROVE  ResumeInv'
    <3>1. \A q \in Proc \ {p} : ~Live(q)
      <4>1. Moves(p) /\ \A q \in Proc \ {p} : pc'[q] = pc[q]
        BY <2>3, EveryStep, Locality DEF StepOf, Own
      <4>2. CASE Live(p)
        BY <4>2 DEF SerialInv
      <4>3. CASE ~Live(p)
        <5>1. pc'[p] = "initialize"
          BY <4>1, <4>3 DEF Moves, Live
        <5>2. Live(p)'
          BY <5>1 DEF Live, Ended
        <5>3. \A q \in Proc \ {p} : ~Live(q)'
          BY <5>2 DEF SerialInv
        <5> QED BY <4>1, <5>3 DEF Live
      <4> QED BY <4>2, <4>3
    <3> QED BY <2>3, <3>1, ResumeStep
  <2> QED BY <2>2, <2>3 DEF Next, Environment, StepOf
<1>3. Spec => []SerialInv
  BY SerialInvariant
<1> QED BY <1>1, <1>2, <1>3, TypeCorrect, EarnedInvariant, PTL DEF Spec

(* A run is executed again only if the process that executed it before     *)
(* failed or was killed: for any number of resumes that wait for each      *)
(* other, any plans, kills and torn appends (orchestrator.ts:41-46, 88).   *)
THEOREM FinishedRunsStayFinished ==
  ASSUME ~Concurrent
  PROVE  Spec => []ReexecutionOnlyAfterFailure
<1>1. ResumeInv => ReexecutionOnlyAfterFailure
  BY DEF ResumeInv
<1>2. Spec => []ResumeInv
  BY ResumeInvariant
<1> QED BY <1>1, <1>2, PTL

(* When nobody works on the run and the process that logged last came to   *)
(* its regular end, ledger.jsonl and checkpoint.json tell the same state:  *)
(* for any number of resumes that wait for each other, kills and torn      *)
(* appends (orchestrator.ts:41-46, 76-77, 123-124).                        *)
THEOREM FilesAgreeAtRest ==
  ASSUME ~Concurrent
  PROVE  Spec => []QuiescentAgreement
<1>1. ResumeInv => QuiescentAgreement
  BY DEF ResumeInv, Agreement, QuiescentAgreement, Last
<1>2. Spec => []ResumeInv
  BY ResumeInvariant
<1> QED BY <1>1, <1>2, PTL

-----------------------------------------------------------------------------
(* The refinement of RunStatus.                                            *)

StartedLines == {i \in Lines : ledger[i].event = "execution.started"}
Work == Cardinality(StartedLines)

(* The abstract status in the three situations of a live process.          *)
LEMMA StatusOfWorking ==
  ASSUME NEW p \in Proc, Finds(p)
  PROVE  StatusOfRun = PriorStatus(p)
BY DEF StatusOfRun, Finds, PriorStatus

LEMMA OneChoice ==
  ASSUME NEW f, NEW p \in Proc, f[p] = "write_checkpoint",
         \A q \in Proc : f[q] = "write_checkpoint" => q = p
  PROVE  (CHOOSE q \in Proc : f[q] = "write_checkpoint") = p
BY Zenon

LEMMA StatusOfWriting ==
  ASSUME NEW p \in Proc, pc[p] = "write_checkpoint", SerialInv, Alone(p)
  PROVE  StatusOfRun = PriorStatus(p)
<1>1. \A q \in Proc : pc[q] = "write_checkpoint" => q = p
  BY DEF SerialInv, Live, Ended
<1>2. (CHOOSE q \in Proc : pc[q] = "write_checkpoint") = p
  BY <1>1, OneChoice
<1>3. StatusOfRun = PriorStatus(CHOOSE q \in Proc : pc[q] = "write_checkpoint")
  BY DEF StatusOfRun, Alone
<1> QED BY <1>2, <1>3

(* ... and after it has truncated the checkpoint.                          *)
LEMMA StatusAfterTruncation ==
  ASSUME NEW p \in Proc, pc'[p] = "write_checkpoint", SerialInv',
         checkpoint' = Unwritten("empty")
  PROVE  StatusOfRun' = PriorStatus(p)'
<1>1. \A q \in Proc : pc'[q] = "write_checkpoint" => q = p
  BY DEF SerialInv, Live, Ended
<1>2. (CHOOSE q \in Proc : pc'[q] = "write_checkpoint") = p
  BY <1>1, OneChoice
<1>3. StatusOfRun' = PriorStatus(CHOOSE q \in Proc : pc[q] = "write_checkpoint")'
  BY DEF StatusOfRun, Unwritten
<1> QED BY <1>2, <1>3 DEF PriorStatus

(* The abstract work counts the appended starts.                           *)
LEMMA WorkStep ==
  ASSUME TypeOK, NEW p \in Proc, Writes(p)
  PROVE  /\ Work \in Nat
         /\ \/ Work' = Work
            \/ pc[p] = "execution.started" /\ Work' = Work + 1
<1>1. ledger \in Seq(LedgerEvent) /\ Len(ledger) \in Nat /\ Lines = 1..Len(ledger)
  BY DEF TypeOK, LedgerTypeOK, Lines
<1>2. IsFiniteSet(StartedLines)
  <2>1. IsFiniteSet(1..Len(ledger))
    BY <1>1, FS_Interval
  <2>2. StartedLines \subseteq 1..Len(ledger)
    BY <1>1 DEF StartedLines
  <2> QED BY <2>1, <2>2, FS_Subset
<1>3. Work \in Nat
  BY <1>2, FS_CardinalityType DEF Work
<1>4. CASE UNCHANGED ledger
  BY <1>3, <1>4 DEF Work, StartedLines, Lines
<1>5. CASE Appends(p)
  <2> DEFINE e == NewEvent(p, pc[p], EventState(p))
             n == Len(ledger) + 1
  <2>1. ledger' = Append(ledger, e) /\ e.event = pc[p]
    BY <1>5 DEF Appends, NewEvent
  <2> HIDE DEF e
  <2>2. /\ Lines' = 1..n /\ ledger'[n] = e /\ n \notin StartedLines
        /\ \A i \in Lines : ledger'[i] = ledger[i]
    BY <1>1, <2>1 DEF Lines, StartedLines
  <2>3. Lines' = Lines \union {n}
    BY <1>1, <2>2
  <2>4. CASE pc[p] = "execution.started"
    <3>1. StartedLines' = StartedLines \union {n}
      BY <2>1, <2>2, <2>3, <2>4 DEF StartedLines
    <3>2. Cardinality(StartedLines \union {n}) = Cardinality(StartedLines) + 1
      BY <1>2, <2>2, FS_AddElement
    <3> QED BY <1>3, <2>4, <3>1, <3>2 DEF Work
  <2>5. CASE pc[p] # "execution.started"
    <3>1. StartedLines' = StartedLines
      BY <2>1, <2>2, <2>3, <2>5 DEF StartedLines
    <3> QED BY <1>3, <3>1 DEF Work
  <2> QED BY <2>4, <2>5
<1> QED BY <1>3, <1>4, <1>5 DEF Writes

(* With nobody at the checkpoint the status is what the file says.         *)
LEMMA StatusAtRest ==
  ASSUME TypeOK, UNCHANGED checkpoint,
         \A q \in Proc : pc[q] # "write_checkpoint" /\ pc'[q] # "write_checkpoint"
  PROVE  StatusOfRun' = StatusOfRun
BY DEF StatusOfRun

(* Every step of a process is a step of the abstract run or none.          *)
LEMMA StepSimulates ==
  ASSUME TypeOK, SerialInv, SerialInv', ResumeInv, EarnedInv, NEW p \in Proc, StepOf(p)
  PROVE  [Abstract!Next]_<<StatusOfRun, Work>>
<1> USE DEF Moves, Follows, Saves, Executing
<1>1. Moves(p) /\ Alone(p) /\ \A q \in Proc \ {p} : pc'[q] = pc[q]
  BY EveryStep, Locality DEF StepOf, Own, ResumeInv
<1>2. \A q \in Proc \ {p} : pc[q] # "write_checkpoint"
  <2>1. Live(p) \/ Live(p)'
    BY <1>1 DEF Live, Ended
  <2> QED BY <1>1, <2>1 DEF SerialInv, Live, Ended
<1>3. /\ Work \in Nat
      /\ \/ Work' = Work
         \/ pc[p] = "execution.started" /\ Work' = Work + 1
  BY <1>1, WorkStep
<1>4. CASE pc[p] = "write_checkpoint"
  <2>1. StatusOfRun = PriorStatus(p) /\ PriorStatus(p) \in Abstract!Open
    BY <1>1, <1>4, StatusOfWriting DEF Alone, Live, Ended, Noop, Arriving
  <2>2. Work' = Work
    BY <1>3, <1>4
  <2>3. CASE pc'[p] = "exited"
    <3>1. checkpoint'.file = "written" /\ checkpoint'.state = Outcome(p)
      BY <1>1, <1>4, <2>3 DEF Alone
    <3>2. StatusOfRun' = Outcome(p)
      BY <3>1 DEF StatusOfRun
    <3>3. Outcome(p) \in {"approval_required"} \union Abstract!End
      BY OutcomeSettles DEF TerminalStates, Abstract!End
    <3>4. Abstract!Pause \/ Abstract!Finish
      BY <2>1, <2>2, <3>2, <3>3 DEF Abstract!Pause, Abstract!Finish, Work, StartedLines
    <3> QED BY <3>4 DEF Abstract!Next
  <2>4. CASE pc'[p] \in {"error", "killed"}
    <3>1. checkpoint'.file = "empty"
      BY <1>1, <1>4, <2>4 DEF Alone
    <3>2. \A q \in Proc : pc'[q] # "write_checkpoint"
      BY <1>1, <1>2, <2>4
    <3>3. StatusOfRun' = "lost"
      BY <3>1, <3>2 DEF StatusOfRun
    <3>4. Abstract!Lose
      BY <2>1, <2>2, <3>3 DEF Abstract!Lose, Work, StartedLines
    <3> QED BY <3>4 DEF Abstract!Next
  <2> QED BY <1>1, <1>4, <2>3, <2>4
<1>5. CASE pc'[p] = "write_checkpoint"
  <2>1. pc[p] = "open_checkpoint"
    BY <1>1, <1>5
  <2>2. StatusOfRun = PriorStatus(p)
    BY <1>1, <2>1, StatusOfWorking DEF Alone, Live, Ended, Arriving
  <2>3. StatusOfRun' = PriorStatus(p)'
    BY <1>1, <1>5, StatusAfterTruncation
  <2>4. PriorStatus(p)' = PriorStatus(p)
    BY <1>1, <2>1, PriorStatusIsOwn DEF Frame
  <2>5. Work' = Work
    BY <1>3, <2>1
  <2> QED BY <2>2, <2>3, <2>4, <2>5
<1>6. CASE pc[p] # "write_checkpoint" /\ pc'[p] # "write_checkpoint"
  <2>1. UNCHANGED checkpoint
    BY <1>1, <1>6
  <2>2. StatusOfRun' = StatusOfRun
    BY <1>1, <1>2, <1>6, <2>1, StatusAtRest
  <2>3. CASE pc[p] = "execution.started" /\ Work' = Work + 1
    <3>1. StatusOfRun \in Abstract!Open
      BY <1>1, <2>3, StatusOfWorking DEF Alone, Live, Ended, Arriving, Noop
    <3>2. Abstract!Begin
      BY <2>2, <2>3, <3>1 DEF Abstract!Begin, Work, StartedLines
    <3> QED BY <3>2 DEF Abstract!Next
  <2> QED BY <1>3, <2>2, <2>3
<1> QED BY <1>4, <1>5, <1>6

(* Every step of the system is a step of the abstract run, or none.       *)
LEMMA NextSimulates ==
  ASSUME ~Concurrent
  PROVE  /\ TypeOK /\ SerialInv /\ SerialInv' /\ ResumeInv /\ EarnedInv
         /\ [Next]_vars
         => [Abstract!Next]_<<StatusOfRun, Work>>
<1> SUFFICES ASSUME TypeOK, SerialInv, SerialInv', ResumeInv, EarnedInv, [Next]_vars
             PROVE  [Abstract!Next]_<<StatusOfRun, Work>>
  OBVIOUS
<1>1. CASE UNCHANGED <<ledgerVars, pc, procVars>>
  <2>1. UNCHANGED <<ledger, checkpoint, pc, opt, seen>>
    BY <1>1 DEF ledgerVars, procVars
  <2>2. StatusOfRun' = StatusOfRun
    BY <2>1 DEF StatusOfRun, PriorStatus
  <2>3. Work' = Work
    BY <2>1 DEF Work, StartedLines, Lines
  <2> QED BY <2>2, <2>3
<1>2. CASE UNCHANGED vars \/ EditPlan
  BY <1>1, <1>2 DEF vars, EditPlan
<1> QED BY <1>2, StepSimulates DEF Next, Environment, StepOf

(* One process at a time implements the abstract run: it pauses any number *)
(* of times, ends at most once, and no execution begins after the end or   *)
(* after the checkpoint is lost. The status of the abstract run is what    *)
(* the next resume will make of checkpoint.json, its work the number of    *)
(* execution.started events (orchestrator.ts:34-126).                      *)
THEOREM RunStatusImplemented ==
  ASSUME ~Concurrent
  PROVE  Spec => ImplementsRunStatus
<1>1. Init => Abstract!Init
  <2> SUFFICES ASSUME Init
               PROVE  Abstract!Init
    OBVIOUS
  <2>1. Lines = {} /\ checkpoint.file = "absent"
    BY DEF Init, LedgerInit, Lines, Unwritten
  <2>2. StartedLines = {}
    BY <2>1 DEF StartedLines
  <2>3. Work = 0
    BY <2>2, FS_EmptySet DEF Work
  <2>4. StatusOfRun = "new"
    BY <2>1 DEF StatusOfRun
  <2> QED BY <2>3, <2>4 DEF Abstract!Init, Work, StartedLines
<1>2. [Abstract!Next]_<<StatusOfRun, Work>> =>
        [Abstract!Next]_<<StatusOfRun,
          Cardinality({i \in Lines : ledger[i].event = "execution.started"})>>
  BY DEF Work, StartedLines
<1>3. Spec => []SerialInv /\ []ResumeInv
  BY SerialInvariant, ResumeInvariant
<1> QED
  BY <1>1, <1>2, <1>3, NextSimulates, TypeCorrect, EarnedInvariant, PTL
  DEF Spec, ImplementsRunStatus, Abstract!Spec

Settled == Abstract!End \union {"lost"}

(* What somebody who resumes may rely on: a run that has ended, or is lost *)
(* in the middle of a save, stays so and is not executed any more          *)
(* (orchestrator.ts:41-46).                                                *)
RestsOnceSettled == [][(StatusOfRun \in Settled => UNCHANGED <<StatusOfRun, Work>>)]_vars

(* Once checkpoint.json shows a final state, or was left half written by a *)
(* process that was killed, no later resume changes what it shows or       *)
(* begins an execution (orchestrator.ts:34-46, ledger.ts:72-90): however   *)
(* many there are, whatever the plan file then says, and wherever they are *)
(* killed.                                                                 *)
THEOREM SettledRunsRest ==
  ASSUME ~Concurrent
  PROVE  Spec => RestsOnceSettled
<1>1. ASSUME [Abstract!Next]_<<StatusOfRun, Work>>, StatusOfRun \in Settled
      PROVE  UNCHANGED <<StatusOfRun, Work>>
  <2>1. StatusOfRun \notin Abstract!Open
    BY <1>1 DEF Settled, Abstract!End, Abstract!Open
  <2> QED
    BY <1>1, <2>1
    DEF Abstract!Next, Abstract!Begin, Abstract!Pause, Abstract!Finish, Abstract!Lose
<1>2. TypeOK /\ SerialInv /\ SerialInv' /\ ResumeInv /\ EarnedInv /\ [Next]_vars
      => (StatusOfRun \in Settled => UNCHANGED <<StatusOfRun, Work>>)
  BY <1>1, NextSimulates
<1>3. Spec => []SerialInv /\ []ResumeInv
  BY SerialInvariant, ResumeInvariant
<1> QED
  BY <1>2, <1>3, TypeCorrect, EarnedInvariant, PTL DEF Spec, RestsOnceSettled

=============================================================================
