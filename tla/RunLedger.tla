------------------------------ MODULE RunLedger ------------------------------
(***************************************************************************)
(* The two files of one run directory, .apolo/runs/<run-id>/, and the      *)
(* RunLedger object (src/run/ledger.ts) of every `apolo run` process that  *)
(* works on that run: the append-only ledger.jsonl, the overwritten        *)
(* checkpoint.json, and the in-memory sequence counter of each process.    *)
(*                                                                         *)
(* Nothing locks either file.  An appended line is one write; a checkpoint *)
(* is an open that truncates followed by a write.                          *)
(***************************************************************************)
EXTENDS Naturals, Sequences

CONSTANTS Proc,        \* the `apolo run` processes that may touch the run
          TornWrites   \* TRUE if an append may fail half way (a full disk)

ASSUME TornWritesIsBoolean == TornWrites \in BOOLEAN

VARIABLES ledger,      \* the complete events of ledger.jsonl, in file order
          tail,        \* what a reader finds on the last line of the file
          checkpoint,  \* checkpoint.json
          seq          \* RunLedger.sequence of each process

ledgerVars == <<ledger, tail, checkpoint, seq>>

-----------------------------------------------------------------------------

NoState == "none"

RunFinalState == {"approval_required", "running", "failed",
                  "verification_failed", "completed", "needs_review"}

Events == {"run.created", "run.resumed", "run.resume.noop", "plan.loaded",
           "security.checked", "run.paused", "agents.routed",
           "execution.started", "execution.completed",
           "verification.completed", "memory.updated", "pr.prepared",
           "run.finished"}

(* A ledger line. The code writes no process id: "by" is history, kept for *)
(* the properties and read by no action.                                   *)
LedgerEvent == [sequence: Nat, event: Events,
                state: RunFinalState \union {NoState}, by: Proc]

(* The last line of the file: it parses and ends in a newline ("clean", or *)
(* the file is empty), parses but has no newline ("open"), is a fragment   *)
(* without newline ("partial"), or is two writes run together ("merged").  *)
Tails == {"clean", "open", "partial", "merged"}

(* checkpoint.json is absent, just truncated, holds one whole record, or   *)
(* holds a short record over the rest of a longer one ("garbled").         *)
CheckpointFile == {"absent", "empty", "written", "garbled"}

RunCheckpoint == [file: CheckpointFile,
                  state: RunFinalState \union {NoState}, sequence: Nat]

Unwritten(file) == [file |-> file, state |-> NoState, sequence |-> 0]

LedgerTypeOK ==
  /\ ledger \in Seq(LedgerEvent)
  /\ tail \in Tails
  /\ checkpoint \in RunCheckpoint
  /\ seq \in [Proc -> Nat]

LedgerInit ==
  /\ ledger = <<>>
  /\ tail = "clean"
  /\ checkpoint = Unwritten("absent")
  /\ seq = [p \in Proc |-> 0]

-----------------------------------------------------------------------------
(* RunLedger.initialize and readLastSequence: JSON.parse of the last line  *)
(* throws on a fragment and on two lines run together.                     *)

LastLineParses == tail \in {"clean", "open"}

LastSequence == IF ledger = <<>> THEN 0 ELSE ledger[Len(ledger)].sequence

(* Mutation: the counter starts over in every process.                     *)
StartAtZero(p) ==
  /\ LastLineParses
  /\ seq' = [seq EXCEPT ![p] = 0]
  /\ UNCHANGED <<ledger, tail, checkpoint>>

ReadLastSequence(p) ==
  /\ LastLineParses
  /\ seq' = [seq EXCEPT ![p] = LastSequence]
  /\ UNCHANGED <<ledger, tail, checkpoint>>

(* RunLedger.record: the counter moves first, then the line is appended.   *)
NewEvent(p, event, state) ==
  [sequence |-> seq[p] + 1, event |-> event, state |-> state, by |-> p]

Record(p, event, state) ==
  /\ seq' = [seq EXCEPT ![p] = @ + 1]
  /\ ledger' = Append(ledger, NewEvent(p, event, state))
  /\ tail' = IF tail \in {"clean", "merged"} THEN "clean" ELSE "merged"
  /\ UNCHANGED checkpoint

(* The append fails after writing a fragment of the line, or all of it but *)
(* the newline.                                                            *)
RecordTorn(p, event, state) ==
  /\ TornWrites
  /\ seq' = [seq EXCEPT ![p] = @ + 1]
  /\ \/ /\ ledger' = ledger
        /\ tail' = "partial"
     \/ /\ ledger' = Append(ledger, NewEvent(p, event, state))
        /\ tail' = IF tail \in {"clean", "merged"} THEN "open" ELSE "partial"
  /\ UNCHANGED checkpoint

(* RunLedger.checkpoint: writeFile opens with truncation ...               *)
TruncateCheckpoint ==
  /\ checkpoint' = Unwritten("empty")
  /\ UNCHANGED <<ledger, tail, seq>>

(* ... and then writes at offset 0. If another process has written since,  *)
(* a shorter record leaves the end of the other one behind it.             *)
WriteCheckpoint(p, state) ==
  /\ \/ checkpoint' = [file |-> "written", state |-> state, sequence |-> seq[p]]
     \/ /\ checkpoint.file \in {"written", "garbled"}
        /\ checkpoint' = Unwritten("garbled")
  /\ UNCHANGED <<ledger, tail, seq>>

(* RunLedger.readCheckpoint throws unless the file holds one whole record. *)
(* Mutation: an empty checkpoint passes for a valid one.                   *)
CheckpointExists == checkpoint.file # "absent"

CheckpointReadable == checkpoint.file = "written"

=============================================================================
