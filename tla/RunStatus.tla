------------------------------ MODULE RunStatus ------------------------------
(***************************************************************************)
(* What a run promises to somebody who only resumes it: a status that may  *)
(* pause any number of times, then ends once, and work that never begins   *)
(* after the end.  A run can also be lost, when the process that saves its *)
(* status dies half way: then nothing happens to it any more.              *)
(***************************************************************************)
EXTENDS Naturals

VARIABLES status,  \* where the run stands
          work     \* how many times its execution has begun

Open == {"new", "approval_required"}
End == {"failed", "verification_failed", "completed", "needs_review"}

StatusTypeOK ==
  /\ status \in Open \union End \union {"lost"}
  /\ work \in Nat

Init == status = "new" /\ work = 0

(* Execution begins, in a run that has not ended.                          *)
Begin == status \in Open /\ work' = work + 1 /\ UNCHANGED status

(* Approval is missing: the run waits for the next resume.                 *)
Pause == status \in Open /\ status' = "approval_required" /\ UNCHANGED work

(* A gate blocked the plan, or the work is done.                           *)
Finish == status \in Open /\ status' \in End /\ UNCHANGED work

Lose == status \in Open /\ status' = "lost" /\ UNCHANGED work

Next == Begin \/ Pause \/ Finish \/ Lose

Spec == Init /\ [][Next]_<<status, work>>

=============================================================================
