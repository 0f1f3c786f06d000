----------------------------- MODULE PlanProofs -----------------------------
(***************************************************************************)
(* Proofs about the way from a plan to its run (PlanHandoff), for any      *)
(* planners, runners, tasks, repositories, answers of Claude and edits:    *)
(*   PlanTypes        TypeOK;                                              *)
(*   FilesKept        PlansKeepTheirFile;                                  *)
(*   AdviceOnly       ClaudeOnlyAdvises;                                   *)
(*   DefaultsPass     DefaultsFitTheGates.                                 *)
(* Of the constants only HandoffAssumption is used.                        *)
(***************************************************************************)
EXTENDS PlanSafety, FiniteSetTheorems, TLAPS

ContextRec == [ok : BOOLEAN, agents : 0 .. 5, checks : Nat]
ContentRec == [agents : 0 .. 5, checks : Nat]
PlannerRec == [at : {"idle"} \union Busy \union Over, task : Task, dry : BOOLEAN,
               stamp : 0 .. MaxClock, context : ContextRec, content : ContentRec]

-----------------------------------------------------------------------------
(* Contexts and contents.                                                  *)

LEMMA ContextTypes == ASSUME NEW r \in Repo PROVE BuildContextPack(r) \in ContextRec
<1>1. r.onPath \in Nat /\ r.scripts \in Nat /\ r.targets \in Nat
  BY HandoffAssumption
<1>2. AgentsIn(r) \in 0 .. 5
  BY <1>1 DEF AgentsIn, AtMost
<1>3. (IF r.package = "object" THEN r.scripts ELSE 0) + r.targets \in Nat
  BY <1>1
<1> QED
  BY <1>2, <1>3 DEF BuildContextPack, NoContext, ContextRec

LEMMA AtMostFive ==
  /\ \A n \in Nat : AtMost(n, 5) \in 0 .. 5
  /\ \A n \in 0 .. 5 : AtMost(n, 5) = n
  BY DEF AtMost

(* What a context and what Claude said make of a plan.                     *)
Advice(c, context) ==
  [agents |-> IF Usable(c) THEN AtMost(c.says.agents, 5) ELSE context.agents,
   checks |-> context.checks]

SoundClaude(c) ==
  /\ c.os \in {"none", "running", "failed", "exited"}
  /\ c.fine => c.os = "exited" /\ c.says \in Answer

(* The fallback takes the agents of the context as they are: they are five *)
(* at most already.                                                        *)
LEMMA FallbackIsPlain ==
  ASSUME NEW c \in ContextRec
  PROVE  /\ FallbackPlan(c) \in ContentRec
         /\ FallbackPlan(c) = [agents |-> c.agents, checks |-> c.checks]
<1>1. c.agents \in 0 .. 5 /\ c.checks \in Nat
  BY DEF ContextRec
<1>2. AtMost(c.agents, 5) = c.agents
  BY <1>1, AtMostFive
<1> QED
  BY <1>1, <1>2 DEF FallbackPlan, ContentRec

LEMMA ClaudeIsAdvised ==
  ASSUME NEW context \in ContextRec, NEW c, SoundClaude(c), c.fine
  PROVE  /\ ParseClaudePlan(c.says, context) \in ContentRec
         /\ ParseClaudePlan(c.says, context) = Advice(c, context)
<1> DEFINE a == c.says
<1>1. /\ context.agents \in 0 .. 5 /\ context.checks \in Nat
      /\ a.agents \in Nat /\ c.os = "exited"
  BY HandoffAssumption DEF ContextRec, SoundClaude
<1>2. AtMost(context.agents, 5) = context.agents /\ AtMost(a.agents, 5) \in 0 .. 5
  BY <1>1, AtMostFive
<1>3. CASE a.form = "json" /\ a.lists
  <2>1. Usable(c)
    BY <1>1, <1>3 DEF Usable
  <2> QED
    BY <1>1, <1>2, <1>3, <2>1 DEF ParseClaudePlan, ClaudePlan, ContentRec, Advice
<1>4. CASE a.form = "json" /\ ~a.lists
  <2>1. ~Usable(c)
    BY <1>4 DEF Usable
  <2> QED
    BY <1>1, <1>2, <1>4, <2>1 DEF ParseClaudePlan, ClaudePlan, ContentRec, Advice
<1>5. CASE a.form # "json"
  <2>1. ~Usable(c)
    BY <1>5 DEF Usable
  <2> QED
    BY <1>5, <2>1, FallbackIsPlain DEF ParseClaudePlan, Advice
<1> QED
  BY <1>3, <1>4, <1>5

-----------------------------------------------------------------------------
(* Planners.  The id is fixed before Claude is asked, and only those that  *)
(* are not dry open a file.                                                *)

SoundPlanner(rec) ==
  /\ rec \in PlannerRec
  /\ rec.at \in {"ask", "open", "write", "done"} => rec.stamp > 0
  /\ rec.at \in {"open", "write"} => ~rec.dry

PlannerInv ==
  /\ repo \in Repo /\ clock \in 1 .. MaxClock
  /\ DOMAIN planner = Planner /\ \A p \in Planner : SoundPlanner(planner[p])
  /\ DOMAIN claude = Planner
  /\ \A p \in Planner :
       /\ SoundClaude(claude[p])
       /\ planner[p].at \in {"idle", "context"} => claude[p].os = "none"

LEMMA IdleIsSound == SoundPlanner(Idle) /\ SoundClaude(NoClaude)
<1>1. PICK t \in Task : t = CHOOSE u \in Task : TRUE
  BY HandoffAssumption
<1>2. NoContext \in ContextRec /\ NoContent \in ContentRec
  BY DEF NoContext, NoContent, ContextRec, ContentRec
<1>3. MaxClock \in Nat
  BY HandoffAssumption
<1>4. Idle \in PlannerRec /\ Idle.at = "idle"
  BY <1>1, <1>2, <1>3 DEF Idle, PlannerRec
<1>5. SoundPlanner(Idle)
  BY <1>4 DEF SoundPlanner
<1> QED
  BY <1>5 DEF SoundClaude, NoClaude

(* The step of one planner; a plan it hands out is the one it should.      *)
Moves(p) ==
  /\ UNCHANGED repo
  /\ DOMAIN planner' = Planner /\ SoundPlanner(planner'[p])
  /\ \A q \in Planner \ {p} : planner'[q] = planner[q]
  /\ UNCHANGED clock
  /\ DOMAIN claude' = Planner /\ SoundClaude(claude'[p])
  /\ \A q \in Planner \ {p} : claude'[q] = claude[q]
  /\ planner'[p].at = "context" => claude'[p].os = "none"
  /\ planner'[p].at # "idle" /\ AdvisedStep(p)

LEMMA MovesKeep == ASSUME PlannerInv, NEW p \in Planner, Moves(p) PROVE PlannerInv'
  BY DEF PlannerInv, Moves

(* A planner that fails keeps its id if it has opened its file.            *)
LEMMA FailedPlanner ==
  ASSUME PlannerInv, NEW p \in Planner, planner' = Failed(p)
  PROVE  /\ DOMAIN planner' = Planner /\ SoundPlanner(planner'[p])
         /\ \A q \in Planner \ {p} : planner'[q] = planner[q]
         /\ planner'[p].at = "failed" /\ ~planner'[p].dry /\ AdvisedStep(p)
         /\ planner[p].at = "write" =>
              planner'[p].task = planner[p].task /\ planner'[p].stamp = planner[p].stamp
<1> DEFINE left == IF planner[p].at = "write" THEN planner[p] ELSE Idle
           new == [Idle EXCEPT !.at = "failed", !.task = left.task, !.stamp = left.stamp]
<1>1. left \in PlannerRec /\ Idle \in PlannerRec
  BY IdleIsSound DEF PlannerInv, SoundPlanner
<1>2. left.task \in Task /\ left.stamp \in 0 .. MaxClock
  BY <1>1 DEF PlannerRec
<1>3. new \in PlannerRec
  BY <1>1, <1>2 DEF PlannerRec, Over
<1>4. /\ new.at = "failed" /\ new.dry = Idle.dry /\ new.task = left.task
      /\ new.stamp = left.stamp
  BY <1>1 DEF PlannerRec
<1>5. ~Idle.dry
  BY DEF Idle
<1>6. SoundPlanner(new)
  BY <1>3, <1>4 DEF SoundPlanner
<1>7. planner' = [planner EXCEPT ![p] = new]
  BY DEF Failed
<1> HIDE DEF new
<1>8. DOMAIN planner' = Planner /\ planner'[p] = new
      /\ \A q \in Planner \ {p} : planner'[q] = planner[q]
  BY <1>7 DEF PlannerInv
<1>9. AdvisedStep(p)
  BY <1>4, <1>8 DEF AdvisedStep, HandedOut
<1> QED
  BY <1>4, <1>5, <1>6, <1>8, <1>9

(* What a planner's step does to it, when it does not fail.                *)
LEMMA PlannerGets ==
  ASSUME PlannerInv, NEW p \in Planner, NEW new, planner' = [planner EXCEPT ![p] = new]
  PROVE  /\ DOMAIN planner' = Planner /\ planner'[p] = new
         /\ \A q \in Planner \ {p} : planner'[q] = planner[q]
  BY DEF PlannerInv

LEMMA ClaudeGets ==
  ASSUME PlannerInv, NEW p \in Planner, NEW c, SoundClaude(c),
         claude' = [claude EXCEPT ![p] = c]
  PROVE  /\ DOMAIN claude' = Planner /\ claude'[p] = c
         /\ \A q \in Planner \ {p} : claude'[q] = claude[q]
  BY DEF PlannerInv

LEMMA StartMoves ==
  ASSUME PlannerInv, NEW p \in Planner, Start(p)
  PROVE  Moves(p) /\ UNCHANGED <<disk, runner, edited>> /\ planner[p].at = "idle"
         /\ planner'[p].at \in {"context", "failed"}
<1>1. /\ UNCHANGED <<repo, clock, disk, claude, runner, edited>>
      /\ planner[p].at = "idle"
  BY DEF Start
<1>2. CASE planner' = Failed(p)
  BY <1>1, <1>2, FailedPlanner DEF Moves, PlannerInv
<1>3. ASSUME NEW t \in Task, NEW dry \in BOOLEAN,
             planner' = [planner EXCEPT ![p].at = "context", ![p].task = t, ![p].dry = dry]
      PROVE  Moves(p) /\ planner'[p].at = "context"
  <2> DEFINE new == [planner[p] EXCEPT !.at = "context", !.task = t, !.dry = dry]
  <2>1. planner[p] \in PlannerRec
    BY DEF PlannerInv, SoundPlanner
  <2>2. new \in PlannerRec /\ new.at = "context"
    BY <2>1 DEF PlannerRec, Busy
  <2>3. SoundPlanner(new)
    BY <2>2 DEF SoundPlanner
  <2>4. planner' = [planner EXCEPT ![p] = new]
    BY <1>3
  <2> HIDE DEF new
  <2> QED
    BY <1>1, <2>2, <2>3, <2>4, PlannerGets DEF Moves, PlannerInv, AdvisedStep, HandedOut
<1> QED
  BY <1>1, <1>2, <1>3, FailedPlanner DEF Start

LEMMA BeginMoves ==
  ASSUME PlannerInv, NEW p \in Planner, Begin(p)
  PROVE  /\ Moves(p) /\ UNCHANGED <<disk, runner, edited>> /\ planner[p].at = "context"
         /\ planner'[p].at \in {"ask", "open", "done", "failed"}
         /\ planner'[p].at = "done" => planner'[p].dry
<1> DEFINE context == BuildContextPack(repo)
<1>1. /\ UNCHANGED <<repo, clock, disk, runner, edited>>
      /\ planner[p].at = "context" /\ planner[p] \in PlannerRec
      /\ context \in ContextRec /\ clock \in 1 .. MaxClock
  BY ContextTypes DEF Begin, PlannerInv, SoundPlanner
<1>2. clock \in 0 .. MaxClock /\ clock > 0
  BY <1>1, HandoffAssumption
<1>3. CASE planner' = Failed(p) /\ UNCHANGED claude
  BY <1>1, <1>3, FailedPlanner DEF Moves, PlannerInv
<1>4. CASE /\ planner' = [planner EXCEPT ![p].at = AfterPlan(p), ![p].stamp = clock,
                            ![p].context = context, ![p].content = FallbackPlan(context)]
           /\ UNCHANGED claude
  <2> DEFINE new == [planner[p] EXCEPT !.at = AfterPlan(p), !.stamp = clock,
                       !.context = context, !.content = FallbackPlan(context)]
  <2>1. /\ FallbackPlan(context) \in ContentRec
        /\ FallbackPlan(context) = [agents |-> context.agents, checks |-> context.checks]
    BY <1>1, FallbackIsPlain
  <2>2. AfterPlan(p) = IF planner[p].dry THEN "done" ELSE "open"
    BY DEF AfterPlan
  <2> HIDE DEF context
  <2>3. /\ new.at = AfterPlan(p) /\ new.stamp = clock /\ new.context = context
        /\ new.content = FallbackPlan(context) /\ new.dry = planner[p].dry
    BY <1>1 DEF PlannerRec
  <2>4. new \in PlannerRec
    <3>1. AfterPlan(p) \in Busy \union Over
      BY <2>2 DEF Busy, Over
    <3> HIDE DEF AfterPlan
    <3> QED
      BY <1>1, <1>2, <2>1, <3>1 DEF PlannerRec
  <2>5. planner' = [planner EXCEPT ![p] = new]
    BY <1>4
  <2> HIDE DEF new
  <2>6. SoundPlanner(new)
    BY <1>1, <1>2, <2>2, <2>3, <2>4 DEF SoundPlanner
  <2>7. ~Usable(claude[p])
    BY <1>1 DEF Usable, PlannerInv
  <2>8. planner'[p] = new
    BY <2>5, PlannerGets
  <2>9. AdvisedStep(p)
    BY <1>1, <2>1, <2>3, <2>7, <2>8 DEF AdvisedStep, HandedOut
  <2> QED
    BY <1>1, <1>4, <2>2, <2>3, <2>5, <2>6, <2>9, PlannerGets DEF Moves, PlannerInv
<1>5. ASSUME NEW os \in {"running", "failed"},
             planner' = [planner EXCEPT ![p].at = "ask", ![p].stamp = clock,
                                        ![p].context = context],
             claude' = [claude EXCEPT ![p] = [NoClaude EXCEPT !.os = os]]
      PROVE  Moves(p) /\ planner'[p].at = "ask"
  <2> HIDE DEF context
  <2> DEFINE new == [planner[p] EXCEPT !.at = "ask", !.stamp = clock, !.context = context]
             c == [NoClaude EXCEPT !.os = os]
  <2>1. new.at = "ask" /\ new.stamp = clock
    BY <1>1 DEF PlannerRec
  <2>2. new \in PlannerRec
    BY <1>1, <1>2 DEF PlannerRec, Busy
  <2>3. planner' = [planner EXCEPT ![p] = new]
    BY <1>5
  <2> HIDE DEF new
  <2>4. SoundPlanner(new)
    BY <1>1, <1>2, <2>1, <2>2 DEF SoundPlanner
  <2>5. SoundClaude(c)
    BY DEF SoundClaude, NoClaude
  <2>6. claude' = [claude EXCEPT ![p] = c]
    BY <1>5
  <2> HIDE DEF c
  <2> QED
    BY <1>1, <2>1, <2>3, <2>4, <2>5, <2>6, PlannerGets, ClaudeGets
    DEF Moves, AdvisedStep, HandedOut
<1> QED
  BY <1>1, <1>3, <1>4, <1>5, FailedPlanner DEF Begin


LEMMA PlannedMoves ==
  ASSUME PlannerInv, NEW p \in Planner, Planned(p)
  PROVE  /\ Moves(p) /\ UNCHANGED <<disk, runner, edited>> /\ planner[p].at = "ask"
         /\ planner'[p].at \in {"open", "done"}
         /\ planner'[p].at = "done" => planner'[p].dry
<1> DEFINE content == Content(p)
           new == [planner[p] EXCEPT !.at = AfterPlan(p), !.content = content]
<1>1. /\ UNCHANGED <<repo, clock, disk, runner, edited>>
      /\ planner[p].at = "ask" /\ SoundPlanner(planner[p]) /\ SoundClaude(claude[p])
      /\ planner' = [planner EXCEPT ![p] = new]
      /\ claude' = [claude EXCEPT ![p] = NoClaude]
  BY DEF Planned, PlannerInv
<1>2. planner[p] \in PlannerRec /\ planner[p].stamp > 0 /\ planner[p].context \in ContextRec
  BY <1>1 DEF SoundPlanner, PlannerRec
<1>3. content \in ContentRec /\ content = Advice(claude[p], planner[p].context)
  <2>1. CASE claude[p].fine
    BY <1>1, <1>2, <2>1, ClaudeIsAdvised DEF Content
  <2>2. CASE ~claude[p].fine
    <3>1. ~Usable(claude[p])
      BY <2>2 DEF Usable
    <3> QED
      BY <1>2, <2>2, <3>1, FallbackIsPlain DEF Content, Advice
  <2> QED
    BY <2>1, <2>2
<1>4. AfterPlan(p) = IF planner[p].dry THEN "done" ELSE "open"
  BY DEF AfterPlan
<1>5. AfterPlan(p) \in Busy \union Over
  BY <1>4 DEF Busy, Over
<1> HIDE DEF content
<1>6. /\ new.at = AfterPlan(p) /\ new.stamp = planner[p].stamp
      /\ new.context = planner[p].context /\ new.content = content
      /\ new.dry = planner[p].dry
  BY <1>2 DEF PlannerRec
<1>7. new \in PlannerRec
  <2> HIDE DEF AfterPlan
  <2> QED
    BY <1>2, <1>3, <1>5 DEF PlannerRec
<1> HIDE DEF new
<1>8. SoundPlanner(new)
  BY <1>2, <1>4, <1>6, <1>7 DEF SoundPlanner
<1>9. /\ DOMAIN claude' = Planner /\ SoundClaude(claude'[p])
      /\ \A q \in Planner \ {p} : claude'[q] = claude[q]
  BY <1>1, IdleIsSound, ClaudeGets
<1>10. planner'[p] = new
  BY <1>1, PlannerGets
<1>11. AdvisedStep(p)
  BY <1>1, <1>3, <1>6, <1>10 DEF AdvisedStep, HandedOut, Advice
<1> QED
  BY <1>1, <1>4, <1>6, <1>8, <1>9, <1>11, PlannerGets DEF Moves

LEMMA IdMoves ==
  ASSUME NEW q, planner'[q].stamp = planner[q].stamp, planner'[q].task = planner[q].task
  PROVE  IdOf(q)' = IdOf(q)
  BY DEF IdOf, PlanId

(* A planner that goes on with its file keeps its id and its plan.         *)
Forward(p, at) ==
  /\ planner'[p].at = at /\ planner'[p].dry = planner[p].dry
  /\ planner'[p].stamp = planner[p].stamp /\ planner'[p].task = planner[p].task
  /\ planner'[p].content = planner[p].content

LEMMA ForwardMoves ==
  ASSUME PlannerInv, NEW p \in Planner, planner[p].at \in {"open", "write"},
         NEW at \in {"write", "done"}, planner' = [planner EXCEPT ![p].at = at],
         UNCHANGED <<repo, clock, claude>>
  PROVE  Moves(p) /\ Forward(p, at)
<1> DEFINE new == [planner[p] EXCEPT !.at = at]
<1>1. SoundPlanner(planner[p]) /\ planner[p] \in PlannerRec
  BY DEF PlannerInv, SoundPlanner
<1>2. /\ new.at = at /\ new.stamp = planner[p].stamp /\ new.task = planner[p].task
      /\ new.context = planner[p].context /\ new.content = planner[p].content
      /\ new.dry = planner[p].dry
  BY <1>1 DEF PlannerRec
<1>3. new \in PlannerRec
  BY <1>1 DEF PlannerRec, Busy, Over
<1>4. planner' = [planner EXCEPT ![p] = new]
  OBVIOUS
<1> HIDE DEF new
<1>5. SoundPlanner(new)
  BY <1>1, <1>2, <1>3 DEF SoundPlanner
<1>6. planner'[p] = new
  BY <1>4, PlannerGets
<1>7. AdvisedStep(p)
  BY <1>2, <1>6 DEF AdvisedStep, HandedOut
<1> QED
  BY <1>2, <1>4, <1>5, <1>7, PlannerGets DEF Moves, PlannerInv, Forward

LEMMA OpenMoves ==
  ASSUME PlannerInv, NEW p \in Planner, Open(p)
  PROVE  /\ Moves(p) /\ UNCHANGED <<runner, edited>> /\ planner[p].at = "open"
         /\ \/ Forward(p, "write") /\ disk' = [disk EXCEPT ![IdOf(p)] = Empty]
            \/ planner' = Failed(p) /\ UNCHANGED disk
<1>1. UNCHANGED <<repo, clock, claude, runner, edited>> /\ planner[p].at = "open"
  BY DEF Open
<1>2. CASE planner' = Failed(p) /\ UNCHANGED disk
  BY <1>1, <1>2, FailedPlanner DEF Moves, PlannerInv
<1>3. CASE /\ disk' = [disk EXCEPT ![IdOf(p)] = Empty]
           /\ planner' = [planner EXCEPT ![p].at = "write"]
  BY <1>1, <1>3, ForwardMoves
<1> QED
  BY <1>1, <1>2, <1>3 DEF Open

LEMMA WriteMoves ==
  ASSUME PlannerInv, NEW p \in Planner, Write(p)
  PROVE  /\ Moves(p) /\ UNCHANGED <<runner, edited>> /\ planner[p].at = "write"
         /\ \/ /\ Forward(p, "done")
               /\ \E doc : /\ disk' = [disk EXCEPT ![IdOf(p)] = doc]
                           /\ \/ doc = RenderPlanMarkdown(planner[p].content)
                              \/ /\ disk[IdOf(p)] # Empty
                                 /\ doc = WithTail(RenderPlanMarkdown(planner[p].content))
            \/ planner' = Failed(p) /\ UNCHANGED disk
<1>1. UNCHANGED <<repo, clock, claude, runner, edited>> /\ planner[p].at = "write"
  BY DEF Write
<1>2. CASE planner' = Failed(p) /\ UNCHANGED disk
  BY <1>1, <1>2, FailedPlanner DEF Moves, PlannerInv
<1>3. ASSUME NEW doc \in {RenderPlanMarkdown(planner[p].content)} \union
                         (IF disk[IdOf(p)] = Empty THEN {}
                          ELSE {WithTail(RenderPlanMarkdown(planner[p].content))}),
             disk' = [disk EXCEPT ![IdOf(p)] = doc],
             planner' = [planner EXCEPT ![p].at = "done"]
      PROVE  /\ Moves(p) /\ Forward(p, "done")
             /\ \/ doc = RenderPlanMarkdown(planner[p].content)
                \/ /\ disk[IdOf(p)] # Empty
                   /\ doc = WithTail(RenderPlanMarkdown(planner[p].content))
  BY <1>1, <1>3, ForwardMoves
<1> QED
  BY <1>1, <1>2, <1>3 DEF Write

LEMMA KillMoves ==
  ASSUME PlannerInv, NEW p \in Planner, Kill(p)
  PROVE  /\ Moves(p) /\ UNCHANGED <<disk, runner, edited>> /\ planner' = Failed(p)
         /\ planner[p].at \in Busy
<1>1. /\ UNCHANGED <<repo, clock, disk, runner, edited>> /\ planner' = Failed(p)
      /\ claude' = [claude EXCEPT ![p] = NoClaude] /\ planner[p].at \in Busy
  BY DEF Kill
<1> QED
  BY <1>1, FailedPlanner, IdleIsSound, ClaudeGets DEF Moves

LEMMA ClaudeEndsKeeps ==
  ASSUME PlannerInv, NEW p \in Planner, ClaudeEnds(p)
  PROVE  PlannerInv' /\ UNCHANGED <<disk, planner, runner, edited>>
<1>1. /\ UNCHANGED <<repo, clock, disk, planner, runner, edited>>
      /\ SoundClaude(claude[p])
  BY DEF ClaudeEnds, PlannerInv
<1>2. PICK fine \in BOOLEAN, says \in Answer :
        claude' = [claude EXCEPT ![p] = [os |-> "exited", fine |-> fine, says |-> says]]
  BY DEF ClaudeEnds
<1> DEFINE c == [os |-> "exited", fine |-> fine, says |-> says]
<1>3. SoundClaude(c)
  BY DEF SoundClaude
<1>4. claude' = [claude EXCEPT ![p] = c]
  BY <1>2
<1> HIDE DEF c
<1>5. /\ DOMAIN claude' = Planner /\ SoundClaude(claude'[p])
      /\ \A q \in Planner \ {p} : claude'[q] = claude[q]
  BY <1>3, <1>4, ClaudeGets
<1>6. planner[p].at \notin {"idle", "context"}
  BY DEF ClaudeEnds, PlannerInv
<1> QED
  BY <1>1, <1>5, <1>6 DEF PlannerInv

-----------------------------------------------------------------------------
(* Files.  A text that no human has written is an artifact or a printed    *)
(* plan.                                                                   *)

Printed(doc) == \E c : doc = PlanAsJson(c)

ByMachine(doc) == doc.kind \in {"absent", "markdown"} \/ Printed(doc)

DiskInv ==
  /\ DOMAIN disk = Ids
  /\ edited \subseteq Edit
  /\ \A i \in Ids : disk[i] \in edited \/ ByMachine(disk[i])

LEMMA ArtifactsAreMachineMade ==
  /\ ByMachine(Empty)
  /\ \A c : /\ ByMachine(RenderPlanMarkdown(c))
            /\ ByMachine(WithTail(RenderPlanMarkdown(c)))
  BY DEF ByMachine, Empty, RenderPlanMarkdown, WithTail, Markdown

PlannerMoves(p) == Start(p) \/ PlannerStep(p) \/ Kill(p)

(* The step of a planner leaves the disk alone, or puts something machine- *)
(* made under its own id.                                                  *)
LEMMA PlannerDisk ==
  ASSUME PlannerInv, NEW p \in Planner, PlannerMoves(p)
  PROVE  /\ Moves(p) /\ UNCHANGED <<runner, edited>>
         /\ \/ UNCHANGED disk
            \/ \E doc : ByMachine(doc) /\ disk' = [disk EXCEPT ![IdOf(p)] = doc]
<1>1. CASE Start(p)
  BY <1>1, StartMoves
<1>2. CASE Begin(p)
  BY <1>2, BeginMoves
<1>3. CASE Planned(p)
  BY <1>3, PlannedMoves
<1>4. CASE Open(p)
  <2>1. /\ Moves(p) /\ UNCHANGED <<runner, edited>>
        /\ UNCHANGED disk \/ disk' = [disk EXCEPT ![IdOf(p)] = Empty]
    BY <1>4, OpenMoves
  <2>2. ByMachine(Empty)
    BY ArtifactsAreMachineMade
  <2> QED
    BY <2>1, <2>2
<1>5. CASE Write(p)
  <2>1. Moves(p) /\ UNCHANGED <<runner, edited>>
    BY <1>5, WriteMoves
  <2>2. CASE UNCHANGED disk
    BY <2>1, <2>2
  <2>3. ASSUME NEW doc, disk' = [disk EXCEPT ![IdOf(p)] = doc],
               \/ doc = RenderPlanMarkdown(planner[p].content)
               \/ doc = WithTail(RenderPlanMarkdown(planner[p].content))
        PROVE  ByMachine(doc)
    BY <2>3, ArtifactsAreMachineMade
  <2>4. CASE disk' # disk
    <3>1. PICK doc : /\ disk' = [disk EXCEPT ![IdOf(p)] = doc]
                     /\ \/ doc = RenderPlanMarkdown(planner[p].content)
                        \/ doc = WithTail(RenderPlanMarkdown(planner[p].content))
      BY <1>5, <2>4, WriteMoves
    <3> QED
      BY <2>1, <2>3, <3>1
  <2> QED
    BY <2>2, <2>4
<1>6. CASE Kill(p)
  BY <1>6, KillMoves
<1> QED
  BY <1>1, <1>2, <1>3, <1>4, <1>5, <1>6 DEF PlannerMoves, PlannerStep

LEMMA DiskGets ==
  ASSUME DiskInv, edited \subseteq edited', edited' \subseteq Edit,
         NEW i, NEW doc, disk' = [disk EXCEPT ![i] = doc],
         doc \in edited' \/ ByMachine(doc)
  PROVE  DiskInv'
<1>1. DOMAIN disk' = Ids
  BY DEF DiskInv
<1>2. ASSUME NEW j \in Ids PROVE disk'[j] \in edited' \/ ByMachine(disk'[j])
  <2>1. disk'[j] = doc \/ disk'[j] = disk[j]
    BY DEF DiskInv
  <2> QED
    BY <2>1 DEF DiskInv
<1> QED
  BY <1>1, <1>2 DEF DiskInv, ByMachine

LEMMA NextDisk == PlannerInv /\ DiskInv /\ [Next]_vars => DiskInv' /\ edited \subseteq edited'
<1> SUFFICES ASSUME PlannerInv, DiskInv, [Next]_vars
             PROVE  DiskInv' /\ edited \subseteq edited'
  OBVIOUS
<1>1. ASSUME UNCHANGED <<disk, edited>> PROVE DiskInv'
  BY <1>1 DEF DiskInv, ByMachine
<1>2. ASSUME NEW p \in Planner, PlannerMoves(p) PROVE DiskInv' /\ UNCHANGED edited
  <2>1. UNCHANGED edited
    BY <1>2, PlannerDisk
  <2>2. CASE UNCHANGED disk
    BY <1>1, <2>1, <2>2
  <2>3. ASSUME NEW doc, ByMachine(doc), disk' = [disk EXCEPT ![IdOf(p)] = doc]
        PROVE  DiskInv'
    BY <2>1, <2>3, DiskGets DEF DiskInv
  <2> QED
    BY <1>2, <2>1, <2>2, <2>3, PlannerDisk
<1>3. ASSUME NEW p \in Planner, SaveJson(p) PROVE DiskInv' /\ edited \subseteq edited'
  <2> DEFINE doc == PlanAsJson(planner[p].content)
  <2>1. disk' = [disk EXCEPT ![Saved] = doc] /\ UNCHANGED edited
    BY <1>3 DEF SaveJson
  <2>2. ByMachine(doc)
    BY DEF ByMachine, Printed
  <2> HIDE DEF doc
  <2> QED
    BY <2>1, <2>2, DiskGets DEF DiskInv
<1>4. ASSUME NEW i \in Ids, EditPlan(i) PROVE DiskInv' /\ edited \subseteq edited'
  BY <1>4, DiskGets DEF EditPlan, DiskInv
<1>5. ASSUME NEW p \in Planner, ClaudeEnds(p) PROVE UNCHANGED <<disk, edited>>
  BY <1>5 DEF ClaudeEnds
<1>6. ASSUME NEW r \in Runner, RequestHumanApproval(r) \/ Load(r)
      PROVE  UNCHANGED <<disk, edited>>
  BY <1>6 DEF RequestHumanApproval, Load
<1>7. CASE Tick \/ UNCHANGED vars
  BY <1>1, <1>7 DEF Tick, vars
<1> QED
  BY <1>1, <1>2, <1>3, <1>4, <1>5, <1>6, <1>7 DEF Next, PlannerMoves, Done

LEMMA NextPlannerInv == PlannerInv /\ [Next]_vars => PlannerInv'
<1> SUFFICES ASSUME PlannerInv, [Next]_vars PROVE PlannerInv'
  OBVIOUS
<1>1. ASSUME NEW p \in Planner, PlannerMoves(p) PROVE PlannerInv'
  BY <1>1, PlannerDisk, MovesKeep
<1>2. ASSUME NEW p \in Planner, ClaudeEnds(p) PROVE PlannerInv'
  BY <1>2, ClaudeEndsKeeps
<1>3. ASSUME UNCHANGED <<repo, clock, planner, claude>> PROVE PlannerInv'
  BY <1>3 DEF PlannerInv
<1>4. ASSUME NEW p \in Planner, SaveJson(p) PROVE UNCHANGED <<repo, clock, planner, claude>>
  BY <1>4 DEF SaveJson
<1>5. ASSUME NEW i \in Ids, EditPlan(i) PROVE UNCHANGED <<repo, clock, planner, claude>>
  BY <1>5 DEF EditPlan
<1>6. ASSUME NEW r \in Runner, RequestHumanApproval(r) \/ Load(r)
      PROVE  UNCHANGED <<repo, clock, planner, claude>>
  BY <1>6 DEF RequestHumanApproval, Load
<1>7. CASE Tick
  <2>1. clock + 1 \in 1 .. MaxClock
    BY <1>7, HandoffAssumption DEF Tick, PlannerInv
  <2> QED
    BY <1>7, <2>1 DEF Tick, PlannerInv
<1>8. CASE UNCHANGED vars
  BY <1>3, <1>8 DEF vars
<1> QED
  BY <1>1, <1>2, <1>3, <1>4, <1>5, <1>6, <1>7, <1>8 DEF Next, PlannerMoves, Done

(* A runner goes by the text it has loaded.                                *)
RunnerInv ==
  /\ DOMAIN runner = Runner
  /\ \A r \in Runner :
       /\ DOMAIN runner[r] = {"at", "id", "approved", "doc"}
       /\ runner[r].id \in Ids
       /\ runner[r].at \in {"idle", "load"} \/
            /\ runner[r].doc \in edited \/ ByMachine(runner[r].doc)
            /\ runner[r].at = RunOutcome(LoadRunPlan(runner[r].doc), runner[r].approved)

LEMMA NextRunnerInv ==
  PlannerInv /\ DiskInv /\ RunnerInv /\ [Next]_vars => RunnerInv'
<1> SUFFICES ASSUME PlannerInv, DiskInv, RunnerInv, [Next]_vars PROVE RunnerInv'
  OBVIOUS
<1>0. edited \subseteq edited'
  BY NextDisk
<1>1. ASSUME UNCHANGED runner PROVE RunnerInv'
  BY <1>0, <1>1 DEF RunnerInv, ByMachine
<1>2. ASSUME NEW r \in Runner, RequestHumanApproval(r) PROVE RunnerInv'
  <2>1. PICK i \in Ids, approved \in BOOLEAN :
          runner' = [runner EXCEPT ![r] = [at |-> "load", id |-> i, approved |-> approved,
                                           doc |-> Absent]]
    BY <1>2 DEF RequestHumanApproval
  <2>2. /\ DOMAIN runner' = Runner /\ runner'[r].at = "load" /\ runner'[r].id = i
        /\ DOMAIN runner'[r] = {"at", "id", "approved", "doc"}
        /\ \A s \in Runner \ {r} : runner'[s] = runner[s]
    BY <2>1 DEF RunnerInv
  <2> QED
    BY <1>0, <2>2 DEF RunnerInv, ByMachine
<1>3. ASSUME NEW r \in Runner, Load(r) PROVE RunnerInv'
  <2> DEFINE doc == disk[runner[r].id]
             new == [runner[r] EXCEPT !.doc = doc,
                       !.at = RunOutcome(LoadRunPlan(doc), runner[r].approved)]
  <2>1. runner' = [runner EXCEPT ![r] = new] /\ UNCHANGED edited
    BY <1>3 DEF Load
  <2>2. doc \in edited \/ ByMachine(doc)
    BY DEF DiskInv, RunnerInv
  <2>3. DOMAIN runner[r] = {"at", "id", "approved", "doc"} /\ runner[r].id \in Ids
    BY DEF RunnerInv
  <2>4. /\ DOMAIN new = {"at", "id", "approved", "doc"} /\ new.doc = doc
        /\ new.at = RunOutcome(LoadRunPlan(doc), runner[r].approved)
        /\ new.id = runner[r].id /\ new.approved = runner[r].approved
    BY <2>3
  <2> HIDE DEF new
  <2>5. /\ DOMAIN runner' = Runner /\ runner'[r] = new
        /\ \A s \in Runner \ {r} : runner'[s] = runner[s]
    BY <2>1 DEF RunnerInv
  <2>6. new.doc \in edited' \/ ByMachine(new.doc)
    BY <2>1, <2>2, <2>4 DEF ByMachine
  <2> QED
    BY <1>0, <2>3, <2>4, <2>5, <2>6 DEF RunnerInv, ByMachine
<1>4. ASSUME NEW p \in Planner, PlannerMoves(p) PROVE UNCHANGED runner
  BY <1>4, PlannerDisk
<1>5. ASSUME NEW p \in Planner, ClaudeEnds(p) \/ SaveJson(p) PROVE UNCHANGED runner
  BY <1>5 DEF ClaudeEnds, SaveJson
<1>6. ASSUME NEW i \in Ids, EditPlan(i) PROVE UNCHANGED runner
  BY <1>6 DEF EditPlan
<1>7. CASE Tick \/ UNCHANGED vars
  BY <1>1, <1>7 DEF Tick, vars
<1> QED
  BY <1>1, <1>2, <1>3, <1>4, <1>5, <1>6, <1>7 DEF Next, PlannerMoves, Done

-----------------------------------------------------------------------------
(* Whose file it is.  A planner that has opened its file is marked, for    *)
(* good; only a marked twin can disturb the file of another.               *)

Marked == {"write", "done", "failed"}

Touched(p) == \E q \in Planner : Twin(p, q) /\ planner[q].at \in Marked

HasItsFile(p) ==
  /\ planner[p].at = "write" => disk[IdOf(p)] = Empty \/ Touched(p)
  /\ planner[p].at = "done" /\ ~planner[p].dry =>
       \/ disk[IdOf(p)] = RenderPlanMarkdown(planner[p].content)
       \/ disk[IdOf(p)] \in edited
       \/ Touched(p)

FileInv == \A p \in Planner : HasItsFile(p)

LEMMA IdsOfWriters ==
  ASSUME PlannerInv, NEW p \in Planner, planner[p].at \in {"ask", "open", "write", "done"}
  PROVE  IdOf(p) \in Ids /\ IdOf(p) # Saved
<1>1. planner[p].stamp \in 1 .. MaxClock /\ planner[p].task \in Task
  BY HandoffAssumption DEF PlannerInv, SoundPlanner, PlannerRec
<1>2. IdOf(p) = <<planner[p].stamp, Slug[planner[p].task]>>
  BY DEF IdOf, PlanId
<1>3. planner[p].stamp # 0
  BY <1>1
<1> QED
  BY <1>1, <1>2, <1>3 DEF Ids, Saved

LEMMA SameIdsAreTwins ==
  ASSUME NEW p, NEW q, q # p, IdOf(p) = IdOf(q), ~planner[q].dry
  PROVE  Twin(p, q)
  BY DEF IdOf, PlanId, Twin

(* A mark stays, with its id.                                              *)
Keeps(q) ==
  /\ planner'[q].at \in Marked
  /\ planner'[q].stamp = planner[q].stamp /\ planner'[q].task = planner[q].task
  /\ ~planner[q].dry => ~planner'[q].dry

LEMMA MarkStays ==
  ASSUME PlannerInv, NEW p \in Planner, PlannerMoves(p), planner[p].at \in Marked
  PROVE  Keeps(p)
<1>1. CASE Start(p)
  BY <1>1 DEF Start, Marked
<1>2. CASE Begin(p)
  BY <1>2 DEF Begin, Marked
<1>3. CASE Planned(p)
  BY <1>3 DEF Planned, Marked
<1>4. CASE Open(p)
  BY <1>4 DEF Open, Marked
<1>5. CASE Write(p)
  <2>1. planner[p].at = "write" /\ (Forward(p, "done") \/ planner' = Failed(p))
    BY <1>5, WriteMoves
  <2>2. CASE Forward(p, "done")
    BY <2>2 DEF Forward, Keeps, Marked
  <2>3. CASE planner' = Failed(p)
    BY <2>1, <2>3, FailedPlanner DEF Keeps, Marked
  <2> QED
    BY <2>1, <2>2, <2>3
<1>6. CASE Kill(p)
  <2>1. planner' = Failed(p) /\ planner[p].at = "write"
    BY <1>6 DEF Kill, Busy, Marked
  <2> QED
    BY <2>1, FailedPlanner DEF Keeps, Marked
<1> QED
  BY <1>1, <1>2, <1>3, <1>4, <1>5, <1>6 DEF PlannerMoves, PlannerStep

LEMMA TouchedStays ==
  ASSUME NEW p, NEW q \in Planner, Twin(p, q), planner[q].at \in Marked, Keeps(q),
         planner'[p].stamp = planner[p].stamp, planner'[p].task = planner[p].task
  PROVE  Touched(p)'
<1>1. Twin(p, q)'
  BY DEF Twin, Keeps
<1> QED
  BY <1>1 DEF Touched, Keeps

(* Only a planner that is marked then, and not dry, puts something on disk.*)
LEMMA WritersAreMarked ==
  ASSUME PlannerInv, NEW p \in Planner, PlannerMoves(p), disk' # disk
  PROVE  /\ planner[p].at \in {"open", "write"}
         /\ \E doc : disk' = [disk EXCEPT ![IdOf(p)] = doc]
         /\ planner'[p].at \in Marked /\ ~planner'[p].dry
         /\ planner'[p].stamp = planner[p].stamp /\ planner'[p].task = planner[p].task
<1>1. SoundPlanner(planner[p])
  BY DEF PlannerInv
<1>2. CASE Start(p) \/ Begin(p) \/ Planned(p) \/ Kill(p)
  BY <1>2 DEF Start, Begin, Planned, Kill
<1>3. CASE Open(p)
  <2>1. planner[p].at = "open" /\ Forward(p, "write")
        /\ disk' = [disk EXCEPT ![IdOf(p)] = Empty]
    BY <1>3, OpenMoves
  <2> QED
    BY <1>1, <2>1 DEF Forward, SoundPlanner, Marked
<1>4. CASE Write(p)
  <2>1. planner[p].at = "write" /\ Forward(p, "done")
        /\ \E doc : disk' = [disk EXCEPT ![IdOf(p)] = doc]
    BY <1>4, WriteMoves
  <2> QED
    BY <1>1, <2>1 DEF Forward, SoundPlanner, Marked
<1> QED
  BY <1>2, <1>3, <1>4 DEF PlannerMoves, PlannerStep

(* The planner that moves.                                                 *)
LEMMA MoverHasItsFile ==
  ASSUME PlannerInv, DiskInv, NEW p \in Planner, HasItsFile(p), PlannerMoves(p)
  PROVE  HasItsFile(p)'
<1>1. CASE Start(p)
  BY <1>1, StartMoves DEF HasItsFile
<1>2. CASE Begin(p)
  BY <1>2, BeginMoves DEF HasItsFile
<1>3. CASE Planned(p)
  BY <1>3, PlannedMoves DEF HasItsFile
<1>4. CASE planner' = Failed(p)
  BY <1>4, FailedPlanner DEF HasItsFile
<1>5. CASE Open(p) /\ planner' # Failed(p)
  <2>1. /\ planner[p].at = "open" /\ Forward(p, "write")
        /\ disk' = [disk EXCEPT ![IdOf(p)] = Empty]
    BY <1>5, OpenMoves
  <2>2. IdOf(p)' = IdOf(p) /\ IdOf(p) \in DOMAIN disk
    BY <2>1, IdMoves, IdsOfWriters DEF Forward, DiskInv
  <2>3. disk'[IdOf(p)'] = Empty
    BY <2>1, <2>2
  <2> QED
    BY <2>1, <2>3 DEF Forward, HasItsFile
<1>6. CASE Write(p) /\ planner' # Failed(p)
  <2>1. planner[p].at = "write" /\ Forward(p, "done")
    BY <1>6, WriteMoves
  <2>2. PICK doc : /\ disk' = [disk EXCEPT ![IdOf(p)] = doc]
                   /\ \/ doc = RenderPlanMarkdown(planner[p].content)
                      \/ disk[IdOf(p)] # Empty
    BY <1>6, WriteMoves
  <2>3. IdOf(p)' = IdOf(p) /\ IdOf(p) \in DOMAIN disk
    BY <2>1, IdMoves, IdsOfWriters DEF Forward, DiskInv
  <2>4. disk'[IdOf(p)'] = doc
    BY <2>2, <2>3
  <2>5. CASE doc = RenderPlanMarkdown(planner[p].content)
    <3>1. disk'[IdOf(p)'] = RenderPlanMarkdown(planner'[p].content)
      BY <2>1, <2>4, <2>5 DEF Forward
    <3> QED
      BY <2>1, <3>1 DEF Forward, HasItsFile
  <2>6. CASE disk[IdOf(p)] # Empty
    <3>1. PICK q \in Planner : Twin(p, q) /\ planner[q].at \in Marked
      BY <2>1, <2>6 DEF HasItsFile, Touched
    <3>2. q # p /\ planner'[q] = planner[q]
      BY <1>6, <3>1, WriteMoves DEF Twin, Moves
    <3>3. Touched(p)'
      BY <2>1, <3>1, <3>2, TouchedStays DEF Forward, Keeps
    <3> QED
      BY <2>1, <3>3 DEF Forward, HasItsFile
  <2> QED
    BY <2>2, <2>5, <2>6
<1> QED
  BY <1>1, <1>2, <1>3, <1>4, <1>5, <1>6 DEF PlannerMoves, PlannerStep, Kill

(* The others, whose file it may be as well.                               *)
LEMMA OthersHaveTheirFile ==
  ASSUME PlannerInv, DiskInv, NEW p \in Planner, PlannerMoves(p), UNCHANGED edited,
         NEW x \in Planner, x # p, HasItsFile(x)
  PROVE  HasItsFile(x)'
<1>1. planner'[x] = planner[x] /\ IdOf(x)' = IdOf(x)
  BY PlannerDisk, IdMoves DEF Moves
<1>2. ASSUME Touched(x) PROVE Touched(x)'
  <2>1. PICK q \in Planner : Twin(x, q) /\ planner[q].at \in Marked
    BY <1>2 DEF Touched
  <2>2. Keeps(q)
    <3>1. CASE q = p
      BY <2>1, <3>1, MarkStays
    <3>2. CASE q # p
      BY <2>1, <3>2, PlannerDisk DEF Moves, Keeps
    <3> QED
      BY <3>1, <3>2
  <2> QED
    BY <1>1, <2>1, <2>2, TouchedStays
<1>3. CASE disk'[IdOf(x)] = disk[IdOf(x)]
  BY <1>1, <1>2, <1>3 DEF HasItsFile
<1>4. CASE disk'[IdOf(x)] # disk[IdOf(x)]
  <2>1. PICK doc : disk' = [disk EXCEPT ![IdOf(p)] = doc]
    BY <1>4, WritersAreMarked
  <2>2. IdOf(x) = IdOf(p)
    BY <1>4, <2>1
  <2>3. planner'[p].at \in Marked /\ ~planner'[p].dry
        /\ planner'[p].stamp = planner[p].stamp /\ planner'[p].task = planner[p].task
    BY <1>4, WritersAreMarked
  <2>4. planner'[p].stamp = planner'[x].stamp
        /\ Slug[planner'[p].task] = Slug[planner'[x].task]
    BY <1>1, <2>2, <2>3 DEF IdOf, PlanId
  <2>5. Touched(x)'
    BY <2>3, <2>4 DEF Touched, Twin
  <2> QED
    BY <2>5 DEF HasItsFile
<1> QED
  BY <1>3, <1>4

LEMMA NextFile == PlannerInv /\ DiskInv /\ FileInv /\ [Next]_vars => FileInv'
<1> SUFFICES ASSUME PlannerInv, DiskInv, FileInv, [Next]_vars, NEW x \in Planner
             PROVE  HasItsFile(x)'
  BY DEF FileInv
<1>0. HasItsFile(x) /\ edited \subseteq edited'
  BY NextDisk DEF FileInv
<1>1. ASSUME NEW p \in Planner, PlannerMoves(p) PROVE HasItsFile(x)'
  BY <1>0, <1>1, PlannerDisk, MoverHasItsFile, OthersHaveTheirFile
<1>2. ASSUME UNCHANGED planner,
             planner[x].at \in {"write", "done"} => disk'[IdOf(x)] = disk[IdOf(x)]
      PROVE  HasItsFile(x)'
  BY <1>0, <1>2 DEF HasItsFile, IdOf, Touched, Twin
<1>3. ASSUME NEW p \in Planner, SaveJson(p) PROVE HasItsFile(x)'
  <2>1. /\ UNCHANGED planner
        /\ disk' = [disk EXCEPT ![Saved] = PlanAsJson(planner[p].content)]
    BY <1>3 DEF SaveJson
  <2>2. planner[x].at \in {"write", "done"} => disk'[IdOf(x)] = disk[IdOf(x)]
    BY <2>1, IdsOfWriters
  <2> QED
    BY <1>2, <2>1, <2>2
<1>4. ASSUME NEW i \in Ids, EditPlan(i) PROVE HasItsFile(x)'
  <2>1. UNCHANGED planner
    BY <1>4 DEF EditPlan
  <2>2. PICK doc \in Edit : /\ disk' = [disk EXCEPT ![i] = doc]
                            /\ edited' = edited \union {doc}
    BY <1>4 DEF EditPlan
  <2>3. PICK q \in Planner : planner[q].at \in Over /\ ~planner[q].dry /\ IdOf(q) = i
    BY <1>4 DEF EditPlan
  <2>4. CASE IdOf(x) # i
    BY <1>2, <2>1, <2>2, <2>4
  <2>5. CASE IdOf(x) = i
    <3>1. disk'[IdOf(x)] = doc /\ doc \in edited'
      BY <2>2, <2>5 DEF DiskInv
    <3>2. IdOf(x)' = IdOf(x)
      BY <2>1, IdMoves
    <3>3. ASSUME planner[x].at = "write" PROVE Touched(x)'
      <4>1. q # x
        BY <2>3, <3>3 DEF Over
      <4>2. Twin(x, q)
        BY <2>3, <2>5, <4>1, SameIdsAreTwins
      <4> QED
        BY <2>1, <2>3, <4>2 DEF Touched, Twin, Marked, Over
    <3> QED
      BY <2>1, <3>1, <3>2, <3>3 DEF HasItsFile
  <2> QED
    BY <2>4, <2>5
<1>5. ASSUME UNCHANGED <<planner, disk>> PROVE HasItsFile(x)'
  BY <1>2, <1>5
<1>6. ASSUME NEW p \in Planner, ClaudeEnds(p) PROVE UNCHANGED <<planner, disk>>
  BY <1>6 DEF ClaudeEnds
<1>7. ASSUME NEW r \in Runner, RequestHumanApproval(r) \/ Load(r)
      PROVE  UNCHANGED <<planner, disk>>
  BY <1>7 DEF RequestHumanApproval, Load
<1>8. CASE Tick \/ UNCHANGED vars
  BY <1>5, <1>8 DEF Tick, vars
<1> QED
  BY <1>1, <1>3, <1>4, <1>5, <1>6, <1>7, <1>8 DEF Next, PlannerMoves, Done

-----------------------------------------------------------------------------
(* The inductive invariant.                                                *)

PlannersAreRecords == planner \in [Planner -> PlannerRec]

PlanInv == PlannerInv /\ PlannersAreRecords /\ DiskInv /\ FileInv /\ RunnerInv

LEMMA InitPlanInv == Init => PlanInv
<1> SUFFICES ASSUME Init PROVE PlanInv
  OBVIOUS
<1>1. /\ repo \in Repo /\ clock = 1 /\ edited = {}
      /\ disk = [i \in Ids |-> Absent]
      /\ planner = [p \in Planner |-> Idle]
      /\ claude = [p \in Planner |-> NoClaude]
      /\ runner = [r \in Runner |-> Waiting]
  BY DEF Init
<1>2. 1 \in 1 .. MaxClock
  BY HandoffAssumption
<1>3. PlannerInv
  <2>1. NoClaude.os = "none"
    BY DEF NoClaude
  <2> QED
    BY <1>1, <1>2, <2>1, IdleIsSound DEF PlannerInv
<1>4. PlannersAreRecords
  BY <1>1, IdleIsSound DEF PlannersAreRecords, SoundPlanner
<1>5. DiskInv
  <2>1. ByMachine(Absent)
    BY DEF ByMachine, Absent
  <2> HIDE DEF Absent
  <2> QED
    BY <1>1, <2>1 DEF DiskInv
<1>6. FileInv
  <2>1. \A p \in Planner : planner[p].at = "idle"
    BY <1>1 DEF Idle
  <2> QED
    BY <2>1 DEF FileInv, HasItsFile
<1>7. RunnerInv
  <2>1. /\ DOMAIN Waiting = {"at", "id", "approved", "doc"}
        /\ Waiting.at = "idle" /\ Waiting.id \in Ids
    BY DEF Waiting, Ids
  <2> QED
    BY <1>1, <2>1 DEF RunnerInv
<1> QED
  BY <1>3, <1>4, <1>5, <1>6, <1>7 DEF PlanInv

LEMMA NextPlannerRecords ==
  PlannersAreRecords /\ PlannerInv /\ [Next]_vars => PlannersAreRecords'
<1> SUFFICES ASSUME PlannersAreRecords, PlannerInv, [Next]_vars PROVE PlannersAreRecords'
  OBVIOUS
<1>1. DOMAIN planner' = Planner /\ \A p \in Planner : planner'[p] \in PlannerRec
  BY NextPlannerInv DEF PlannerInv, SoundPlanner
<1>2. ASSUME NEW p \in Planner, NEW new, planner' = [planner EXCEPT ![p] = new]
      PROVE  PlannersAreRecords'
  BY <1>1, <1>2 DEF PlannersAreRecords
<1>3. ASSUME NEW p \in Planner, planner' = Failed(p) PROVE PlannersAreRecords'
  BY <1>2, <1>3 DEF Failed
<1>4. ASSUME NEW p \in Planner, Start(p) PROVE PlannersAreRecords'
  <2>1. ASSUME NEW t \in Task, NEW dry \in BOOLEAN,
               planner' = [planner EXCEPT ![p].at = "context", ![p].task = t, ![p].dry = dry]
        PROVE  PlannersAreRecords'
    <3> DEFINE new == [planner[p] EXCEPT !.at = "context", !.task = t, !.dry = dry]
    <3>1. planner' = [planner EXCEPT ![p] = new]
      BY <2>1
    <3> HIDE DEF new
    <3> QED
      BY <1>2, <3>1
  <2> QED
    BY <1>3, <1>4, <2>1 DEF Start
<1>5. ASSUME NEW p \in Planner, Begin(p) PROVE PlannersAreRecords'
  <2> DEFINE context == BuildContextPack(repo)
             plan == [planner[p] EXCEPT !.at = AfterPlan(p), !.stamp = clock,
                        !.context = context, !.content = FallbackPlan(context)]
             ask == [planner[p] EXCEPT !.at = "ask", !.stamp = clock, !.context = context]
  <2>1. \/ planner' = Failed(p) \/ planner' = [planner EXCEPT ![p] = plan]
        \/ planner' = [planner EXCEPT ![p] = ask]
    BY <1>5 DEF Begin
  <2> HIDE DEF plan, ask
  <2> QED
    BY <1>2, <1>3, <2>1
<1>6. ASSUME NEW p \in Planner, Planned(p) PROVE PlannersAreRecords'
  <2> DEFINE new == [planner[p] EXCEPT !.at = AfterPlan(p), !.content = Content(p)]
  <2>1. planner' = [planner EXCEPT ![p] = new]
    BY <1>6 DEF Planned
  <2> HIDE DEF new
  <2> QED
    BY <1>2, <2>1
<1>7. ASSUME NEW p \in Planner, Open(p) \/ Write(p) \/ Kill(p) PROVE PlannersAreRecords'
  BY <1>2, <1>3, <1>7 DEF Open, Write, Kill
<1>8. ASSUME UNCHANGED planner PROVE PlannersAreRecords'
  BY <1>8 DEF PlannersAreRecords
<1>9. ASSUME NEW p \in Planner, ClaudeEnds(p) \/ SaveJson(p) PROVE UNCHANGED planner
  BY <1>9 DEF ClaudeEnds, SaveJson
<1>10. ASSUME NEW i \in Ids, EditPlan(i) PROVE UNCHANGED planner
  BY <1>10 DEF EditPlan
<1>11. ASSUME NEW r \in Runner, RequestHumanApproval(r) \/ Load(r) PROVE UNCHANGED planner
  BY <1>11 DEF RequestHumanApproval, Load
<1>12. CASE Tick \/ UNCHANGED vars
  BY <1>8, <1>12 DEF Tick, vars
<1> QED
  BY <1>4, <1>5, <1>6, <1>7, <1>8, <1>9, <1>10, <1>11, <1>12 DEF Next, PlannerStep, Done

LEMMA PlanInvariant == Spec => []PlanInv
<1>1. PlanInv /\ [Next]_vars => PlanInv'
  BY NextPlannerInv, NextPlannerRecords, NextDisk, NextFile, NextRunnerInv DEF PlanInv
<1> QED
  BY <1>1, InitPlanInv, PTL DEF Spec

-----------------------------------------------------------------------------
(* What the loader makes of a text.                                        *)

LEMMA TextsHaveAKind ==
  ASSUME NEW doc, doc \in Edit \/ ByMachine(doc)
  PROVE  doc.kind \in {"absent", "markdown", "json"}
<1>1. CASE doc \in Edit
  BY <1>1, HandoffAssumption
<1>2. CASE ByMachine(doc)
  BY <1>2 DEF ByMachine, Printed, PlanAsJson, PlainJson
<1> QED
  BY <1>1, <1>2

LEMMA RunOutcomes ==
  ASSUME NEW plan, NEW approved
  PROVE  /\ RunOutcome(plan, approved) \in
              {"error", "failed", "approval_required", "executing"}
         /\ RunOutcome(plan, approved) \in {"failed", "executing"} => plan.ok
         /\ RunOutcome(plan, approved) = "failed" => Blocked(plan)
  BY DEF RunOutcome

DefaultAgents == {"agent-1", "agent-2", "agent-3", "agent-4", "agent-5"}

LEMMA FiveDefaults ==
  ASSUME NEW S, S \subseteq DefaultAgents
  PROVE  IsFiniteSet(S) /\ Cardinality(S) \in Nat /\ Cardinality(S) <= 5
<1> DEFINE T1 == {"agent-1"}
           T2 == T1 \union {"agent-2"}
           T3 == T2 \union {"agent-3"}
           T4 == T3 \union {"agent-4"}
           T5 == T4 \union {"agent-5"}
<1>1. IsFiniteSet(T1) /\ Cardinality(T1) = 1
  BY FS_Singleton
<1>2. IsFiniteSet(T2) /\ Cardinality(T2) = 2
  <2>1. "agent-2" \notin T1
    OBVIOUS
  <2> QED
    BY <1>1, <2>1, FS_AddElement
<1>3. IsFiniteSet(T3) /\ Cardinality(T3) = 3
  <2>1. "agent-3" \notin T2
    OBVIOUS
  <2> HIDE DEF T2
  <2> QED
    BY <1>2, <2>1, FS_AddElement
<1>4. IsFiniteSet(T4) /\ Cardinality(T4) = 4
  <2>1. "agent-4" \notin T3
    OBVIOUS
  <2> HIDE DEF T3
  <2> QED
    BY <1>3, <2>1, FS_AddElement
<1>5. IsFiniteSet(T5) /\ Cardinality(T5) = 5
  <2>1. "agent-5" \notin T4
    OBVIOUS
  <2> HIDE DEF T4
  <2> QED
    BY <1>4, <2>1, FS_AddElement
<1>6. S \subseteq T5
  BY DEF DefaultAgents
<1> HIDE DEF T5
<1>7. IsFiniteSet(S) /\ Cardinality(S) <= Cardinality(T5)
  BY <1>5, <1>6, FS_Subset
<1>8. Cardinality(S) \in Nat
  BY <1>7, FS_CardinalityType
<1> QED
  BY <1>5, <1>7, <1>8

(* Steps that name no agent get one of five, however many they are.        *)
LEMMA DefaultsAreFive ==
  ASSUME NEW raw \in Seq([object : BOOLEAN, agent : STRING]),
         \A i \in DOMAIN raw : raw[i].agent = "none"
  PROVE  UniqueAgents(ReadSteps(raw)) \subseteq DefaultAgents
<1>1. CASE raw = <<>>
  <2>1. ReadSteps(raw) = <<"agent-1">>
    BY <1>1 DEF ReadSteps, DefaultStep
  <2>2. \A i \in DOMAIN <<"agent-1">> : <<"agent-1">>[i] = "agent-1"
    OBVIOUS
  <2> QED
    BY <2>1, <2>2 DEF UniqueAgents, DefaultAgents
<1>2. CASE raw # <<>>
  <2>1. ReadSteps(raw) = [i \in DOMAIN raw |-> DefaultAgent(i)]
    BY <1>2 DEF ReadSteps
  <2>2. ASSUME NEW i \in DOMAIN raw PROVE DefaultAgent(i) \in DefaultAgents
    <3>1. i \in Nat /\ i >= 1
      OBVIOUS
    <3>2. AtMost(i, 5) \in {1, 2, 3, 4, 5}
      BY <3>1 DEF AtMost
    <3> QED
      BY <3>2 DEF DefaultAgent, DefaultAgents
  <2> QED
    BY <2>1, <2>2 DEF UniqueAgents
<1> QED
  BY <1>1, <1>2

-----------------------------------------------------------------------------

(* The state keeps its shape: whatever the repository holds, Claude        *)
(* answers and the human writes, a plan allocates at most five agents, ids *)
(* stay within the clock (timestampId of artifact.ts:31-33) and runners    *)
(* end in one of the outcomes of runFromPlan (orchestrator.ts:57-110).     *)
THEOREM PlanTypes == Spec => []TypeOK
<1>1. PlanInv => TypeOK
  <2> SUFFICES ASSUME PlanInv PROVE TypeOK
    OBVIOUS
  <2>1. clock \in 1 .. MaxClock /\ DOMAIN disk = Ids /\ DOMAIN claude = Planner
    BY DEF PlanInv, PlannerInv, DiskInv
  <2>2. ASSUME NEW i \in Ids PROVE disk[i].kind \in {"absent", "markdown", "json"}
    BY TextsHaveAKind DEF PlanInv, DiskInv
  <2>3. planner \in [Planner -> PlannerRec]
    BY DEF PlanInv, PlannersAreRecords
  <2>4. \A p \in Planner : claude[p].os \in {"none", "running", "failed", "exited"}
    BY DEF PlanInv, PlannerInv, SoundClaude
  <2>5. ASSUME NEW r \in Runner
        PROVE  /\ runner[r].at \in {"idle", "load", "error", "failed",
                                    "approval_required", "executing"}
               /\ runner[r].id \in Ids
    <3>1. /\ runner[r].id \in Ids
          /\ \/ runner[r].at \in {"idle", "load"}
             \/ runner[r].at = RunOutcome(LoadRunPlan(runner[r].doc), runner[r].approved)
      BY DEF PlanInv, RunnerInv
    <3> QED
      BY <3>1, RunOutcomes
  <2> QED
    BY <2>1, <2>2, <2>3, <2>4, <2>5 DEF TypeOK, PlannerRec, ContextRec, ContentRec
<1> QED
  BY <1>1, PlanInvariant, PTL

(* A planner that has reported its artifact finds it on the disk as it     *)
(* wrote it, or as a human left it, unless a plan of the same slug was     *)
(* begun in the same second (artifact.ts:10-33): whatever the others       *)
(* write, and wherever they are killed.                                    *)
THEOREM FilesKept == Spec => []PlansKeepTheirFile
<1>1. PlanInv => PlansKeepTheirFile
  BY DEF PlanInv, FileInv, HasItsFile, Touched, PlansKeepTheirFile
<1> QED
  BY <1>1, PlanInvariant, PTL

(* A plan has the checks that the repository gave and the agents detected, *)
(* unless the claude of this very planner ended well and listed agents in  *)
(* JSON; then the first five of these (adapter.ts:16-25, 80-105).          *)
THEOREM AdviceOnly == Spec => ClaudeOnlyAdvises
<1>1. ASSUME NEW p \in Planner, planner'[p] = planner[p] PROVE AdvisedStep(p)
  BY <1>1 DEF AdvisedStep
<1>2. PlanInv /\ [Next]_vars => [\A p \in Planner : AdvisedStep(p)]_vars
  <2> SUFFICES ASSUME PlanInv, [Next]_vars, NEW p \in Planner PROVE AdvisedStep(p)
    OBVIOUS
  <2>1. PlannerInv
    BY DEF PlanInv
  <2>2. ASSUME NEW q \in Planner, PlannerMoves(q) PROVE AdvisedStep(p)
    <3>1. Moves(q)
      BY <2>1, <2>2, PlannerDisk
    <3> QED
      BY <1>1, <3>1 DEF Moves
  <2>3. ASSUME UNCHANGED planner PROVE AdvisedStep(p)
    BY <1>1, <2>3
  <2>4. ASSUME NEW q \in Planner, ClaudeEnds(q) \/ SaveJson(q) PROVE UNCHANGED planner
    BY <2>4 DEF ClaudeEnds, SaveJson
  <2>5. ASSUME NEW i \in Ids, EditPlan(i) PROVE UNCHANGED planner
    BY <2>5 DEF EditPlan
  <2>6. ASSUME NEW r \in Runner, RequestHumanApproval(r) \/ Load(r)
        PROVE  UNCHANGED planner
    BY <2>6 DEF RequestHumanApproval, Load
  <2>7. CASE Tick \/ UNCHANGED vars
    BY <2>3, <2>7 DEF Tick, vars
  <2> QED
    BY <2>2, <2>3, <2>4, <2>5, <2>6, <2>7 DEF Next, PlannerMoves, Done
<1> QED
  BY <1>2, PlanInvariant, PTL DEF Spec, ClaudeOnlyAdvises

(* A JSON plan that leaves its agents and limits to the loader passes the  *)
(* limits of security.ts:23-29, for any number of steps: the names that    *)
(* plan.ts:29-32, 107 give out are five.                                   *)
THEOREM DefaultsPass == Spec => []DefaultsFitTheGates
<1>1. PlanInv => DefaultsFitTheGates
  <2> SUFFICES ASSUME PlanInv, NEW r \in Runner,
                      runner[r].at = "failed", runner[r].doc.kind = "json",
                      \A i \in DOMAIN runner[r].doc.steps :
                        runner[r].doc.steps[i].agent = "none",
                      ~(runner[r].doc.agents > 0), runner[r].doc.limits = <<0, 0>>,
                      runner[r].doc.required
               PROVE  FALSE
    BY Zenon DEF DefaultsFitTheGates
  <2> DEFINE doc == runner[r].doc
             steps == ReadSteps(doc.steps)
             plan == LoadRunPlan(doc)
  <2>1. /\ doc \in edited \/ ByMachine(doc)
        /\ RunOutcome(plan, runner[r].approved) = "failed"
    BY DEF PlanInv, RunnerInv
  <2>2. plan.ok /\ Blocked(plan)
    BY <2>1, RunOutcomes
  <2>3. doc \in Edit \/ Printed(doc)
    BY <2>1 DEF PlanInv, DiskInv, ByMachine
  <2>4. doc.steps \in Seq([object : BOOLEAN, agent : STRING])
    <3>1. CASE doc \in Edit
      BY <3>1, HandoffAssumption
    <3>2. CASE Printed(doc)
      BY <3>2 DEF Printed, PlanAsJson, PlainJson
    <3> QED
      BY <2>3, <3>1, <3>2
  <2>5. plan = [ok |-> TRUE, approved |-> doc.approved \/ ApprovalStatus(doc) = "approved",
                required |-> doc.required, steps |-> steps,
                max |-> MaxParallelAgents(doc, steps), checks |-> doc.checks]
    BY <2>2 DEF LoadRunPlan, NormalizeJsonPlan, Refused
  <2>6. MaxParallelAgents(doc, steps) = Cardinality(UniqueAgents(steps))
    BY DEF MaxParallelAgents
  <2>7. Cardinality(UniqueAgents(steps)) \in Nat /\ Cardinality(UniqueAgents(steps)) <= 5
    BY <2>4, DefaultsAreFive, FiveDefaults
  <2> HIDE DEF doc, steps, plan
  <2>8. plan.max <= 5 /\ plan.max \in Nat /\ plan.steps = steps /\ plan.required = doc.required
    BY <2>5, <2>6, <2>7
  <2>9. doc.required
    BY DEF doc
  <2> QED
    BY <2>2, <2>7, <2>8, <2>9 DEF Blocked
<1> QED
  BY <1>1, PlanInvariant, PTL

=============================================================================
