----------------------------- MODULE PlanSafety -----------------------------
(***************************************************************************)
(* What holds on the way from a plan to its run: properties of PlanHandoff.*)
(***************************************************************************)
EXTENDS PlanHandoff

TypeOK ==
  /\ clock \in 1 .. MaxClock
  /\ DOMAIN disk = Ids /\ DOMAIN claude = Planner
  /\ \A i \in Ids : disk[i].kind \in {"absent", "markdown", "json"}
  /\ planner \in [Planner -> [at : {"idle"} \union Busy \union Over,
                              task : Task, dry : BOOLEAN, stamp : 0 .. MaxClock,
                              context : [ok : BOOLEAN, agents : 0 .. 5, checks : Nat],
                              content : [agents : 0 .. 5, checks : Nat]]]
  /\ \A p \in Planner : claude[p].os \in {"none", "running", "failed", "exited"}
  /\ \A r \in Runner :
       /\ runner[r].at \in {"idle", "load", "error", "failed", "approval_required",
                            "executing"}
       /\ runner[r].id \in Ids

-----------------------------------------------------------------------------

(* A planner that says its artifact is written is right: the file holds    *)
(* that plan until a human changes it, unless another plan of the same     *)
(* slug was begun in the same second (artifact.ts:15-17, 31-33; no lock,   *)
(* and the write comes up to the 20 s of Claude after the id is made).     *)
Twin(p, q) ==
  /\ q # p /\ planner[q].stamp = planner[p].stamp /\ ~planner[q].dry
  /\ Slug[planner[q].task] = Slug[planner[p].task]

PlansKeepTheirFile ==
  \A p \in Planner :
    planner[p].at = "done" /\ ~planner[p].dry =>
      \/ disk[IdOf(p)] = RenderPlanMarkdown(planner[p].content)
      \/ disk[IdOf(p)] \in edited
      \/ \E q \in Planner : Twin(p, q)

(* Claude only advises. A plan that is handed out differs from what the    *)
(* repository gave in one thing, the agents, and only if the claude that   *)
(* this planner started ended well, with a JSON object that lists agents;  *)
(* of these it takes five at most. What a claude prints that could not be  *)
(* started, failed, printed too much or was ended by a signal counts for   *)
(* nothing, and a plan does not change once it is made (adapter.ts:16-25,  *)
(* 80-105; context.ts:125).                                                *)
Usable(c) == c.os = "exited" /\ c.fine /\ c.says.form = "json" /\ c.says.lists

HandedOut == {"open", "write", "done"}

AdvisedStep(p) ==
  planner'[p].at \in HandedOut =>
    planner'[p].content =
      IF planner[p].at \in HandedOut THEN planner[p].content
      ELSE [agents |-> IF Usable(claude[p]) THEN AtMost(claude[p].says.agents, 5)
                                            ELSE planner'[p].context.agents,
            checks |-> planner'[p].context.checks]

ClaudeOnlyAdvises == [][\A p \in Planner : AdvisedStep(p)]_vars

(* However many steps a JSON plan has, one that leaves agents and limits   *)
(* to the loader is never stopped for asking for too many of them: the     *)
(* defaults of plan.ts:29-32, 107 fit the limits of security.ts:23-29.     *)
DefaultsFitTheGates ==
  \A r \in Runner :
    LET doc == runner[r].doc
    IN runner[r].at = "failed" /\ doc.kind = "json" =>
         \/ \E i \in DOMAIN doc.steps : doc.steps[i].agent # "none"
         \/ doc.agents > 0 \/ doc.limits # <<0, 0>> \/ ~doc.required

-----------------------------------------------------------------------------

(* A planner ends if the claude it asks does: it writes its plan, prints   *)
(* it or reports an error, whatever claude answers and also if it could    *)
(* not be started (adapter.ts:17-25).                                      *)
PlansEnd ==
  \A p \in Planner :
    []<>(claude[p].os # "running") =>
      (planner[p].at = "context" ~> planner[p].at \in Over)

-----------------------------------------------------------------------------

(* README.md:10-11 and docs/USAGE.md:82-84: review the plan that apolo     *)
(* plan has written, and run it with apolo run --from-plan.  The loader    *)
(* takes a complete artifact, as it was written and approved.              *)
PlanIsRunnable ==
  \A r \in Runner, p \in Planner :
    /\ runner[r].at = "error" /\ runner[r].approved
    /\ planner[p].at = "done" /\ ~planner[p].dry /\ runner[r].id = IdOf(p)
    => runner[r].doc # RenderPlanMarkdown(planner[p].content)

(* README.md:106: apolo run executes an approved plan.  Every step that    *)
(* the plan lists under "## Steps" is part of the run.                     *)
EveryStepRuns ==
  \A r \in Runner :
    runner[r].at = "executing" /\ runner[r].doc.kind = "markdown" =>
      Len(LoadRunPlan(runner[r].doc).steps) >= runner[r].doc.items

=============================================================================
