------------------------------- MODULE MCPlan -------------------------------
(* Instances of the way from a plan to its run, for TLC. *)
EXTENDS PlanSafety

(* Slugs agree, of the same task and of tasks that only differ later on.   *)
SomeSlug == [t \in Task |-> "add-cache"]

Having(config, package, scripts, targets, onPath, readable) ==
  [config |-> config, package |-> package, scripts |-> scripts, targets |-> targets,
   onPath |-> onPath, readable |-> readable]

SomeRepos ==
  {Having("object", "object", 4, 0, 7, TRUE), Having("none", "other", 2, 1, 0, TRUE),
   Having("none", "broken", 0, 0, 1, TRUE), Having("other", "none", 0, 0, 1, TRUE),
   Having("none", "none", 0, 0, 1, FALSE)}

Says(form, lists, agents) == [form |-> form, lists |-> lists, agents |-> agents]

SomeAnswers ==
  {Says("prose", FALSE, 0), Says("broken", TRUE, 2), Says("json", FALSE, 0),
   Says("json", TRUE, 7)}

Front(status) == [NoFront EXCEPT !.there = TRUE, !.sound = TRUE, !.id = TRUE,
                                 !.status = status]
Steps(n, agent) == [i \in 1 .. n |-> [object |-> TRUE, agent |-> agent]]
Named(n) == [i \in 1 .. n |-> [object |-> TRUE, agent |-> OwnAgent(i)]]

(* Texts a human may put into a plan file: front matter with and without
   an id and approval, steps below and apart from their heading, and JSON. *)
SomeEdits ==
  {Markdown(Front("approved"), 0, FALSE, NoContent),
   Markdown(Front("none"), 3, FALSE, NoContent),
   Markdown(Front("approved"), 2, TRUE, NoContent),
   Markdown([Front("approved") EXCEPT !.approvalStatus = "pending"], 1, FALSE, NoContent),
   Markdown([Front("approved") EXCEPT !.id = FALSE], 1, FALSE, NoContent),
   [PlainJson EXCEPT !.approved = TRUE, !.steps = Steps(7, "none")],
   [PlainJson EXCEPT !.approved = TRUE, !.steps = Named(7)],
   [PlainJson EXCEPT !.status = "approved", !.limits = <<0, 6>>],
   [PlainJson EXCEPT !.status = "approved", !.agents = 6],
   [PlainJson EXCEPT !.approved = TRUE, !.required = FALSE],
   [PlainJson EXCEPT !.approved = TRUE, !.provider = "other", !.checks = 1]}

=============================================================================
