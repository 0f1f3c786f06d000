---------------------------- MODULE AgentRouting ----------------------------
(***************************************************************************)
(* The catalog of agent CLIs (src/agents/catalog.ts) and the decision that *)
(* picks some of the installed ones for a task (src/agents/routing.ts), as *)
(* operators: the decision keeps no state.                                 *)
(*                                                                         *)
(* A prompt is the set of the keyword groups it contains a word of.  Names *)
(* shown to the user and the rendered commands are left out.               *)
(***************************************************************************)
EXTENDS Naturals, Sequences

MaxAgentsPerTask == 5

(* The catalog, in its order: the order in which CLIs are looked for.      *)
Catalog == <<"claude-code", "codex-cli", "github-copilot-cli", "opencode",
             "gemini-cli", "cursor-cli", "ollama-qwen">>

AgentId == {Catalog[i] : i \in DOMAIN Catalog}

AllTasks == {"simple", "bug", "feature", "security", "performance"}
CodeTasks == AllTasks \ {"security"}

Tasks(id) ==
  CASE id \in {"claude-code", "codex-cli", "opencode"} -> AllTasks
    [] id \in {"github-copilot-cli", "cursor-cli"}     -> CodeTasks
    [] id = "gemini-cli"                               -> AllTasks \ {"bug"}
    [] id = "ollama-qwen" -> {"simple", "bug", "performance"}

PrCapable == {"claude-code", "codex-cli"}

(* The CLIs of which a subcommand must answer before they count.           *)
Probed == {"github-copilot-cli"}

-----------------------------------------------------------------------------

(* The members of S in sequence s, in its order.                           *)
Filter(s, S) ==
  LET kept[i \in 0 .. Len(s)] ==
        IF i = 0 THEN <<>>
        ELSE IF s[i] \in S THEN Append(kept[i - 1], s[i]) ELSE kept[i - 1]
  IN kept[Len(s)]

(* The first group, in this order, of which the prompt has a keyword.      *)
KeywordMap == <<"security", "performance", "bug", "feature">>

ClassifyTask(prompt) ==
  LET named == Filter(KeywordMap, prompt)
  IN IF named = <<>> THEN "simple" ELSE Head(named)

(* Mutations: a list that knows fewer agents than the catalog, and one     *)
(* that counts on the limit never cutting the last one off.                *)
PriorityOfThree(task) == <<"claude-code", "codex-cli", "gemini-cli">>
PriorityLocalFirst(task) ==
  <<"ollama-qwen", "codex-cli", "github-copilot-cli", "cursor-cli", "opencode",
    "gemini-cli", "claude-code">>

PriorityForTask(task) ==
  CASE task = "simple" ->
         <<"claude-code", "ollama-qwen", "codex-cli", "github-copilot-cli",
           "cursor-cli", "opencode", "gemini-cli">>
    [] task = "bug" ->
         <<"claude-code", "codex-cli", "cursor-cli", "ollama-qwen",
           "github-copilot-cli", "opencode">>
    [] task = "feature" ->
         <<"claude-code", "codex-cli", "cursor-cli", "gemini-cli", "opencode",
           "github-copilot-cli">>
    [] task = "security" ->
         <<"claude-code", "codex-cli", "gemini-cli", "opencode">>
    [] task = "performance" ->
         <<"claude-code", "codex-cli", "gemini-cli", "opencode", "cursor-cli",
           "ollama-qwen", "github-copilot-cli">>

Candidates(request, task) ==
  IF request.requested # <<>> THEN request.requested ELSE PriorityForTask(task)

Suits(id, task, request) ==
  /\ task \in Tasks(id)
  /\ request.requirePr => id \in PrCapable

(* The installed agents that can do the task.                              *)
Fit(request, task, installed) == {id \in installed : Suits(id, task, request)}

(* Mutation: the limit applied to the candidates before they are filtered. *)
SelectedTooEarly(request, task, installed) ==
  LET candidates == Candidates(request, task)
      few == IF Len(candidates) > request.maxAgents
             THEN SubSeq(candidates, 1, request.maxAgents) ELSE candidates
  IN Filter(few, Fit(request, task, installed))

Selected(request, task, installed) ==
  LET fit == Filter(Candidates(request, task), Fit(request, task, installed))
  IN IF Len(fit) > request.maxAgents THEN SubSeq(fit, 1, request.maxAgents) ELSE fit

(* The choice of a coordinator among the selected agents.                  *)
Coordinator(selected) ==
  IF \E i \in DOMAIN selected : selected[i] = "claude-code"
  THEN "claude-code" ELSE Head(selected)

(* A RoutingError leaves no decision.                                      *)
NoRoute == [made |-> FALSE]

RouteAgents(request, installed) ==
  LET task == IF request.task \in AllTasks THEN request.task
              ELSE ClassifyTask(request.prompt)
      selected == Selected(request, task, installed)
  IN IF \/ request.maxAgents \notin 1 .. MaxAgentsPerTask
        \/ installed = {}
        \/ selected = <<>>
     THEN NoRoute
     ELSE [made |-> TRUE, task |-> task, selected |-> selected,
           coordinator |-> Coordinator(selected)]

=============================================================================
