------------------------------- MODULE MCCalls -------------------------------
(* Instances of the commands that wait for other programs, for TLC. *)
EXTENDS CallSafety

Asking(files, names) == [broken |-> FALSE, files |-> files, names |-> names]

(* A repository of each stack, a mixed one, one without any, one whose
   package.json asks for nothing, and one whose package.json does not parse. *)
SomeRepos ==
  {Asking({}, {}),
   Asking({"package.json"}, {}),
   Asking({"package.json", "Makefile"}, {"npm-build", "npm-test", "make-lint"}),
   Asking({"pyproject.toml", "tests"}, {"python-ruff", "python-pytest"}),
   Asking({"requirements.txt", "tests"}, {"python-mypy"}),
   [broken |-> TRUE, files |-> {"package.json"}, names |-> {}]}

Asked(task, prompt, pr, requested, max) ==
  [task |-> task, prompt |-> prompt, requirePr |-> pr, requested |-> requested,
   maxAgents |-> max]

SomeRequests ==
  {Asked(task, {}, FALSE, <<>>, MaxAgentsPerTask) : task \in AllTasks} \union
  {Asked("security", {}, FALSE, <<>>, 2),
   Asked("bug", {}, FALSE, <<>>, MaxAgentsPerTask + 1),
   Asked("unstated", {"bug", "security"}, TRUE, <<>>, MaxAgentsPerTask),
   Asked("unstated", {}, FALSE, <<"ollama-qwen", "claude-code">>, 1)}

=============================================================================
