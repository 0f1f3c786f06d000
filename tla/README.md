# A verification of QaracterHarness (APOLO) in TLA+

APOLO is a command line harness around coding agents: `apolo init` puts a
`.apolo/` directory into a repository, `apolo plan` writes a plan, `apolo run`
executes an approved plan and leaves a ledger, a checkpoint, memory and PR
metadata, `apolo memory` keeps notes. The repository holds two implementations:
the npm runtime in TypeScript, which is what users run, and a Python one with
the same roles. All paths below are relative to the repository; `run/` means
`src/run/`.

There is no server and no lock anywhere. What makes the system hard is that
several short processes, started by hand or by CI, share files: every `await`
is a point where another process may act, the user may edit a file, or a signal
may end the process.

## 1. Inventory

| Component | State | Operations | Talks to | Hard behaviour | Correct when |
|---|---|---|---|---|---|
| Run orchestration (`run/*.ts`, `runTask` in `cli/router.ts`) | `ledger.jsonl`, `checkpoint.json`, `runs.jsonl`, `pr.json`; in memory the sequence counter, plan and results | run from a plan, resume, append an event, save and read the checkpoint, run steps and checks | plan file, child processes, memory file | concurrent resumes, kill between ledger and checkpoint, torn lines, plans edited between resumes, children that never close | nothing runs unauthorized; ledger and checkpoint agree; a finished run is not executed again; a process ends unless a child holds it up |
| JSONL memory (`memory/store.ts`, `cli.ts`) | one memory file per namespace, a temporary file beside it | add, list, search, show, export | the file system | read-modify-write without a lock, one temporary name for all, kills | an acknowledged record is never lost; readers see whole records, newest first |
| Init (`init/workspace.ts`) | the `.apolo/` tree | scan, classify, apply | repository files | stale classification, partial application, two inits, kills between truncation and write | user text survives; a conflict writes nothing; success means complete |
| Plan generation (`planning/*.ts`) | plan artifacts in `.apolo/plans` | gather the context, ask Claude or fall back, write the artifact | Claude, run | Claude fails, hangs or prints rubbish; equal ids; late writes; the format handed to run | Claude only advises; a plan keeps its file; defaults pass the gates |
| Agent detection and routing (`agents/*.ts`) | none | probe, ask for a version, classify a task, route it | child processes | timer against close, tables kept in two files | detection has its answer whatever the CLIs do; routing leaves out no agent it could use |
| Process runner (`core/process.ts`) as `apolo doctor` uses it | up to ten children | spawn, time out, abort | the operating system | timer, abort, error and close race; children that ignore SIGTERM; one of five inspections throws | every call settles once and leaves nothing armed |
| Verification commands (`verification/commands.ts`) | one child | detect, run one after the other, report | the operating system | a check that catches SIGTERM and exits with 0 | what ran out of time never passes; nothing drops out of the report |
| Gates, policy, redaction (`security/*`, `policy/*`) | none | decide, redact | run, memory | precedence of decisions | blocked never allows |
| Python memory (`memory/store.py`) | SQLite rows, Markdown notes | write, get, query, compact | SQLite | note and row in two steps, compaction in three | what is hidden is told in a summary, at least its head; no row without its note |
| Python run (`run/*.py`) | `ledger.jsonl`, rewritten at each event | run | git, executor, memory | a crash while it rewrites, failures in the failure handler | the ledger tells what happened |
| Python init (`init/*.py`), contracts, config, layout, templates, CLI parsing | files or none | | | | |

Calls between the components: `runTask` calls `runFromPlan`, which reads the
plan that `planning` wrote, appends to the run's ledger, spawns the commands of
the plan's steps and checks, appends to the run memory and writes PR metadata.
`runMemoryCommand` works on the memory file, `runInit` on the `.apolo/` tree.

`PROJECT.json` lists every component with its status, and every hazard with its
line and the properties that would catch it.

## 2. Modules

| Module | Stands for |
|---|---|
| `RunLedger` | `run/ledger.ts`: the two files of a run directory and the `RunLedger` object of each process |
| `RunOrchestrator` | `runFromPlan` and what it calls, for one run id and any number of processes; extends `RunLedger` |
| `RunStatus` | abstract: a run that pauses and ends at most once |
| `RunSafety` | the properties of the run, the refinement mapping, the fair specifications |
| `RunProofs` | proofs about the run: types, checkpoint, sequence |
| `RunGuarantees` | proofs of what holds whatever overlaps: authorization, earned ends, exit codes; extends `RunProofs` |
| `RunResumes` | proofs of what holds when resumes do not overlap, and of the refinement of `RunStatus`; extends `RunGuarantees` |
| `JsonlMemory`, `MemorySafety` | `memory/store.ts` as the memory commands use it, and its properties |
| `MemoryLog` | abstract: a log whose acknowledged entries stay |
| `MemoryProofs` | theorems and proofs about the JSONL memory |
| `InitWorkspace`, `InitSafety` | `init/workspace.ts` and its properties |
| `InitProofs` | theorems and proofs about init |
| `AgentRouting` | `agents/catalog.ts` and `agents/routing.ts` as operators |
| `ChildCalls`, `CallSafety` | the commands that wait for other programs (`agents`, verification, `doctor`), with their spawn helpers, and their properties; extends `AgentRouting` |
| `CallProofs` | theorems and proofs about the child processes, the reports and the routing |
| `PlanFile` | a plan file as operators: context, planner answer, artifact, loader, gates |
| `PlanHandoff`, `PlanSafety` | from `apolo plan` to the gates of `apolo run`, and its properties; extends `PlanFile` |
| `PlanProofs` | theorems and proofs about plans and their hand-off |
| `SqliteMemory`, `SqliteSafety` | `memory/store.py` and its properties |
| `SqliteProofs` | theorems and proofs about the Python store |
| `MCRun`, `MCMemory`, `MCInit`, `MCCalls`, `MCPlan`, `MCSqlite` | instances for TLC |

A definition whose comment begins with "Mutation" is a plausible mistake in the
definition below it. No specification uses it; each property of a passing run
has one that violates it, listed in `PROJECT.json`.

### The run

`pc[p]` is the place where process `p` waits. While it is the name of a ledger
event, `p` is about to append that event, so an action such as
`RecordPlanLoaded` is the one `await ledger.record("plan.loaded", ...)` of the
code, with the counter, the line and the state it carries. The variables are the
files (`ledger`, `tail`, `checkpoint`, `planFile`) and, per process, the locals
of `runFromPlan` (`opt`, `seen`, `plan`, `todo`, `results`, `left`,
`checkFailed`), plus two histories (`spawned`, `outputs`). The first process
creates the run, the others are `--resume <run-id>`.

- `ledger` holds the complete lines; `tail` says what a reader finds on the last
  line of the file: whole, whole without newline, a fragment, or two writes run
  together. A torn append (`AppendFails`) is the failure of one `appendFile`
  after part of the line.
- The checkpoint is a truncation (`OpenCheckpoint`) followed by a write
  (`SaveCheckpoint`), as `writeFile` does it; when another process has written in
  between, the result may be the rest of one record behind another.
- A plan is reduced to whether it loads, says approved, trips a blocking gate,
  to its steps, and to the number of its verification commands. A step has a
  command, an empty one, or none. What the gates find is part of the plan; which
  gates follow from the approval is computed as in `evaluateRunSecurity`.
- `EditPlan` changes the plan file at any time; every load reads the current one.
- A process waits for a child at `agent_child`, `check_child`, `git_branch` and
  `git_diff` (`ChildWaits`): nothing but the close of that child ends the wait.
  `preparePrMetadata` asks git twice (`CloseGitBranch`, `CloseGitDiff`) and then
  writes `pr.json`, which no code reads, in one step.
- The order of the steps is left open: it is the order of the routed agents, and
  no property depends on it.

`RunStatus` says what somebody who only resumes sees: `new`,
`approval_required`, one of the final states, or `lost` after a kill in the
middle of a save. `StatusOfRun` maps the files to it; while a process is between
truncation and write the run still has the status that process found.

### The memory

One process stores one record, so records are named after their adders, and so
are the file objects: `file` and `temp` name the object at either path,
`content` gives its content, `handle` the object an adder has open. `OpenTemp`,
`WriteTemp` and `Rename` are the open, the write and the rename of
`writeRecords`. A write at offset 0 over a longer content leaves its end behind,
cut inside a line (`Garbled`) or between two. `overlapped` is history: whether
two adds were ever under way at once.

### Init

`node[i]` is what is on disk at the path of artifact `i`. A text is empty, the
user's own, generated for one of the stacks, or a mixture. `Classify` is one
turn of `classifyArtifacts` (its stat and its read are one step), `Decide` the
choice between writing, conflict and dry run, `Skip`, `MakeDirectory`,
`Truncate` and `WriteText` the turns of `applyPlan`. Every initial tree in which
what exists lies in directories is an initial state. `Kill`, `UserWrites` and
`StackChanges` are the environment.

### Child processes

`ChildCalls` is one execution of one of three commands. Each has a spawn helper
of its own, and they differ in what settles the promise: detection settles on
its timer, `CommandRunner` and `runProcess` wait for close, `runProcess` rejects
on error and listens to an abort signal. `child` has an entry for every child
whose close event is to come, with its timer and listener; `lane` is a chain of
awaits, five of them for `doctor` under `Promise.all`. `Timer`, `Fail` and
`Close` are the handlers; `Exit` is the child's own doing, with any exit code
and whether or not it was told to stop. Time is left out: an armed timer may
fire before or after anything else, which includes every real timing.
Detection leaves the child of a settled call behind; that its late close answers
no later call is part of the model (`Pending`, `Answer`), not an assumption.
A command has its answer (`outcome`) before its process ends: `index.ts` sets
the exit code and leaves the process to the event loop, so that it goes on until
no timer and no child is left (`Quiet`).
`RouteAgents` is evaluated on what detection has found, for requests as
`runAgents` makes them and as the exported `routeAgents` takes them (limits and
agents by name).

### Plans

`PlanFile` follows a plan through its forms: `BuildContextPack`,
`ParseClaudePlan`, `RenderPlanMarkdown`, `LoadRunPlan`, `Blocked`. Of a text it
keeps what decides whether and how it runs. In `PlanHandoff` a planner reads the
context and fixes its id in one step (`Begin`), waits for Claude (`ClaudeEnds`
is Claude's, `Planned` the planner's part), truncates (`Open`) and writes
(`Write`); it may be killed or fail at each. A human edits plan files of planners
that have ended, and may save the printed JSON of any planner, which carries that
planner's content. A runner asks for approval before it loads
(`RequestHumanApproval`, `Load`), and what it comes to at the gates is its
outcome; what follows is `RunOrchestrator`'s part.

### The Python store

Each caller of `SqliteMemory` makes one call. A transaction is one step; the
places between them are those of `write` (note, migration, row) and `compact`
(query, the write of the summary, marks). A summary keeps of each source an
excerpt of the body it had when the query was made: its first 400 characters
(`ExcerptOf`, `store.py:169`), which is the whole of a body that is not `long`.
Notes are files named after the title and the first eight characters of the id;
`NoteOf` says which records have a name in common. `clashed` is history: the
records that were rewritten while another call had read them, or after they had
been hidden.

## 3. Runs

| Run | Instance | Shows |
|---|---|---|
| `run_serial` (MCRunSerial) | 2 processes in turn; 5 plans (unreadable, draft, approved, blocked, with an empty command); all executors; 1 edit; kills; torn appends; fairness | `SideEffectsAuthorized`, `FinishedIsEarned`, `SequenceIsPosition`, `QuiescentAgreement`, `ReexecutionOnlyAfterFailure`, `ImplementsRunStatus`, `EndsUnlessAChildHangs` |
| `run_concurrent` (MCRunConcurrent) | 3 processes at once, kills | `CheckpointBacked`, `ExitCodeTellsTheRun`, and authorization and `FinishedIsEarned` again |
| `memory` (MCMemory) | 3 adds, 1 listing, kills, limit 2 | `KeptUnlessOverlapped`, `ListingsComplete`, `AddsAtomically` |
| `init` (MCInit) | 2 inits at once, 4 artifacts, 2 stacks, 1 edit, kills, all options | `SeenTextIsSafe`, `ConflictWritesNothing`, `DoneIsComplete` |
| `child_calls` (MCCalls) | each of the three commands; 2 tools, 7 agents, 6 repositories, 8 requests; abort; children that never end | `NoCallUnattended`, `ChecksOneAtATime`, `DoneLeavesNothing`, `EveryCheckReported`, `RoutingLeavesOutNone`, `ClaudeCoordinates`, `OkOnlyInTime`, `AgentsAnswer`, `EndsWithItsChildren` |
| `plan` (MCPlan) | 2 planners, 1 runner, 5 repositories, 4 answers of Claude, 11 texts a human may write, 2 seconds, 1 text put on the disk; kills | `PlansKeepTheirFile`, `ClaudeOnlyAdvises`, `DefaultsFitTheGates`, `PlansEnd` |
| `sqlite` (MCSqlite) | 4 calls at once, every mixture, each may stop anywhere; bodies long and short; two of the records share the name of their note | `HiddenIsTold`, `NotesMatchRows` |

Five plans, because each takes a different way through the orchestrator. Two
processes suffice for what a pair does to each other (pause and resume, edit in
between, an execution after another); `run_concurrent` has a third, because a
third writer can meet the remains of two. A resume of a resume is left to the
theorems, which hold for any number of processes.
`MaxScripts` is 1 instead of the 4 npm scripts: the plan with two verification
commands takes the loop around. Memory needs three adds for a listing beyond the
limit of 2, and for a newest record among older ones. Init has one nested
directory, one file without marker in it and one with marker: every kind of
entry `buildArtifacts` returns; the other entries are further instances of them.
Symmetry permutes processes, which nothing tells apart. `run_concurrent` views
the ledger as a set with its last line: the lines of one process are ordered by
their numbers, and no step or property there reads more.

`child_calls` has two tools where `doctor` has five: what lanes do to each other
needs two, one that throws while another runs. `MaxLeft` bounds the children of
answered calls that still run; with two, the child of one call outlives the next
call of the same agent and of another. It is a bound: the code leaves behind as
many children as calls run out of time. The repositories are one of each stack, a
mixture, one with nothing and one that does not parse; the requests one for each
task and one for each option. In `plan` the two planners are what can meet in one
file; the two seconds let their ids agree or differ. The repository stays as it
is. The answers of Claude are one for each way through `parseClaudePlan`, the
edits one for each way through the loader; `MaxEdits` bounds how many texts,
edits and saved prints, the human puts on the disk. `sqlite` needs four calls for a
record, a compaction of it, a compaction of the summary, and a rewrite.

### What the documents say and the code does not do

Each of these runs must end in a counterexample.

| Run | The document | The code |
|---|---|---|
| `run_monotonic` | `docs/product-contracts.md:105`: "`sequence` is monotonic within a run." | overlapping resumes count on from the same number (`run/ledger.ts:43`) |
| `run_hangs` | `docs/SYSTEM.md:332`: "verification timeout: record failed result"; `docs/run.md:66`: "per-command timeouts" | the run's own check runner has no timer and waits for close alone (`run/verification.ts:55-91`); that of `verification/commands.ts` is not used by the run |
| `init_rerun` | `docs/init.md:54`: a conflict is a file not managed by APOLO | a file truncated by a killed or concurrent init is a conflict (`init/workspace.ts:246`) |
| `plan_handoff` | `README.md:10-11`, `docs/USAGE.md:82-84`: `apolo plan`, then `apolo run --from-plan .apolo/plans/<plan-id>.md` | the artifact has no front matter, and the loader refuses it (`planning/artifact.ts:46`, `run/plan.ts:221-225`) |
| `plan_steps` | `README.md:106`: "Execute an approved plan" | of the items under `## Steps` only one on the very next line is read: `$` with the flag `m` ends the section at the first line end (`run/plan.ts:242`) |

Other observations are not runs. A plan file that says approved is executed
without an approval given to the command (`run/orchestrator.ts:142`, against
`docs/USAGE.md:208`). A run whose plan does not load leaves a ledger and no
checkpoint (`run/orchestrator.ts:59`, against `docs/run.md:36`).

### What the properties do not cover

Some hazards are in the models, and the properties excuse them, because the code
does nothing against them and no document says that it does:

- Approval is asked for before the plan is loaded (`cli/router.ts:227`) and names
  a path, not a text. An edit, or a late write of another planner, may come in
  between. That a human has read what runs is a matter of custom, and no property
  says it.
- A process killed between `run.finished` and its checkpoint
  (`run/orchestrator.ts:123`) leaves a paused checkpoint, and the next resume
  executes again: `QuiescentAgreement` and `ReexecutionOnlyAfterFailure` say that
  only a kill or a failure leads there.
- Adds to the JSONL memory that overlap lose acknowledged records and share one
  temporary file (`memory/store.ts:84`, `:123`): `KeptUnlessOverlapped`,
  `ListingsComplete` and `AddsAtomically` hold until then.
- What a user or another init writes to a path after an init has classified it
  (`init/workspace.ts:279`) may be overwritten: `SeenTextIsSafe` and
  `DoneIsComplete` leave it out.
- Planners of the same second and slug write one file: `PlansKeepTheirFile` says
  that nobody else does.
- Of a record longer than 400 characters a summary has the first 400
  (`memory/store.py:169`). The rest stays in the hidden row, which lists and
  searches leave out by default; `HiddenIsTold` asks for the head alone.
- Two records with one note name overwrite each other's note (`memory/store.py:255`):
  `NotesMatchRows` is about records that have the name for themselves.

### Fairness

`FairSpec` assumes weak fairness of each process's own steps (`Advance`), which
Node's event loop gives to a process that is not killed, and nothing of the
children it waits for: no timer of the run ends such a wait
(`run/executor.ts:85`, `run/verification.ts:55`, `run/git.ts:57-71`).
`EndsUnlessAChildHangs` has in its antecedent that the process is again and again
not waiting for a child, and `run_hangs` shows a run that a
check holds up for ever.

`ChildCalls` assumes only that the event loop runs a handler that is due.
`AgentsAnswer` holds whatever the children do: detection has a timer that settles
its calls. That is the answer and not the end: `agents/detection.ts:173-176`
neither kills nor unreferences a child that ignores SIGTERM, and the process
stays for as long as it lives. `EndsWithItsChildren` says of all three commands
what their processes need of the children, in its antecedent. `PlanHandoff` assumes
that a planner that was started goes on, and nothing of Claude: that it ends is
the antecedent of `PlansEnd`. The memory and init models have no liveness
property; their steps are loops over finite lists.

## 4. Theorems

`RunProofs`, `RunGuarantees` and `RunResumes` prove, for any set of processes, plans and
steps, with kills and torn appends and without a bound on edits:

- `TypeCorrect`: `Spec => []TypeOK`.
- `LedgerBeforeCheckpoint`: `Spec => []CheckpointBacked`. The property is not
  inductive: that a checkpoint is backed when it is written needs that the end
  was logged before. `CheckpointInv` adds that every process at its checkpoint
  has logged its end with the state and the sequence it will save. It survives
  because lines are only appended, and because the process's locals and counter
  rest from that event on.
- `NoUnauthorizedCommand`: `Spec => []SideEffectsAuthorized`. `AuthorizedInv`
  says along `pc` how a process comes to its commands: before it has loaded a
  plan it has spawned nothing; from the security check on it holds the plan that
  was checked; it has logged the check before it logs the start. Every step of a
  process prepares, proceeds towards a command, goes on among commands, or
  leaves; steps of others touch none of its entries and only append.
- `FinishedRunsAreEarned`: `Spec => []FinishedIsEarned`. One summary of all
  actions, `EveryStep`, says where a process may go from its place and what it
  has got there. `EarnedInv` adds to the property what a process has earned on
  its way (`Earning`: every step settled once execution is over, then the
  verifications, then the outputs) and what each line of the ledger vouches for
  its author (`Vouches`): the lines outlive the place, so the author must be
  known to stay where what it earned no longer changes.
- `ExitCodesAreTrue`: `Spec => []ExitCodeTellsTheRun`. A resume with nothing to
  do knows only the checkpoint. `BackedInv` says that a state it has seen was
  logged by somebody who finished with it, which needs `CheckpointBacked` of the
  moment it read, and `EarnedInv` for nobody pausing with a state that is an end.
- With resumes that do not overlap (`~Concurrent`), `SerialSequence`:
  `Spec => []SequenceIsPosition`. `SerialInv` adds that at most one process is
  live and that its counter, once read, is the number of complete lines.
- `FinishedRunsStayFinished`, `FilesAgreeAtRest` (`~Concurrent`):
  `Spec => []ReexecutionOnlyAfterFailure`, `[]QuiescentAgreement`. `ResumeInv` is
  about the files and the one live process: it finds the checkpoint as it was
  when it came, it works only on a run that was open, and what it logged last is
  what it will save. Without the second a resume might execute a finished run;
  with it, an execution whose author exited has left a final state
  (`ExecutionSettles`), which nobody works on again.
- `RunStatusImplemented` (`~Concurrent`): `Spec => ImplementsRunStatus`. Every
  step is a step of `RunStatus` or a stutter: the start of an execution is
  `Begin`, the save of a checkpoint `Pause` or `Finish`, a kill between the
  truncation and the write `Lose`. That `Cardinality` of the started lines grows
  by one with an execution and by nothing else is a lemma on its own.
- `SettledRunsRest` (`~Concurrent`): `Spec => RestsOnceSettled`, what follows from the
  refinement for somebody who resumes: a run that has ended, or was lost in the
  middle of a save, keeps its status, and no execution begins in it.

`InitProofs` proves, for any list of artifacts that names directories before what
lies in them, any set of inits and any versions of the text, with kills and any
number of edits:

- `TypeCorrect`, and `SeenTextStays`, `ConflictIsHarmless`, `SuccessIsComplete`:
  `Spec => []SeenTextIsSafe`, `[]ConflictWritesNothing`, `[]DoneIsComplete`. None
  of the three is inductive. `ProcInv` follows one process along `pc`: what it
  has classified so far, that it applies only a plan without conflicts, that it
  has written nothing before. `PathInv` follows one path: until somebody else
  touches it, it is what the process classified it as, or, once the process is
  past it, what it wants. A path changes only for those it was touched for, but
  for directories that `mkdir` makes where a directory belongs (`RestingPath`).

`MemoryProofs` proves, for any adds and listings, any limit, and kills:

- `TypeCorrect`, `AcknowledgedStays`, `ListingsAreWhole`: `Spec => []TypeOK`,
  `[]KeptUnlessOverlapped`, `[]ListingsComplete`. While no two adds have overlapped,
  three invariants hold. `DiskInv`: one add is live at most, it holds the
  temporary file, that is not the memory file, and it knows what is stored.
  `RecordsInv`: a record is stored once, none of an add that has yet to rename,
  and the add that has yet to acknowledge is the first; without the last the order
  could not survive an acknowledgement. `ListInv`: what a listing had found keeps
  its order among records acknowledged later, and what was acknowledged before it
  is the beginning of what is acknowledged now.
- `LogImplemented`: `Spec => AddsAtomically`, the steps of the refinement of
  `MemoryLog`: a rename is `Add`, the answer to the user `Acknowledge`.

`CallProofs` proves, for any tools, repositories and routing requests:

- `CallsAttended`: `Spec => []NoCallUnattended`. `LaneInv` says that a lane waits
  only at a step that spawns, and that the agents are gone through in the order
  of the catalog; `ChildInv` that only the tools' calls listen to the abort
  signal, and that the child of a pending detection has not been told to stop,
  since there the timer itself answers.
- `AnswersInTime`: `Spec => OkOnlyInTime`, a property of steps: of all the
  handlers only `Close` can answer "ok", and only with what the exit code and the
  stop say of its child.
- `CallTypes`, `ChecksInTurn`, `DoneIsDone`, `ChecksReported`: `Spec` implies
  `[]TypeOK`, `[]ChecksOneAtATime`, `[]DoneLeavesNothing`, `[]EveryCheckReported`.
  `WorkInv` follows the work of the command that runs: the children are all of
  its own kind, `main` is within its list, a verification has reported exactly
  the checks before its place, `doctor` is done only when every lane is. That two
  checks never run at once follows from `ChildInv`: a running check is pending,
  and a lane waits for one call.
- `RoutingIsComplete`, `ClaudeFirst`: `Spec => []RoutingLeavesOutNone`,
  `[]ClaudeCoordinates`. The invariant says that the decision is `RouteAgents` of
  the request and of what detection has found; the rest is about the operators.
  `FilterKeeps` says what the recursive function `Filter` returns: what the list
  names of the set and nothing else, in a list that is no longer, and if the
  first of the list is kept it stays first. It is an induction along the list:
  the library's rule takes a predicate as a parameter, which the provers cannot
  instantiate, but `NatSetInduction` says the same of a set, and follows from the
  well-foundedness of `<` on the numbers. The set is that of the lengths for
  which the claim holds.

`PlanProofs` proves, for any planners, runners, tasks, slugs, repositories, answers
of Claude and edited texts, any number of edits and any clock:

- `PlanTypes`: `Spec => []TypeOK`. `PlannerInv` says what a planner has at each
  place: an id from the moment it asks, a file only if it is not dry, a plan that
  its context and Claude gave.
- `AdviceOnly`: `Spec => ClaudeOnlyAdvises`, a property of steps: the step that
  hands a plan out takes from the Claude of this planner at most the agents, and
  these only if it ended well with an object that lists them; no later step
  changes the plan. `PlannerInv` supplies that the context is there, within its
  bounds, when the answer comes.
- `FilesKept`: `Spec => []PlansKeepTheirFile`. `FileInv` follows the file from its
  truncation: it is empty, or then as written, or a human's, unless a planner of
  the same second and slug has been at it. Such a planner must be known to keep
  its id for good, also when it is killed (`MarkStays`); it is the failed ones
  that a weaker invariant forgets.
- `DefaultsPass`: `Spec => []DefaultsFitTheGates`, for plans of any length: default
  agents are five (`FiveDefaults`, `DefaultsAreFive`).

`SqliteProofs` proves, for any set of callers that interleave and stop anywhere,
and with no assumption on the constants:

- `TypeCorrect`: types, and no row before the table exists.
- `NoteForEveryRow`: `Spec => []NotesMatchRows`. A caller at its row has written
  the note it names, with the body it will store; no other call writes that note,
  but for two rewrites of one record, which the history `clashed` records, and
  for another record with the note's name (`OwnNote`), whatever `NoteOf` is.
- `NothingHiddenUntold`: `Spec => []HiddenIsTold`. `TellInv` carries it from the
  query on: a compaction holds what its summary tells, the summary is a row
  before any source is marked, and sources are told with the excerpt of the body
  they have unless they clashed. What is proved of a body longer than 400
  characters is that its head is told. A summary that is itself compacted is a record like others.

The proofs use the named assumptions on the constants and nothing else; those that
need processes in turn say so in the theorem (`ASSUME ~Concurrent`), and
`MCRunSerial` is such an instance. `CallProofs` uses that tools
are not named like agents, `PlanProofs` what form repositories, answers and edits
have. `RoutingLeavesOutNone` leaves out requests whose limit is out of range,
which `routeAgents` refuses (`agents/routing.ts:68-71`).

In `RunProofs` an action either logs an event, throws, or leaves ledger and
checkpoint alone; one lemma for each of these carries the invariants, and each
action's step cites the one that fits. The other modules first state what each
action does to the process that takes it, and that it leaves the others' entries
alone.

Every safety property that a passing run checks is stated by a theorem, and so
are the two refinements. Model-checked only are the liveness properties
(`EndsUnlessAChildHangs`, `AgentsAnswer`, `EndsWithItsChildren`, `PlansEnd`): fairness and
`ENABLED` are out of the prover's reach. Some proofs say less than one may think:
the memory's theorems hold until two adds overlap, and those of the run that say
`~Concurrent` while resumes do not, because the code promises no more; what goes wrong then is in
section 3.

## 5. Not modelled

- Power loss and what the file system keeps of it: a kill loses no completed
  write. I/O errors other than a torn ledger append end a process where a kill
  would.
- What an orphaned child does after its parent was killed.
- Several runs at once: they share only `runs.jsonl`, which is appended to.
- Output, logging, redaction, record fields and filters, the renderers.
- `run` without a plan or a run id, which fails before it touches the run; the
  scan of init, which may throw before anything is classified; files that users
  delete.
- Children: a process that cannot be signalled, or whose `spawn` throws (no
  file descriptors left); what a child prints. `core/timeout.ts` has no caller.
- Plans: the wording of artifacts and prompts; `slugify`, which is a constant of
  the model; the gates that read the text of a step; humans who edit a file while
  a planner is writing it.
- Python memory: retention dates, which nothing reads; changes of a title, which
  leave the older note behind.
- Gates and policy (`security/gates.ts`, `security/policy.ts`, `policy/`) are
  imported by nothing that runs; `run/security.ts` is modelled with the run.
  Redaction is regular expressions over text.
- The Python run, agents and init: the npm runtime replaces them, and the run's
  collaborators are protocols that the repository does not implement. Only the
  Python store, which `docs/memory.md` keeps for migration, is modelled.
- Contracts, layout and templates: pure functions over text.

## 6. Plan

What is left, in this order:

1. A theorem about runs that overlap: what two resumes at once can still rely on,
   besides what `RunGuarantees` proves.
2. The Python ledger and orchestrator (a ledger rewritten at each event; a
   failure handler that records an event itself), should they come into use.
3. The init artifacts one by one, and the Python init as a second writer of one
   tree.
