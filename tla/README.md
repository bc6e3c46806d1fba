# A verification of the scholar-agent plan runtime

TLA+ models, TLC checks and TLAPS proofs for the multi-agent system in `src/`.
A user's request becomes a *plan*, a graph of tasks for agents; the backend
executes it, stores it, streams what happens to browsers and survives restarts.
This directory models how: the execution of a plan, its storage and its event
stream, and below them what the tasks do – find a repository, prepare a runtime,
run and debug code, search for improvements, score a benchmark – and the
separate graph engine of docker-core.

- [The system](#the-system): components, state, operations, what is hard
- [The modules](#the-modules): which module models what, and how
- [The runs](#the-runs): what TLC checks, within which bounds
- [The proofs](#the-proofs): what TLAPS proves, and along which argument
- [Findings](#findings) and [Remarks](#remarks): where the code does not do what its documents say
- [Not modelled](#not-modelled), [The plan](#the-plan)

## The system

Paths are relative to `src/scholar-agent/backend/internal/` unless they begin
with `src/`.

| Component | State | Operations | What is hard | What makes it correct |
|---|---|---|---|---|
| Plan scheduler `scheduler/scheduler.go`, `graph.go`, `policy.go` | the plan in the store: status, tasks with leases and attempt counts, artifacts, budget | `ExecutePlan` (a loop: promote, pick, start, finish or fail), `markTaskStarted/Completed/Failed`, `blockDependents`, `CancelPlan`, `RetryTask`, `ReassignTask` | a goroutine per attempt; decisions on snapshots; late results; commands in the middle of a run | dependencies first; only the latest attempt's result counts; nothing runs in a plan that is over; every run ends |
| Plan handlers `api/plan_runtime.go` | `running`: plan → cancel function | execute, cancel, approve, retry, reassign, create, stream | check-then-act on the plan and on `running` | one run per plan; nothing runs unapproved |
| Recovery `store/recovery.go` | the stored plans | `RecoverInterruptedPlans` at start-up | a crash at any moment | no task stays in progress without a worker |
| Plan store `store/*_plan_store.go` | maps of plans and events, one lock, a snapshot file | save, update, append, list, persist, load | failure or crash between two stages of a write | what was confirmed survives |
| Event bus and SSE `events/bus.go`, `api/plan_runtime.go` | subscriber channels, a stream's set of seen events | publish, subscribe, replay, receive, heartbeat | non-blocking sends, replay racing with live events | no event is lost silently; a stream ends with a terminal event |
| Routed executor `scheduler/executor.go` | the artifacts of a plan | dispatch by agent name, artifacts from results | a missing or stale artifact | a task starts on what its predecessors really left |
| Planner `planner/` | – | task templates, validation (control edges acyclic, required artifacts produced by some task) | graph algorithms | accepted plans are executable |
| Repository discovery and preparation `scheduler/repo_*.go`, `reproduction_mode.go` | one temporary directory for all plans, which is also the cache of clones | discover, rank, clone, clone from a cached clone, check out, download an archive, mark | moving remotes; killed, late and orphaned git processes; clones of workspaces others write in | a workspace belongs to one plan, is clean, and has the commit that was asked for |
| Coder agent `agent/coder.go` | the runtime session, the dependency list, tries | resolve, prepare, install, execute, with recovery and repair | replaced containers, broken streams, budgets | a published runtime is alive and complete; attempts end |
| Paper debug harness `agent/paper_debug_harness.go` | backups in memory, fingerprints, budgets | run, plan, patch, restore, accept | several patches and restores, each of which may fail; processes that go on | repairs are all or nothing |
| AutoResearch `agent/autoresearch.go` | frozen specification, ledger, best files | freeze; baseline, trial, keep or restore; validate | damage to files, restores that fail, crashes, wall time | the files on disk are the best candidate; a validation is of it |
| Experiment research and optimizer service `agent/experiment_*.go`, `agent/research_optimizer_client.go`, `src/scholar-agent/research-optimizer/` | queue, evaluations in flight, ledger; decisions, outcomes, validations | select, dispatch, receive, report; validate | results in any order, lost and late requests | nothing is evaluated twice, defaults first; what is learned was measured |
| Benchmark `agent/benchmark_*.go` | split, frozen contract, adapter, hidden labels in a private directory | audit, split, freeze, generate, preflight, execute, validate | rounding of small datasets; plans that share private state; runs that outlive the backend | no leakage, every class in every part; a score is of the frozen test rows |
| docker-core `src/docker-core/` | graph, slots, one terminal session, snapshots | execute a graph, race commands, time out, interrupt, commit, roll back | commands of several nodes in one session, late output and interrupts | snapshots hold their past; success means done; every execution returns |
| Sandbox client and server `sandbox/`, `sandboxserver/`, `src/scholar-agent/docker-sandbox/` | containers | create, execute, stream, delete | streams that break while the process goes on | – |
| Ablation, claim evidence `agent/ablation_tot.go`, `agent/claim_evidence.go` | search tree; evidence graph | expand, prune; verdict | ranking | – |
| Intent classifier `Intent/` | conversation memory | classify, choose | timeouts | always a result |
| ask_user_question `tools/ask_user_question/` | a prompt | ask, answer | – | – |
| Frontend `src/scholar-agent/frontend/` | the client's view of a plan | fold events | reconnection | – |

How they interact: the handlers and the scheduler share only the plan in the
store. `UpdatePlan` runs a callback on a clone under the store's lock and keeps
the clone only if the callback succeeds: it is the transaction of the system,
and everything between two transactions works on a snapshot. A worker asks the
routed executor to run an agent, then commits the outcome under the lease its
attempt was given. After each transaction the scheduler stores an event, then
offers it to the bus; a stream combines the stored history with its channel.
Tasks hand each other artifacts through the plan; files, containers and the
temporary directory are shared behind its back, and most of what can go wrong
below the scheduler comes from that: the scheduler repeats a task that failed or
was interrupted, in the workspace as it is.

`PROJECT.json` lists the components, the hazards of this code at their lines,
the runs, the mutants, the findings, and for each definition the lines it
translates.

## The modules

**`DagExecution`** is what the scheduler promises: a task starts only when its
dependencies are done, its attempts are numbered, at most one is current, only
the current one may record its outcome, and for good. Any set of running
attempts may be given up.

**`PlanScheduler`** is how it is done, and composes the scheduler, the handlers,
recovery and the workers. One action is one transaction, or one decision on a
snapshot:

| Actions | Code |
|---|---|
| `Execute`, `ExitRun` | the handler `executePlan` and the deferred clean-up of its goroutine |
| `StartRun`, `CheckContext`, `CheckPlan`, `CancelOverBudget`, `Promote`, `Pick`, `LaunchTask`, `LaunchRefused`, `FinishPlan`, `FailPlan` | the loop of `ExecutePlan`; variable `runner` says which step comes next, `picked` is what is left of the snapshot it iterates over |
| `WorkerReturn`, `CommitSuccess`, `CommitFailure`, `DiscardResult`, `BlockDependents` | the goroutines of `runReadyNodes`, one element of `workers` per started attempt |
| `CancelPlan`, `CancelContext`, `RetryTask`, `ReassignTask`, `ApprovePlan` | the handlers and the scheduler's operations behind them; the cancel handler calls the run's `CancelFunc` after its transaction |
| `Deadline` | `planTimeout` expires |
| `Restart` | the process dies at any moment and `RecoverInterruptedPlans` runs |

Abstractions: an `execution_id` is the number of the attempt (a new one is drawn
exactly when `RunCount` is incremented); times, texts, events and counters in
`Meta` are left out; the outcome of an executor is a free choice, except that an
attempt whose context has ended can only fail; transactions do not fail
(`PlanStore` has their failure); the status check of `Execute` and the
registration of the run are one step, because a plan that changes between them
meets the same check again in `StartRun`.

**`EventStream`** models `publishAndStore`, the bus and `streamPlanEvents`: a
publisher commits, stores its event and publishes it in three steps, beside other
publishers; a stream subscribes, lists the history, replays it event by event,
follows its channel and replays again at each heartbeat. An event is its index
in the history (fingerprints are taken to differ), and of the plan only what
decides about terminal events is kept: whether workers still run and in which
run of the plan. The runner and the handlers, which announce what they do and close
the plan, are one publisher (`Closer`). The scheduler goes through these steps
for every event of `PlanScheduler`'s transactions; the two modules are kept
apart, because a transaction never reads the history.

**`DurableLog`** is what a store promises: writes take effect one after the
other, a confirmed one is kept with all before it, a crash may lose the last ones
that were not. **`PlanStore`** is `FilePlanStore`: the memory under its lock and
the stages of `persistLocked` – temporary file, rename, sync of the directory –
each of which may fail or be cut off by a killed process or a power failure. A
map of plans and events is represented by the writes it results from.

**`BudgetedSearch`** is what a search for a better candidate promises: a baseline,
then at most so many trials, and an incumbent that only a better one replaces.
Two modules implement it:

**`AutoResearch`** – `Freeze` (`executeAutoResearchSpec`), the run
(`BeginRun`, `RunCommand`, `DecideBaseline`, `DecideHoldout`, `StopLoop`,
`Propose`, `RejectAnswer`, `RejectPatches`, `WritePatch`, `BeginTrial`,
`KeepTrial`, `RejectTrial`, `Compromised`) and the validation
(`BeginValidation`, `BeginValidationRun`, `DecideValidationRun`, `WriteReport`).
Every command is a step that yields any score and may damage editable, protected
or other files; a restore goes file by file and may fail. `Expire` is the wall
time, `Interrupt` a crash, `Repeat` the scheduler's next attempt; `Unreadable` is a
snapshot or a hash that fails, after which the code restores nothing. Hashes are the
contents they identify; scores are integers.

**`ExperimentSearch`** – the coordinator (`LoopHead`, `Launch`, `Receive`,
`Finish`), its evaluations (`Evaluate`, results on a channel), the validation, and
the optimizer service as transactions of its store (`Decided`, `Reported`,
`Validated`). A request is answered, lost, or `Late`: the client has given it up,
and the service performs it at any later time (`Serve`). What a policy prefers is
any choice of the frontier.

**`CodeTasks`** – resolve, prepare, install and execute of the coder agent, on
containers that are created, replaced and deleted. The recovery of a failed
installation (replacement packages, the model's plan, another Python image) and
the repair rounds are actions. **`PaperDebug`** extends it with the harness: run,
plan, patch, restore, accept; `Tamper` is a process, also an orphaned one, that
writes sources. When the fingerprint that ends a successful attempt fails, the task
fails and nothing is put back (`CompletePaper`, `paper_debug_harness.go:479`).

`AutoResearch`, `CodeTasks` and `PaperDebug` assume one attempt of a task at a time.
That holds of retries and restarts. It does not hold of a reassignment, which takes a
running attempt's lease and not its goroutine: two attempts may overlap in one
workspace, and the older one may delete a container (`coder.go:957`) or restore a file
after the newer one has published it. No theorem about these modules covers that.

**`RepositoryTasks`** – two plans discover candidates and prepare workspaces:
`Discover`, `Prepare`, `CloneCached`, `BeginClone`, `GitSucceeds`, `GitFails`,
`Download`, `Finish`. `Edit` is a later task of a plan that writes in its
workspace, `OrphanEnds` a git process that survived a `Crash`.

**`DagEngine`** – `ExecuteGraph`. The nodes' goroutines (`Take` … `Count`) queue
commands for the session; the session types one at a time and waits for its
delimiter (`Type`, `Read`, `Expire`, `Interrupt`, `GiveUp`, `Report`); the shell runs
what was typed (`Exit`), interrupts reach whatever runs; `Commit` and `Register`
make snapshots, `Rollback` goes back to one. The container is the set of commands
that ended well in it. A rollback that fails (`RollbackFails`) leaves the old container,
none, or the new one without a session.

**`BenchmarkSplit`** has the pure operators that divide a dataset: units, strata,
shares, rebalancing, the leakage guard. **`Benchmark`** is the pipeline of each plan
over them, from `Audit` to `Score`, with retries, a crash, and hidden runs that outlive
it or the stream their output is read from (`OrphanWrites`). A workload says which
files a plan's processes may change beside their output (`touches`): the repository,
the adapter, a public split, or the public evaluator, which nothing watches until
validation. `Breaks` is any read, write or request of an agent that fails between its
processes. A failed task has a `cause`: `"data"`, `"guard"`, `"model"` and
`"adapter"` for the tasks before, `"io"` for `Breaks`, and for the refusals of
validation `"frozen"` (what was frozen, or the manifest of the hidden run), `"labels"`,
`"join"` and `"metrics"` (the public run left out the primary metric, or the hidden
values cannot be measured). Private directories are named after what is split and how,
so plans share them.

`PlanSchedulerClaims` states what documents say and the code does not do. The `MC`
modules define the small instances. The modules `…Proofs` hold the proofs;
`SchedulerProofs` has those of `PlanScheduler` and of the `RepositoryTasks` its
first agent performs.

## The runs

| Run | Shows | Bounds |
|---|---|---|
| `SchedulerCommands` | the safety properties and the refinement of `DagExecution` under any two commands | 3 tasks, 2 slots, 3 attempts |
| `SchedulerRecovery` | the inductive invariant of the proofs across a crash, on a plan that needs approval | 3 commands, 1 crash, 1 slot, 1 automatic retry, 3 attempts |
| `SchedulerLiveness` | runs end, workers of a canceled plan come home | 1 command, 1 automatic retry |
| `ClaimRecovery` | the finding below | 1 command, 1 crash |
| `EventStreamDelivery` | no event is lost silently, replays heal, streams end with a terminal event, everything is delivered in the end | 2 workers, a channel of 1, 3 events, 2 runs, 2 connections |
| `PlanStoreSafety` | files are earlier states of the memory, refinement of `DurableLog` | 2 plans, 4 writes, 2 crashes |
| `AutoResearchTrials` | the best candidate is on disk between trials, hand-overs agree, a validation is of the candidate, attempts settle, refinement of `BudgetedSearch` | 2 files of 2 contents, scores 0 to 2 with target 2, 2 trials, 2 search and 2 validation runs, 1 guard, 2 faults |
| `ExperimentTrials` | slots and budget, no repeated candidate and defaults first, sound experience, the search ends, refinement of `BudgetedSearch` | 2 routes and 3 trials, or 3 routes and 2 trials, on 2 workers; 1 route in series; 1 parameter of 2 values, 2 campaigns, 1 fault |
| `CodeTasks` | prepared runtimes are alive and complete, repairs are all or nothing except where the last fingerprint fails, attempts end | 5 projects, 2 files of 2 contents, 3 installations, 3 runs, 2 repairs, 3 containers, 2 faults |
| `RepositoryTasks` | prepared workspaces are exclusive, clean and of the commit asked for; preparations end | 2 plans, 2 repositories, 2 commits, 2 workspaces at a time, 1 fault |
| `DagEngine` | snapshots hold their past, success means done, every execution returns | a race before an open node, a join, and three nodes side by side; 3 commands, 2 slots |
| `BenchmarkScores` | splits by input pass the guard and show every class, scores are of the frozen rows, refusals have a cause, pipelines end | every dataset of 6 rows of four shapes for one plan whose processes may change any file; 11 rows with a tie for two plans whose processes change none; 2 rounds, 1 retry, 1 crash |

The plan of the scheduler's runs is a join – two independent tasks, and a third
that needs both and reads an artifact of one. It has the smallest shape in which
two workers run at once, a task waits for two others, control and data edges
coincide, and a failure blocks a task whose other dependency still runs. Two
slots are the code's own limit. `SchedulerRecovery` has one, because a join never
has three tasks to start at once and the bound could not be broken with two. The hazards of a command need one command in the
right place and often one more (cancel, then retry; reassign, then cancel).
`MaxCommands`, `MaxRestarts`, `MaxEvents`, `MaxRuns`, `MaxConnects`, `MaxWrites`
and `MaxCrashes` only keep the state space finite; `MaxTaskAttempts` and
`RetryLimit` are limits of the code. A channel that holds one event (64 in the
code) is full as soon as a stream is one event behind. Three events are enough for a run that
ends, a later run, and an event that was dropped. Two plans are the fewest with which
a write can miss its own.

Two files are the fewest of which one can be patched or restored and the other
not; two contents tell changed from unchanged. Two trials are the fewest in which
one candidate is kept and a later one must be undone; a kept trial that reaches the
target ends the search, so three scores are needed, of which the middle one is better
and not the target. Three trials on two workers are the fewest in which a result
arrives while a later candidate runs; two campaigns, the fewest in which a late request
of the first reaches the service during the second. Two faults let
something fail and its repair fail as well. The projects of `CodeTasks` are chosen
so that every branch of the resolution and of the recovery is taken. Two plans in
`RepositoryTasks` are enough for one to clone from what the other writes. The graphs of
`DagEngine` are a race, whose loser is still queued when the node is over, two
parallel nodes that share the session, and three for two slots, of which one has to
wait; all are acyclic. A dataset of six rows is the smallest the
code accepts and the hardest to divide; eleven rows are the fewest with a tie at a
border of the five quantiles. `MaxFaults`, `MaxCrashes`, `MaxRetries`,
`MaxCampaigns`, `MaxContainers` and `MaxWorkspaces` only keep the state space
finite; the other limits are the code's own, with smaller values.

Deadlock is not checked: a plan that is over, or idle with nobody giving a
command, a task that has ended, a graph that was executed really stop, and so do
the bounded histories.

Fairness: in `PlanScheduler`, the runner, the workers and a cancel handler that
has begun go on (goroutines are scheduled, and every attempt runs under a
timeout). Nobody has to give commands, no deadline has to pass, no crash has to
happen. In `EventStream`, a stored event is published and a stream serves its
channel and its ticker; neither a new event nor a new connection is owed, and a
client may always leave. In the modules of the tasks, a task that has begun goes on
(`WF` of its steps): commands, git and requests run under timeouts, in
`ExperimentSearch` an evaluation ends at the latest when the wall time does. No
repetition, expiry, crash or late request is owed. In `DagEngine` the engine's
goroutines are scheduled, the agent and Docker answer, and a node's timer fires; no
command has to end and the session owes nothing.

## The proofs

Every safety property and every refinement of the runs is also a theorem, for
every graph, file, dataset, limit and bound. The assumptions are the `ASSUME`s of
the modules, which TLC evaluates on the instances, and `Feasible`, a hypothesis
of `FailedPlansHaveACause` alone.

| Module | Assumed | Proved |
|---|---|---|
| `SchedulerProofs` | finitely many tasks at distinct positions, dependencies and keys of the right types, a positive concurrency limit; *not* that the graph is acyclic | `TypeCorrect`, `InductiveInvariant`, and from it `DependenciesComeFirst`, `LeasesAreCurrent`, `ResultsAreFromLatestAttempts`, `ConcurrencyIsBounded`, `TerminalPlansAreQuiet`, `NothingRunsUnapproved`, `RunningTasksHaveWorkers`, `CompletedTasksAreFinal`, `SchedulerImplementsDag`; `FailedPlansHaveACause`, if the plan is `Feasible` |
| | finitely many plans and repositories, any commits, any workspaces and remotes | `WorkspacesAreHeldAlone`, `PreparedWorkspacesAreSound` |
| `EventStreamProofs` | channels and histories of any size | `StreamInvariant`, and from it `NothingIsLostSilently`, `ReplaysHeal`, `StreamsEndWithTerminal` |
| `PlanStoreProofs` | any plans and number of writes and crashes | `FilesFollowMemory`, `NothingIsOrphaned`, `StoreImplementsLog` |
| `AutoResearchProofs` | uploads are JSON with an evaluator's path; limits are positive; scores are integers | `FrozenSpecsAreValid`, `SearchInvariant`, and from it `BestStaysOnDisk`, `ValidationKeepsCandidate`, `TrialsAreABudgetedSearch`, `HandOversStayInAgreement` |
| `ExperimentSearchProofs` | finitely many parameters of finitely many values; a specification's numbers are naturals and its routes finitely many; limits are naturals | `SearchIsOrderly`, and from it `SearchStaysTyped`, `SearchStaysOrderly`, `ServiceLearnsWhatWasMeasured`, `CampaignsAreBudgetedSearches` |
| `PaperDebugProofs` | any files, contents, projects and budgets | `RepairsAreTransactional`, `PreparedRuntimesAreLive` |
| `DagEngineProofs` | any graph | `EngineInvariant`, and from it `SnapshotsAreWhole`, `SuccessMeansDone` |
| `BenchmarkProofs` | datasets have finitely many rows, percentages as ratios, and hashes that differ (`IsDataset`) | `ScoresInvariant`, and from it `ScoresAreFrozen`, `InputSplitsAreNeverRefused`, `ClassesAreInEveryPart`, `RefusalsHaveACause` |

*`PlanScheduler`.* The properties are not inductive one by one. That a task starts
on completed dependencies rests on `ReadyIsSupported` (what is ready or picked
keeps what it was promoted on, because nothing completed is ever reopened and
no artifact is removed); that its slot is free, on `PickedIsOpen`; that a plan
that is over is quiet, on `RunnerIsDone`; that nothing runs unapproved, on
`RunIsApproved`; that results and leases are current, on each other. `IInv` is
their conjunction; TLC checks it in `SchedulerRecovery`. The lemmas on the shape
of a step say once what any action may do to a task's status, lease, result and
artifacts; each conjunct then follows from the shape, and the refinement does
too.

That a failed plan has a failed or canceled task needs a graph in which no
set of tasks waits for itself. `Feasible` says exactly that: among any
tasks that are left, one needs nothing of the others. When the runner gives up,
nothing is in progress and nothing is ready, so if no task had failed, the waiting
ones would be such a set (`GivesUpForACause`). The hypothesis cannot be dropped, and
the planner's validation does not establish it for every plan (see
[Remarks](#remarks)); `PlanIsFeasible` lets TLC confirm it of the checked instance.

*`RepositoryTasks`.* The invariant gives each workspace one holder (`Exclusive`),
says what the directory contains for each phase of the task that holds it
(`TaskOK`, `Directory`), and types what the tasks hold (`Locals`). Every
step touches only the workspace its own task holds; a clone from the cache copies
another one but writes its own. That a new workspace is free is a matter of
counting: names are drawn from more than there are holders.

*`EventStream`.* The invariant is the conjunction of the type invariant and the
three safety properties: that a replay over has lost nothing needs the prefix it
has written, and that a stream has no terminal event behind it needs that it ends
at once. A step of one stream leaves the others alone, so the proof goes stream by
stream (`StreamOK`, `OneStream`).

*`PlanStore`.* The invariant orders the contents – what is safe after a power
failure, the file, the memory, each an earlier state of the next – and knows
that between the rename and the end of a write the file is the memory.

*`AutoResearch`.* The best candidate is on disk between trials because a trial
starts from it, and whatever a command does in between, the trial is kept only if
the files are those that were proposed, or ends with a restore that succeeded; the
invariant `SearchInv` follows the expected files through each phase of a run. That
the validation is of the candidate needs in addition that every phase after the
first check has the ledger's files as its snapshot.

That the validation accepts what the loop completes (`HandOversStayInAgreement`)
needs the invariant `ReplayInv`: at each trial the ledger already is one the
validator would accept, but for its end. The validator replays the trials from the
first, each against the best of those before it (`BestAfter`); appending a trial
does not change those scores (`BestIsRemembered`), so earlier decisions stand
(`DecisionStaysRight`) – with one exception, a kept trial that reached the target
and is not the last. It does not occur, because the loop ends at once then
(`StopOK`). `EvaluationOK` counts the runs of an evaluation, so that one that ends
without an error has as many samples as were frozen. Nothing is assumed of the
aggregation or of the rule of acceptance: both sides apply the same.

*`ExperimentSearch`.* `SearchInv` says where a candidate can be – in the queue, with
a worker, on the channel, in the ledger – and that it is in one place only (`Disjoint`); each
evaluation in flight has a worker of its own and one unit of the budget (`Slots`) and
at most one result on the channel (`Channel`); the second phase begins when every
route's default was measured (`Barrier`). The service runs beside the coordinator,
and late requests reach it at any time: `ServiceInv` says of its outcomes and
validations, and of every request still on its way, that what they report is a
measurement in the ledger of their campaign (`Measured`); a campaign that was given
up has no ledger left to contradict.

*`PaperDebug`.* The invariant `SourcesInv` follows each file that the program run
did not write itself: between the patches its content is the last patch of the
report, or what the attempt started with; while a proposal is being written, the
files already done have the proposed content; and there is a backup, equal to the
starting content, of exactly the files patched so far. A restore from those backups
is therefore complete. An attempt that completes, or whose last fingerprint fails, is
between the patches and keeps the last patch of each file. A published runtime is alive (`RuntimeInv`) because the
containers a plan deletes or replaces, it deletes or replaces before anything is
published as prepared: once a container is published no step removes it.

*`DagEngine`.* Effects only grow between rollbacks, a node is past its race only
when the session matched the delimiter of a command of that node that ended well,
and a node starts when the nodes it depends on are counted; a snapshot's past is
the smallest set closed under dependencies, and the effects of every member are in
the container by then. The graph may be any graph: a cyclic one gets stuck.

*`Benchmark`.* Three lemmas on the division of a dataset carry the theorems on
splits. The loop that reduces the shares always leaves a unit for training; every
place of a sorted stratum is taken exactly once, so the parts are disjoint and
complete; rebalancing fills an empty part from one that has several. Rows
with the same input are one unit, so no input is in two parts and the guard has
nothing to refuse; a stratum of three units or more is in all three parts.

The contract equals the manifest once frozen, the manifest changes
only while no predictions exist, and predictions are those of all its test rows or
are being written. Joining makes them a subset of labels of the same number:
since labels are of finitely many rows, the two sets are equal, whoever wrote
the labels. A plan left alone finds in its private directory the labels of its own
manifest, the evaluator it froze and the predictions of the run that passed; when
its validation refuses what was frozen or the join, another plan shares its directory,
a run was orphaned, or a process changed a file that was frozen and that it may touch;
when it refuses the metrics, a run was orphaned, the public run left out the primary
one, the task has no evaluator, or a regression's values are not numbers (`CauseOK`,
`Excused`).

Only model-checked: the liveness properties (`RunEnds`, `CancelDrains`,
`EventuallyDelivered`, `RunSettles`, `SearchEnds`, `AttemptsSettle`,
`PreparationEnds`, `GraphSettles`, `PipelinesEnd`), which need fairness and `ENABLED`,
and the counterexample of `ClaimRecovery`.

## Findings

A run that TLC ends with a counterexample:

1. `ClaimRecovery`: retry, reassign and approve set a plan to `pending` while
   tasks of it run. A crash then leaves those tasks in progress for ever:
   recovery only looks at plans that are in progress
   (`store/recovery.go:15`, `docs/agent_runtime_p0_p1.md:61`).

## Remarks

Where reading or modelling met a document that says more than the code does, or a
limit of the code; the models follow the code. Documents are relative to
`src/scholar-agent/docs/`.

Plans and events:
- If the attempt limit is met in `markTaskStarted`, or the deadline passes before the
  budget check, the run ends and the plan stays in progress (`scheduler.go:509`,
  `:184`; `agent_runtime_p0_p1.md:99`).
- Reassigning takes a running attempt's lease, not its goroutine: more executions run
  than the limit (`scheduler.go:139`; `project_architecture.md:176`).
- The planner searches control edges for cycles and asks of a required artifact only
  that some task produces it (`planner/planner.go:1139`, `:1148`): two tasks that
  require each other's artifacts pass, and the plan fails with both pending and no task
  that failed. The graphs of the runs are `Feasible`, so no run shows it.
- Approving a plan that is over sets it back to pending (`plan_runtime.go:234`).
- A terminal event on the channel ends a stream without a last replay
  (`plan_runtime.go:329`); in a plan that was retried the replay stops at the terminal
  event of the earlier run (`plan_runtime.go:302`).

AutoResearch and experiments:
- The baseline of a repeated run is measured on the files an interrupted attempt
  left (`autoresearch.go:395`), which `autoresearch/03_research_coding_harness.md:34`
  excludes; a failing model is a rejected trial, not the end (`:533-546` against `:86`
  of the same document).
- A validation that was recorded as failed makes a later one of the same campaign a
  conflict, which is logged (`research_optimizer/store.py:231`).

Code and repositories:
- A repair that fails is said to restore every file it changed
  (`research_coding_agent.md`, step 7 of the debugging task). When the last fingerprint
  fails, the task fails with its patches in place (`paper_debug_harness.go:479`);
  `EditsAreTransactional` says so.
- A source that was changed by a run is accepted (`paper_debug_harness.go:204`), and a
  file first patched after a run changed it is restored to the changed content
  (`research_coding_agent.md:184-185`).
- A dependency list with a line like `numpy>=1.2,<2` is refused as a whole
  (`coder.go:2152-2174`; `project_architecture.md:234`).
- An installation that fails after its container was replaced leaves `runtime_session`
  at the deleted container (`coder.go:957`).
- An empty clone is accepted (`repo_prepare.go:797`, `:825-838`;
  `autoresearch/04_evaluator_security_and_evidence.md:89`); without a revision a clone in
  the cache is used without asking the remote for its HEAD
  (`autoresearch/02_planner_and_contracts.md:22`); a preparation that fails after its clone leaves the
  workspace behind (`repo_prepare.go:80-84`).

Benchmarks:
- `sort.Slice` leaves units of equal mean target in any order, so that the same seed may
  give another split (`benchmark_contract_agent.go:524-527`;
  `research_coding_agent.md:50`).
- The public evaluator lies in the workspace, and no check of a run watches it
  (`benchmark_metric_contract.go:392`); a run that reports `accuracy` alone is accepted
  and refused by validation, whose default primary metric is `macro_f1` (`:406`).
- The hash of the adapter's code is checked, the file on disk is run
  (`benchmark_harness.go:178`); there is no evaluator for retrieval, so that such a
  task is never validated (`benchmark_metric_contract.go:625`).

docker-core:
- A plan with a cycle never ends (`engine.go:83`), a canceled execution returns no error
  (`engine.go:121`), a command that succeeds with no output counts as failed
  (`engine.go:194`), and a commit may catch another node's command in the middle
  (`checkpoint/manager.go:44`).

## Not modelled

Rendering, prompts, request parsing, configuration, offline training and the
command-line tool have no protocol worth a model. Agents that make one call to a
language model appear as an attempt's outcome, and so do the ablation search, the
claim graph and the classifier, which run inside one attempt or one request and keep
no state another step reads. Errors of the store inside a scheduler transaction
and of `AppendEvent` are not modelled in `PlanScheduler` and `EventStream`.

In the task modules: values of metrics, reasons and reports, file transfer and
ephemeral images of the sandbox, the OpenSandbox engine. In `DagEngine`: what a failed
command leaves behind, a second execution by the same engine, environment variables,
the death of the container, the circuit breaker. The modules of the tasks are
not composed with `PlanScheduler`: what they need of it is that a task that failed
or was interrupted may be repeated and that a completed one is not, which
`SchedulerImplementsDag` proves; they start from it.

## The plan

1. `DagExecution`, `PlanScheduler`, `EventStream`, `DurableLog`, `PlanStore`, their runs
   and proofs – done.
2. The tasks: `AutoResearch`, `ExperimentSearch`, `CodeTasks`, `PaperDebug`,
   `RepositoryTasks`, `Benchmark`, and `DagEngine`, with their runs – done.
3. Their proofs – done: every safety property and every refinement of the runs.
4. Next: the circuit breaker and a second execution in `DagEngine`; the planner's
   validation of a graph against the `Feasible` that `FailedPlansHaveACause` asks for; the client's
   folding of events into its view, composed with `EventStream`.
