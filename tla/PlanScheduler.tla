---------------------------- MODULE PlanScheduler ----------------------------
(***************************************************************************)
(* The execution of one plan by the backend: the scheduler                  *)
(* (internal/scheduler/scheduler.go), the HTTP handlers that start, cancel, *)
(* approve, retry and reassign (internal/api/plan_runtime.go), and the      *)
(* recovery of interrupted plans at start-up (internal/store/recovery.go).  *)
(*                                                                          *)
(* Processes: the runner goroutine of ExecutePlan (at most one per plan),   *)
(* one worker goroutine per started attempt, and the HTTP handlers.  They   *)
(* share only the plan in the store.  PlanStore.UpdatePlan runs its         *)
(* callback under the store's lock on a clone that replaces the plan only   *)
(* when the callback succeeds, so one UpdatePlan is one atomic action here, *)
(* and every GetPlan is a snapshot that may be stale when it is used.       *)
(*                                                                          *)
(* An execution_id (a UUID) is modelled by the number of the attempt:       *)
(* markTaskStarted draws a new one exactly when it increments RunCount and  *)
(* ExecutionEpoch, which nothing ever resets.  Events, timestamps, error    *)
(* texts and the Meta counters are left out (EventStream has the events).   *)
(***************************************************************************)
EXTENDS Naturals, FiniteSets

CONSTANTS
  Tasks,            \* the nodes of the plan graph
  Agents,           \* the values AssignedTo may take
  NoAgent,          \* the empty lease owner
  Artifacts,        \* artifact keys
  Deps,             \* Deps[t]: node.Dependencies
  Requires,         \* Requires[t]: node.RequiredArtifacts
  Outputs,          \* Outputs[t]: node.OutputArtifacts
  Position,         \* Position[t]: rank by (Priority desc, CreatedAt, list order)
  Parallelizable,   \* the nodes with Parallelizable set
  Planned,          \* Planned[t]: the agent the planner assigned
  MaxConcurrent,    \* Scheduler.maxConcurrent
  RetryLimit,       \* node.RetryLimit
  MaxTaskAttempts,  \* plan.Budget.MaxTaskAttempts
  ApprovalRequired, \* plan.Approval.Required
  MaxCommands,      \* bound: successful user commands in a behaviour
  MaxRestarts       \* bound: crashes in a behaviour

ASSUME GraphAssumption ==
  /\ IsFiniteSet(Tasks)
  /\ Deps \in [Tasks -> SUBSET Tasks]
  /\ Requires \in [Tasks -> SUBSET Artifacts]
  /\ Outputs \in [Tasks -> SUBSET Artifacts]
  /\ Position \in [Tasks -> Nat]
  /\ \A t, u \in Tasks : Position[t] = Position[u] => t = u
  /\ Parallelizable \subseteq Tasks

ASSUME AgentAssumption ==
  /\ NoAgent \notin Agents
  /\ Planned \in [Tasks -> Agents]

ASSUME LimitAssumption ==
  /\ MaxConcurrent \in Nat \ {0}
  /\ RetryLimit \in Nat
  /\ MaxTaskAttempts \in Nat \ {0}
  /\ ApprovalRequired \in BOOLEAN
  /\ MaxCommands \in Nat
  /\ MaxRestarts \in Nat

VARIABLES
  planStatus,    \* plan.Status
  approved,      \* plan.Approval.Status = "approved"
  attempts,      \* plan.Usage.TaskAttempts
  status,        \* status[t]: node.Status
  assigned,      \* assigned[t]: node.AssignedTo
  epoch,         \* epoch[t]: node.ExecutionEpoch = node.RunCount
  execution,     \* execution[t]: node.ExecutionID, 0 when empty
  owner,         \* owner[t]: node.LeaseOwner
  result,        \* result[t]: the attempt that wrote node.Result, 0 when empty
  artifacts,     \* the keys of plan.Artifacts
  runner,        \* where the run registered in planRuntime.running is
  picked,        \* what is left of the snapshot runReadyNodes iterates over
  ctx,           \* the run's context
  cancelPending, \* a cancel handler is about to call the run's CancelFunc
  workers,       \* the goroutines of runReadyNodes
  commands,      \* successful user commands so far
  restarts       \* crashes so far

planVars == <<planStatus, approved, attempts>>
taskVars == <<status, assigned, epoch, execution, owner, result, artifacts>>
runVars  == <<runner, picked, ctx, cancelPending>>
vars == <<planVars, taskVars, runVars, workers, commands, restarts>>

PlanStatuses == {"awaiting_approval", "pending", "in_progress",
                 "completed", "failed", "canceled"}
TaskStatuses == {"pending", "ready", "in_progress", "completed",
                 "failed", "blocked", "canceled"}
RunnerSteps == {"idle", "start", "ctx", "check", "over_budget", "promote",
                "pick", "launch", "finish", "fail", "exit"}

(* A worker runs its attempt ("exec"), has a result to commit ("ok",       *)
(* "err"), or has failed its task for good and must block the dependents.   *)
Workers == [task : Tasks, exec : Nat, owner : Agents, live : BOOLEAN,
            pc : {"exec", "ok", "err", "block"}]

-----------------------------------------------------------------------------
(* The graph *)

(* The producer data edges are drawn from: the last node that lists the key. *)
Producers(a) == {p \in Tasks : a \in Outputs[p]}
IsProducer(p, a) == /\ p \in Producers(a)
                    /\ \A q \in Producers(a) : Position[q] <= Position[p]

(* The control and data edges buildEdgesFromNodes derives. *)
Edge(p, t) == \/ p \in Deps[t]
              \/ p # t /\ \E a \in Requires[t] : IsProducer(p, a)

(* All tasks reachable from each task along edges. *)
Downstream ==
  [t \in Tasks |->
     {u \in Tasks : \A S \in SUBSET Tasks :
        (\A p \in S \cup {t}, v \in Tasks : Edge(p, v) => v \in S) => u \in S}]

(* The n first elements of S in scheduling order. *)
FirstOf(S, n) ==
  {t \in S : Cardinality({u \in S : Position[u] < Position[t]}) < n}

-----------------------------------------------------------------------------
(* Predicates on the plan *)

InProgress == {t \in Tasks : status[t] = "in_progress"}
NoRunning == InProgress = {}
(* Mutant: pending forgotten among the open statuses. *)
AllTerminalButPending ==
  \A t \in Tasks : status[t] \notin {"ready", "in_progress"}
AllTerminal ==
  \A t \in Tasks : status[t] \notin {"pending", "ready", "in_progress"}
HasFailure == \E t \in Tasks : status[t] \in {"failed", "blocked", "canceled"}

DependenciesCompleted(t) == \A d \in Deps[t] : status[d] = "completed"
ArtifactsSatisfied(t) == Requires[t] \subseteq artifacts
(* Mutant: an artifact of an earlier run is taken for a completed dependency. *)
PromotableByArtifacts ==
  {t \in Tasks : status[t] = "pending" /\ ArtifactsSatisfied(t)}
Promotable ==
  {t \in Tasks : /\ status[t] = "pending"
                 /\ DependenciesCompleted(t)
                 /\ ArtifactsSatisfied(t)}

(* The plan cannot move on by itself. Mutants: a task that was set back to    *)
(* pending is overlooked; pending tasks keep the plan waiting.               *)
StuckIfIdle == NoRunning
StuckIfTerminal == NoRunning /\ AllTerminal
Stuck == NoRunning /\ Promotable = {}

AttemptsExhausted ==
  attempts >= MaxTaskAttempts /\ NoRunning /\ ~AllTerminal

(* Mutant: only the lease's owner is compared, not the attempt. *)
OwnerMatches(w) ==
  /\ status[w.task] = "in_progress"
  /\ owner[w.task] = w.owner
  /\ assigned[w.task] = w.owner
ExecutionMatches(w) ==
  /\ status[w.task] = "in_progress"
  /\ execution[w.task] = w.exec
  /\ owner[w.task] = w.owner
  /\ assigned[w.task] = w.owner

(* f with the value x at every task of S. *)
SetAt(f, S, x) == [t \in Tasks |-> IF t \in S THEN x ELSE f[t]]

(* The leases of the tasks of S end. *)
ClearLease(S) == /\ execution' = SetAt(execution, S, 0)
                 /\ owner' = SetAt(owner, S, NoAgent)

-----------------------------------------------------------------------------
Init ==
  /\ planStatus = IF ApprovalRequired THEN "awaiting_approval" ELSE "pending"
  /\ approved = FALSE
  /\ attempts = 0
  /\ status = [t \in Tasks |-> IF Deps[t] = {} /\ Requires[t] = {}
                               THEN "ready" ELSE "pending"]
  /\ assigned = Planned
  /\ epoch = [t \in Tasks |-> 0]
  /\ execution = [t \in Tasks |-> 0]
  /\ owner = [t \in Tasks |-> NoAgent]
  /\ result = [t \in Tasks |-> 0]
  /\ artifacts = {}
  /\ runner = "idle"
  /\ picked = {}
  /\ ctx = "live"
  /\ cancelPending = FALSE
  /\ workers = {}
  /\ commands = 0
  /\ restarts = 0

-----------------------------------------------------------------------------
(* The runner: one goroutine, registered in planRuntime.running from        *)
(* executePlan until its deferred clean-up ("exit").                        *)

Goto(step) == runner' = step

(* POST /plans/:id/execute: refused while a run is registered. *)
Execute ==
  /\ runner = "idle"
  /\ planStatus = "pending"
  /\ Goto("start")
  /\ ctx' = "live"
  /\ UNCHANGED <<planVars, taskVars, picked, cancelPending, workers,
                 commands, restarts>>

(* Mutant: the plan's status is trusted instead of its approval. *)
NotAwaiting == planStatus # "awaiting_approval"
Approved == ApprovalRequired => approved

(* The first UpdatePlan of ExecutePlan repeats the checks on the plan as it  *)
(* is by then.                                                              *)
StartRun ==
  /\ runner = "start"
  /\ IF planStatus = "pending" /\ Approved
     THEN planStatus' = "in_progress" /\ Goto("ctx")
     ELSE UNCHANGED planStatus /\ Goto("exit")
  /\ UNCHANGED <<approved, attempts, taskVars, picked, ctx, cancelPending,
                 workers, commands, restarts>>

(* The loop head: select on ctx.Done(). *)
CheckContext ==
  /\ runner = "ctx"
  /\ Goto(IF ctx = "live" THEN "check" ELSE "exit")
  /\ UNCHANGED <<planVars, taskVars, picked, ctx, cancelPending, workers,
                 commands, restarts>>

(* GetPlan, then the cancellation and budget checks on that snapshot.  The   *)
(* plan's duration is measured from StartedAt, which is later than the start *)
(* of the context's deadline of the same length: it can only be exceeded     *)
(* when the deadline passed after CheckContext.                             *)
CheckPlan ==
  /\ runner = "check"
  /\ \/ planStatus = "canceled" /\ Goto("exit")
     \/ /\ planStatus # "canceled"
        /\ AttemptsExhausted \/ ctx = "deadline"
        /\ Goto("over_budget")
     \/ planStatus # "canceled" /\ ~AttemptsExhausted /\ Goto("promote")
  /\ UNCHANGED <<planVars, taskVars, picked, ctx, cancelPending, workers,
                 commands, restarts>>

(* What Scheduler.CancelPlan does to the plan, and to its tasks that are not  *)
(* settled.                                                                  *)
Cancelable == planStatus \notin {"completed", "failed", "canceled"}
OpenTasks ==
  {t \in Tasks : status[t] \in {"pending", "ready", "in_progress", "blocked"}}
CancelEffect ==
  /\ planStatus' = "canceled"
  /\ status' = SetAt(status, OpenTasks, "canceled")
  /\ ClearLease(OpenTasks)
  /\ UNCHANGED <<approved, attempts, assigned, epoch, result, artifacts>>

(* The runner cancels a plan that is over budget; its error is dropped. *)
CancelOverBudget ==
  /\ runner = "over_budget"
  /\ IF Cancelable THEN CancelEffect ELSE UNCHANGED <<planVars, taskVars>>
  /\ Goto("exit")
  /\ UNCHANGED <<picked, ctx, cancelPending, workers, commands, restarts>>

(* The UpdatePlan around promotePendingNodesToReady. *)
Promote ==
  /\ runner = "promote"
  /\ IF planStatus = "canceled"
     THEN UNCHANGED status /\ Goto("exit")
     ELSE status' = SetAt(status, Promotable, "ready") /\ Goto("pick")
  /\ UNCHANGED <<planVars, assigned, epoch, execution, owner, result,
                 artifacts, picked, ctx, cancelPending, workers,
                 commands, restarts>>

(* findReadyNodes on a new snapshot: one serial node if there is any, else   *)
(* as many parallel nodes as there are slots.  Mutant: the slots in use are   *)
(* not subtracted.                                                           *)
ReadyNodesUnslotted ==
  FirstOf({t \in Tasks : status[t] = "ready"}, MaxConcurrent)
ReadyNodes ==
  LET ready  == {t \in Tasks : status[t] = "ready"}
      serial == ready \ Parallelizable
      busy   == Cardinality(InProgress)
  IN IF busy >= MaxConcurrent THEN {}
     ELSE IF serial # {} THEN FirstOf(serial, 1)
     ELSE FirstOf(ready, MaxConcurrent - busy)

(* What to do next is decided on that snapshot: run the ready nodes, finish, *)
(* fail, or sleep and look again.                                           *)
Pick ==
  /\ runner = "pick"
  /\ picked' = ReadyNodes
  /\ Goto(IF ReadyNodes # {} THEN "launch"
          ELSE IF AllTerminal THEN "finish"
          ELSE IF NoRunning THEN "fail"
          ELSE "ctx")
  /\ UNCHANGED <<planVars, taskVars, ctx, cancelPending, workers,
                 commands, restarts>>

(* markTaskStarted for the next picked node, and its worker goroutine. The   *)
(* node's own status is not looked at again.                                *)
LaunchTask(t) ==
  /\ runner = "launch"
  /\ t \in FirstOf(picked, 1)
  /\ planStatus # "canceled"
  /\ attempts < MaxTaskAttempts
  /\ attempts' = attempts + 1
  /\ status' = [status EXCEPT ![t] = "in_progress"]
  /\ epoch' = [epoch EXCEPT ![t] = @ + 1]
  /\ execution' = [execution EXCEPT ![t] = epoch[t] + 1]
  /\ owner' = [owner EXCEPT ![t] = assigned[t]]
  /\ workers' = workers \cup {[task |-> t, exec |-> epoch[t] + 1,
                               owner |-> assigned[t], live |-> ctx = "live",
                               pc |-> "exec"]}
  /\ picked' = picked \ {t}
  /\ Goto(IF picked = {t} THEN "ctx" ELSE "launch")
  /\ UNCHANGED <<planStatus, approved, assigned, result, artifacts, ctx,
                 cancelPending, commands, restarts>>

(* markTaskStarted refuses: ExecutePlan returns and the rest is not started. *)
LaunchRefused ==
  /\ runner = "launch"
  /\ planStatus = "canceled" \/ attempts >= MaxTaskAttempts
  /\ picked' = {}
  /\ Goto("exit")
  /\ UNCHANGED <<planVars, taskVars, ctx, cancelPending, workers,
                 commands, restarts>>

(* All tasks looked terminal: check again under the lock and close the plan. *)
FinishPlan ==
  /\ runner = "finish"
  /\ IF planStatus = "canceled" THEN UNCHANGED planStatus /\ Goto("exit")
     ELSE IF ~AllTerminal THEN UNCHANGED planStatus /\ Goto("ctx")
     ELSE /\ planStatus' = IF HasFailure THEN "failed" ELSE "completed"
          /\ Goto("exit")
  /\ UNCHANGED <<approved, attempts, taskVars, picked, ctx, cancelPending,
                 workers, commands, restarts>>

(* Nothing ran and nothing was ready: check again and fail the plan. *)
FailPlan ==
  /\ runner = "fail"
  /\ IF planStatus = "canceled" THEN UNCHANGED planStatus /\ Goto("exit")
     ELSE IF ~Stuck
     THEN UNCHANGED planStatus /\ Goto("ctx")
     ELSE planStatus' = "failed" /\ Goto("exit")
  /\ UNCHANGED <<approved, attempts, taskVars, picked, ctx, cancelPending,
                 workers, commands, restarts>>

(* The deferred clean-up of executePlan: runCancel, then leave `running`. *)
ExitRun ==
  /\ runner = "exit"
  /\ Goto("idle")
  /\ ctx' = "live"
  /\ cancelPending' = FALSE
  /\ workers' = {[w EXCEPT !.live = FALSE] : w \in workers}
  /\ UNCHANGED <<planVars, taskVars, picked, commands, restarts>>

RunnerStep ==
  \/ StartRun \/ CheckContext \/ CheckPlan \/ CancelOverBudget \/ Promote
  \/ Pick \/ (\E t \in Tasks : LaunchTask(t)) \/ LaunchRefused
  \/ FinishPlan \/ FailPlan \/ ExitRun

-----------------------------------------------------------------------------
(* The workers *)

(* ExecuteTask returns: the executor succeeded and the context was alive, or *)
(* it failed, timed out or was canceled.  Every task has a timeout.          *)
(* Mutant: an executor that does not return once it is canceled.             *)
OutcomesWhileLive(w) == IF w.live THEN {"ok", "err"} ELSE {}
Outcomes(w) == IF w.live THEN {"ok", "err"} ELSE {"err"}
WorkerReturn(w) ==
  /\ w.pc = "exec"
  /\ \E outcome \in Outcomes(w) :
       workers' = (workers \ {w}) \cup {[w EXCEPT !.pc = outcome]}
  /\ UNCHANGED <<planVars, taskVars, runVars, commands, restarts>>

(* markTaskCompleted under the lease of the attempt. *)
CommitSuccess(w) ==
  /\ w.pc = "ok"
  /\ ExecutionMatches(w)
  /\ status' = [status EXCEPT ![w.task] = "completed"]
  /\ result' = [result EXCEPT ![w.task] = w.exec]
  /\ ClearLease({w.task})
  /\ artifacts' = artifacts \cup Outputs[w.task]
  /\ workers' = workers \ {w}
  /\ UNCHANGED <<planVars, assigned, epoch, runVars, commands, restarts>>

(* markTaskFailed under the lease: retry within the limit, else fail.  The    *)
(* dependents are blocked by a transaction of its own.                       *)
CommitFailure(w) ==
  /\ w.pc = "err"
  /\ ExecutionMatches(w)
  /\ ClearLease({w.task})
  /\ IF epoch[w.task] <= RetryLimit
     THEN /\ status' = [status EXCEPT ![w.task] = "pending"]
          /\ workers' = workers \ {w}
     ELSE /\ status' = [status EXCEPT ![w.task] = "failed"]
          /\ workers' = (workers \ {w}) \cup {[w EXCEPT !.pc = "block"]}
  /\ UNCHANGED <<planVars, assigned, epoch, result, artifacts, runVars,
                 commands, restarts>>

(* ErrStaleExecution: the result is discarded. *)
DiscardResult(w) ==
  /\ w.pc \in {"ok", "err"}
  /\ ~ExecutionMatches(w)
  /\ workers' = workers \ {w}
  /\ UNCHANGED <<planVars, taskVars, runVars, commands, restarts>>

(* blockDependents looks only at the dependents, not at the failed task. *)
BlockDependents(w) ==
  /\ w.pc = "block"
  /\ status' = SetAt(status, {u \in Downstream[w.task] :
                                status[u] \in {"pending", "ready"}}, "blocked")
  /\ workers' = workers \ {w}
  /\ UNCHANGED <<planVars, assigned, epoch, execution, owner, result,
                 artifacts, runVars, commands, restarts>>

WorkerStep ==
  \E w \in workers : \/ WorkerReturn(w) \/ CommitSuccess(w) \/ CommitFailure(w)
                     \/ DiscardResult(w) \/ BlockDependents(w)

-----------------------------------------------------------------------------
(* The user's commands *)

Command == commands < MaxCommands /\ commands' = commands + 1

(* POST /plans/:id/cancel.  The handler looked the CancelFunc up before this  *)
(* transaction - it may have found the current run's, none, or that of a run  *)
(* that is over - and calls it afterwards (CancelContext).                   *)
CancelPlan ==
  /\ Command
  /\ Cancelable
  /\ CancelEffect
  /\ cancelPending' \in {cancelPending} \cup
                        (IF runner = "idle" THEN {} ELSE {TRUE})
  /\ UNCHANGED <<runner, picked, ctx, workers, restarts>>

(* The context and its children end: the running workers can only fail. *)
EndContext(reason) ==
  /\ ctx' = reason
  /\ workers' = {[w EXCEPT !.live = FALSE] : w \in workers}
  /\ UNCHANGED <<planVars, taskVars, runner, picked, commands, restarts>>

CancelContext == /\ cancelPending
                 /\ cancelPending' = FALSE
                 /\ EndContext(IF ctx = "live" THEN "canceled" ELSE ctx)

(* planTimeout expires. *)
Deadline == /\ runner # "idle"
            /\ ctx = "live"
            /\ EndContext("deadline")
            /\ UNCHANGED cancelPending

(* resetTaskForRetry for the tasks of S. Mutant: a running task keeps its     *)
(* status.                                                                   *)
ResetIdleTasks(S) ==
  /\ status' = SetAt(status, S \ InProgress, "pending")
  /\ ClearLease(S)
  /\ result' = SetAt(result, S, 0)
  /\ UNCHANGED <<epoch, artifacts>>
ResetTasks(S) ==
  /\ status' = SetAt(status, S, "pending")
  /\ ClearLease(S)
  /\ result' = SetAt(result, S, 0)
  /\ UNCHANGED <<epoch, artifacts>>

(* POST /plans/:id/tasks/:taskId/retry, with resetBlockedDependents. *)
RetryTask(t) ==
  /\ Command
  /\ status[t] \in {"failed", "blocked", "canceled"}
  /\ ResetTasks({t} \cup {u \in Downstream[t] :
                            status[u] \in {"blocked", "canceled"}})
  /\ planStatus' = "pending"
  /\ UNCHANGED <<approved, attempts, assigned, runVars, workers, restarts>>

(* Any task that is not completed may be given to another agent. *)
Reassignable(t) == status[t] # "completed"
Assign(t, a) == assigned' = [assigned EXCEPT ![t] = a]

(* POST /plans/:id/tasks/:taskId/reassign.  A running attempt loses its lease *)
(* but its goroutine and its context go on.                                  *)
ReassignTask(t, a) ==
  /\ Command
  /\ Reassignable(t)
  /\ Assign(t, a)
  /\ ResetTasks({t})
  /\ planStatus' = "pending"
  /\ UNCHANGED <<approved, attempts, runVars, workers, restarts>>

(* POST /plans/:id/approve, whatever the plan's status. *)
ApprovePlan ==
  /\ Command
  /\ ApprovalRequired
  /\ approved' = TRUE
  /\ planStatus' = "pending"
  /\ UNCHANGED <<attempts, taskVars, runVars, workers, restarts>>

UserStep == \/ CancelPlan \/ ApprovePlan
            \/ \E t \in Tasks : RetryTask(t) \/ \E a \in Agents : ReassignTask(t, a)

-----------------------------------------------------------------------------
(* The process dies with all its goroutines and starts again on the stored   *)
(* plan: RecoverInterruptedPlans looks only at plans that are in progress.   *)
(* Mutant: completed tasks are run again as well.                            *)
EverStarted == {t \in Tasks : status[t] \in {"in_progress", "completed"}}
Interrupted == InProgress
Restart ==
  /\ restarts < MaxRestarts
  /\ restarts' = restarts + 1
  /\ runner' = "idle"
  /\ picked' = {}
  /\ ctx' = "live"
  /\ cancelPending' = FALSE
  /\ workers' = {}
  /\ IF planStatus = "in_progress"
     THEN /\ planStatus' = "pending"
          /\ status' = SetAt(status, Interrupted, "pending")
          /\ ClearLease(Interrupted)
     ELSE UNCHANGED <<planStatus, status, execution, owner>>
  /\ UNCHANGED <<approved, attempts, assigned, epoch, result, artifacts,
                 commands>>

Next == \/ Execute \/ RunnerStep \/ WorkerStep
        \/ UserStep \/ CancelContext \/ Deadline \/ Restart

Spec == Init /\ [][Next]_vars

(* Goroutines are scheduled, and an executor returns: every attempt runs      *)
(* under a timeout.  Nobody has to issue commands, and no deadline has to     *)
(* pass.                                                                     *)
FairSpec == Spec /\ WF_vars(RunnerStep) /\ WF_vars(WorkerStep)
                 /\ WF_vars(CancelContext)

-----------------------------------------------------------------------------
(* Type invariant *)
TypeOK ==
  /\ planStatus \in PlanStatuses
  /\ approved \in BOOLEAN
  /\ attempts \in Nat
  /\ status \in [Tasks -> TaskStatuses]
  /\ assigned \in [Tasks -> Agents]
  /\ epoch \in [Tasks -> Nat]
  /\ execution \in [Tasks -> Nat]
  /\ owner \in [Tasks -> Agents \cup {NoAgent}]
  /\ result \in [Tasks -> Nat]
  /\ artifacts \subseteq Artifacts
  /\ runner \in RunnerSteps
  /\ picked \subseteq Tasks
  /\ ctx \in {"live", "canceled", "deadline"}
  /\ cancelPending \in BOOLEAN
  /\ workers \subseteq Workers
  /\ commands \in Nat
  /\ restarts \in Nat

(* A task runs or is completed only on top of completed dependencies and of  *)
(* the artifacts it requires.  markTaskStarted does not check this again: it *)
(* rests on the snapshot promotePendingNodesToReady decided on, whatever     *)
(* retries, reassignments and cancellations came in between.                *)
DependenciesFirst ==
  \A t \in Tasks :
    status[t] \in {"in_progress", "completed"} =>
      DependenciesCompleted(t) /\ ArtifactsSatisfied(t)

(* The stored result of a task is the result of its latest attempt, and only *)
(* completed tasks have one: the late result of an attempt that was          *)
(* reassigned, canceled or recovered never gets in (markTaskCompleted).     *)
ResultFromLatestAttempt ==
  \A t \in Tasks : result[t] = IF status[t] = "completed" THEN epoch[t] ELSE 0

(* A lease belongs to a running task, carries its latest attempt and is held *)
(* by the agent the task is assigned to now: so at any time exactly one      *)
(* attempt passes executionMatches.                                          *)
LeaseIsCurrent ==
  \A t \in Tasks :
    IF status[t] = "in_progress"
    THEN execution[t] = epoch[t] /\ owner[t] = assigned[t]
    ELSE execution[t] = 0 /\ owner[t] = NoAgent

(* The tasks in progress, with those the runner is about to start, never     *)
(* exceed maxConcurrent: the slots of a stale snapshot are still free when   *)
(* runReadyNodes uses them.                                                 *)
InProgressBounded ==
  Cardinality(InProgress \cup picked) <= MaxConcurrent

(* A plan that is over has no task that runs or could be started, and it is  *)
(* completed only if every task is, canceled only if none is left open.      *)
TerminalPlanIsQuiet ==
  /\ planStatus \in {"completed", "failed"} =>
       \A t \in Tasks : status[t] \notin {"ready", "in_progress"}
  /\ planStatus = "completed" => \A t \in Tasks : status[t] = "completed"
  /\ planStatus = "canceled" =>
       \A t \in Tasks : status[t] \in {"completed", "failed", "canceled"}

(* No task is attempted before the approval a plan requires, whatever        *)
(* commands are issued on the unapproved plan.                               *)
NoRunBeforeApproval ==
  ApprovalRequired /\ ~approved => \A t \in Tasks : epoch[t] = 0

(* A task in progress has a goroutine that will end its attempt: none is     *)
(* orphaned by a run that ends early, by a command or by a lost lease.       *)
(* (After a restart there may be one: see RecoveryRequeuesInterruptedTasks.) *)
InProgressHasWorker ==
  restarts = 0 => \A t \in InProgress :
    \E w \in workers : /\ w.task = t
                       /\ w.pc \in {"exec", "ok", "err"}
                       /\ ExecutionMatches(w)

(* A failed plan has something to retry: a task failed, blocked or canceled. *)
(* (That there is one rests on the acyclic graph when FailPlan gives up.)    *)
FailedPlanHasCause == planStatus = "failed" => HasFailure

(* What is completed stays completed with the same result and artifacts.     *)
CompletedIsFinal ==
  [][\A t \in Tasks : status[t] = "completed" =>
       status'[t] = "completed" /\ result'[t] = result[t]
       /\ Outputs[t] \subseteq artifacts']_vars

-----------------------------------------------------------------------------
(* What the proofs add to make the safety properties inductive *)

(* Only a runner that launches holds picked tasks, and none of them can have *)
(* been started or completed by anybody else in the meantime.                *)
PickedIsOpen ==
  /\ picked # {} => runner = "launch"
  /\ \A t \in picked : status[t] \notin {"in_progress", "completed"}

(* A task that is ready or picked still has what it was promoted on. *)
ReadyIsSupported ==
  \A t \in Tasks : t \in picked \/ status[t] = "ready" =>
                    DependenciesCompleted(t) /\ ArtifactsSatisfied(t)

OutputsStored ==
  \A t \in Tasks : status[t] = "completed" => Outputs[t] \subseteq artifacts

(* A run gets past its first transaction only with the approval. *)
RunIsApproved ==
  ApprovalRequired /\ ~approved => runner \in {"idle", "start", "exit"}

(* No run works on a plan it has closed, and a runner about to give up has   *)
(* nothing it could start.                                                   *)
RunnerIsDone ==
  /\ planStatus \in {"completed", "failed"} => runner \in {"idle", "exit"}
  /\ runner = "fail" => \A t \in Tasks : status[t] # "ready"

(* What the planner's templates have and its validation checks for the control *)
(* edges only: the tasks can be carried out in some order, that is, no set of  *)
(* tasks waits for itself.                                                    *)
Feasible ==
  \A S \in SUBSET Tasks : S # {} =>
    \E t \in S : /\ Deps[t] \cap S = {}
                 /\ Requires[t] \subseteq UNION {Outputs[p] : p \in Tasks \ S}

(* A runner about to give up has something left to do, which nobody does. *)
GivesUpForACause ==
  runner = "fail" => NoRunning /\ \E t \in Tasks : status[t] # "completed"

(* The inductive invariant. *)
IInv == /\ TypeOK
        /\ LeaseIsCurrent /\ ResultFromLatestAttempt /\ OutputsStored
        /\ DependenciesFirst /\ ReadyIsSupported /\ PickedIsOpen
        /\ NoRunBeforeApproval /\ RunIsApproved
        /\ TerminalPlanIsQuiet /\ RunnerIsDone /\ GivesUpForACause
        /\ InProgressBounded /\ InProgressHasWorker

-----------------------------------------------------------------------------
(* Liveness *)

(* Every run ends: ExecutePlan never loops forever. *)
RunEnds == runner # "idle" ~> runner = "idle"

(* Once the plan is canceled and left alone, its workers all come home. *)
CancelDrains == planStatus = "canceled" ~> (workers = {} \/ planStatus # "canceled")

-----------------------------------------------------------------------------
(* The scheduler implements the abstract execution of the task graph. *)
Phase(t) == CASE status[t] = "in_progress" -> "running"
              [] status[t] = "completed" -> "done"
              [] OTHER -> "todo"

Abstract == INSTANCE DagExecution
              WITH phase <- [t \in Tasks |-> Phase(t)],
                   attempt <- epoch, recorded <- result

ImplementsDag == Abstract!Spec
=============================================================================
