--------------------------- MODULE SchedulerProofs ---------------------------
(***************************************************************************)
(* What the scheduler guarantees for every graph, every number of agents,   *)
(* every limit, and any number of commands and restarts, and what the tasks *)
(* that it runs itself, the discovery and the preparation of a repository,  *)
(* guarantee for any number of plans, repositories and workspaces.          *)
(***************************************************************************)
EXTENDS PlanScheduler, RepositoryTasks, FiniteSetTheorems, SequenceTheorems,
        WellFoundedInduction, TLAPS

-----------------------------------------------------------------------------
(* The plan scheduler                                                        *)

(* The tasks, leases and results that clear or reset a set of tasks have     *)
(* their types.                                                              *)
LEMMA SetAtTypes ==
  ASSUME TypeOK, NEW S
  PROVE  /\ \A x \in TaskStatuses : SetAt(status, S, x) \in [Tasks -> TaskStatuses]
         /\ SetAt(execution, S, 0) \in [Tasks -> Nat]
         /\ SetAt(result, S, 0) \in [Tasks -> Nat]
         /\ SetAt(owner, S, NoAgent) \in [Tasks -> Agents \cup {NoAgent}]
  BY DEF TypeOK, SetAt

(* The literals used for statuses. *)
LEMMA StatusNames ==
  /\ {"pending", "ready", "in_progress", "completed", "failed", "blocked",
      "canceled"} = TaskStatuses
  /\ {"awaiting_approval", "pending", "in_progress", "completed", "failed",
      "canceled"} = PlanStatuses
  BY DEF TaskStatuses, PlanStatuses

(* Picking tasks in scheduling order picks them from the given set. *)
LEMMA FirstOfSubset ==
  ASSUME NEW S, NEW n PROVE FirstOf(S, n) \subseteq S
  BY DEF FirstOf

(* What a started attempt adds is a worker. *)
LEMMA NewWorker ==
  ASSUME NEW t \in Tasks, NEW e \in Nat, NEW a \in Agents, NEW l \in BOOLEAN
  PROVE  [task |-> t, exec |-> e, owner |-> a, live |-> l, pc |-> "exec"] \in Workers
  BY DEF Workers

(* A worker changes its place without changing its type. *)
LEMMA WorkerUpdate ==
  ASSUME NEW w \in Workers
  PROVE  /\ [w EXCEPT !.live = FALSE] \in Workers
         /\ \A step \in {"ok", "err", "block"} : [w EXCEPT !.pc = step] \in Workers
  BY DEF Workers

(* The initial values have their types. *)
LEMMA InitTypes == Init => TypeOK
<1> SUFFICES ASSUME Init PROVE TypeOK
  OBVIOUS
<1>1. /\ status \in [Tasks -> TaskStatuses]
      /\ owner \in [Tasks -> Agents \cup {NoAgent}]
      /\ assigned \in [Tasks -> Agents]
  BY StatusNames, AgentAssumption DEF Init, AgentAssumption
<1>2. planStatus \in PlanStatuses
  BY StatusNames DEF Init
<1>3. QED
  BY <1>1, <1>2 DEF Init, TypeOK, RunnerSteps

(* Every step of the runner, of a worker, of a command and of the recovery    *)
(* keeps the types.                                                          *)
LEMMA TypeStep == TypeOK /\ [Next]_vars => TypeOK'
<1> SUFFICES ASSUME TypeOK, [Next]_vars PROVE TypeOK'
  OBVIOUS
<1>0. \A S : /\ \A x \in TaskStatuses : SetAt(status, S, x) \in [Tasks -> TaskStatuses]
            /\ SetAt(execution, S, 0) \in [Tasks -> Nat]
            /\ SetAt(result, S, 0) \in [Tasks -> Nat]
            /\ SetAt(owner, S, NoAgent) \in [Tasks -> Agents \cup {NoAgent}]
  BY SetAtTypes
<1> USE StatusNames DEF TypeOK, RunnerSteps, Goto, planVars, taskVars, runVars
<1>1. CASE Execute
  BY <1>1 DEF Execute
<1>2. CASE StartRun
  BY <1>2 DEF StartRun
<1>3. CASE CheckContext
  BY <1>3 DEF CheckContext
<1>4. CASE CheckPlan
  BY <1>4 DEF CheckPlan
<1>5. CASE CancelOverBudget
  <2>1. CASE Cancelable
    <3>1. status' = SetAt(status, OpenTasks, "canceled")
      BY <1>5, <2>1 DEF CancelOverBudget, CancelEffect
    <3>2. /\ execution' = SetAt(execution, OpenTasks, 0)
          /\ owner' = SetAt(owner, OpenTasks, NoAgent)
      BY <1>5, <2>1 DEF CancelOverBudget, CancelEffect, ClearLease
    <3>3. status' \in [Tasks -> TaskStatuses]
      BY <3>1, <1>0
    <3>4. QED
      BY <1>5, <2>1, <3>2, <3>3, <1>0 DEF CancelOverBudget, CancelEffect
  <2>2. CASE ~Cancelable
    BY <1>5, <2>2 DEF CancelOverBudget
  <2>3. QED
    BY <2>1, <2>2
<1>6. CASE Promote
  <2>1. status' \in [Tasks -> TaskStatuses]
    <3>1. CASE planStatus = "canceled"
      BY <1>6, <3>1 DEF Promote
    <3>2. CASE planStatus # "canceled"
      <4>1. status' = SetAt(status, Promotable, "ready")
        BY <1>6, <3>2 DEF Promote
      <4>2. QED
        BY <1>0, <4>1
    <3>3. QED
      BY <3>1, <3>2
  <2>2. QED
    BY <1>6, <2>1 DEF Promote
<1>7. CASE Pick
  <2>1. ReadyNodes \subseteq Tasks
    BY FirstOfSubset DEF ReadyNodes
  <2>2. QED
    BY <1>7, <2>1 DEF Pick
<1>8. ASSUME NEW t \in Tasks, LaunchTask(t) PROVE TypeOK'
  <2>1. (ctx = "live") \in BOOLEAN
    OBVIOUS
  <2>2. epoch[t] + 1 \in Nat /\ assigned[t] \in Agents
    BY <1>8
  <2>3. [task |-> t, exec |-> epoch[t] + 1, owner |-> assigned[t],
         live |-> (ctx = "live"), pc |-> "exec"] \in Workers
    BY <2>1, <2>2, <1>8, NewWorker
  <2>4. workers' \subseteq Workers
    BY <2>3, <1>8 DEF LaunchTask
  <2>5. QED
    BY <1>8, <2>2, <2>4 DEF LaunchTask
<1>9. CASE LaunchRefused
  BY <1>9 DEF LaunchRefused
<1>10. CASE FinishPlan
  BY <1>10 DEF FinishPlan
<1>11. CASE FailPlan
  BY <1>11 DEF FailPlan
<1>12. CASE ExitRun
  <2>1. workers' \subseteq Workers
    BY <1>12, WorkerUpdate DEF ExitRun
  <2>2. QED
    BY <1>12, <2>1 DEF ExitRun
<1>13. ASSUME NEW w \in workers, WorkerReturn(w) PROVE TypeOK'
  <2>1. workers' \subseteq Workers
    <3>1. Outcomes(w) \subseteq {"ok", "err"}
      BY DEF Outcomes
    <3>2. w \in Workers
      BY <1>13
    <3>3. QED
      BY <1>13, <3>1, <3>2, WorkerUpdate DEF WorkerReturn
  <2>2. QED
    BY <1>13, <2>1 DEF WorkerReturn
<1>14. ASSUME NEW w \in workers, CommitSuccess(w) PROVE TypeOK'
  BY <1>14, <1>0, GraphAssumption DEF GraphAssumption, CommitSuccess, ClearLease, Workers
<1>15. ASSUME NEW w \in workers, CommitFailure(w) PROVE TypeOK'
  <2>1. workers' \subseteq Workers
    <3>1. w \in Workers
      BY <1>15
    <3>2. [w EXCEPT !.pc = "block"] \in Workers
      BY <3>1, WorkerUpdate
    <3>3. QED
      BY <1>15, <3>2 DEF CommitFailure
  <2>2. w.task \in Tasks
    BY DEF Workers
  <2>3. status' \in [Tasks -> TaskStatuses]
    BY <1>15, <2>2 DEF CommitFailure
  <2>4. QED
    BY <1>15, <2>1, <2>3, <1>0 DEF CommitFailure, ClearLease
<1>16. ASSUME NEW w \in workers, DiscardResult(w) PROVE TypeOK'
  BY <1>16 DEF DiscardResult
<1>17. ASSUME NEW w \in workers, BlockDependents(w) PROVE TypeOK'
  BY <1>17, <1>0 DEF BlockDependents
<1>18. CASE CancelPlan
  <2>1. status' \in [Tasks -> TaskStatuses]
    BY <1>18, <1>0 DEF CancelPlan, CancelEffect
  <2>2. /\ execution' \in [Tasks -> Nat]
        /\ owner' \in [Tasks -> Agents \cup {NoAgent}]
    BY <1>18, <1>0 DEF CancelPlan, CancelEffect, ClearLease
  <2>3. cancelPending' \in BOOLEAN
    BY <1>18 DEF CancelPlan
  <2>4. QED
    BY <1>18, <2>1, <2>2, <2>3 DEF CancelPlan, Command, CancelEffect
<1>19. CASE ApprovePlan
  BY <1>19 DEF ApprovePlan, Command
<1>20. ASSUME NEW t \in Tasks, RetryTask(t) PROVE TypeOK'
  <2>1. status' \in [Tasks -> TaskStatuses]
    BY <1>20, <1>0 DEF RetryTask, ResetTasks
  <2>2. /\ execution' \in [Tasks -> Nat]
        /\ result' \in [Tasks -> Nat]
        /\ owner' \in [Tasks -> Agents \cup {NoAgent}]
    BY <1>20, <1>0 DEF RetryTask, ResetTasks, ClearLease
  <2>3. QED
    BY <1>20, <2>1, <2>2 DEF RetryTask, Command, ResetTasks
<1>21. ASSUME NEW t \in Tasks, NEW a \in Agents, ReassignTask(t, a) PROVE TypeOK'
  <2>1. status' \in [Tasks -> TaskStatuses]
    BY <1>21, <1>0 DEF ReassignTask, ResetTasks
  <2>2. /\ execution' \in [Tasks -> Nat]
        /\ result' \in [Tasks -> Nat]
        /\ owner' \in [Tasks -> Agents \cup {NoAgent}]
    BY <1>21, <1>0 DEF ReassignTask, ResetTasks, ClearLease
  <2>3. assigned' \in [Tasks -> Agents]
    BY <1>21 DEF ReassignTask, Assign
  <2>4. /\ UNCHANGED <<epoch, artifacts, approved, attempts, runner, picked, ctx, cancelPending,
                       workers, restarts>>
        /\ planStatus' = "pending" /\ commands' = commands + 1
    BY <1>21 DEF ReassignTask, Command, ResetTasks, runVars
  <2>5. QED
    BY <2>1, <2>2, <2>3, <2>4
<1>22. CASE CancelContext
  <2>1. workers' \subseteq Workers
    BY <1>22, WorkerUpdate DEF CancelContext, EndContext
  <2>2. QED
    BY <1>22, <2>1 DEF CancelContext, EndContext
<1>23. CASE Deadline
  <2>1. workers' \subseteq Workers
    BY <1>23, WorkerUpdate DEF Deadline, EndContext
  <2>2. QED
    BY <1>23, <2>1 DEF Deadline, EndContext
<1>24. CASE Restart
  <2>1. /\ status' \in [Tasks -> TaskStatuses]
        /\ planStatus' \in PlanStatuses
        /\ execution' \in [Tasks -> Nat]
        /\ owner' \in [Tasks -> Agents \cup {NoAgent}]
    <3>1. CASE planStatus = "in_progress"
      BY <1>0, <1>24, <3>1 DEF Restart, ClearLease
    <3>2. CASE planStatus # "in_progress"
      BY <1>24, <3>2 DEF Restart
    <3>3. QED
      BY <3>1, <3>2
  <2>2. /\ runner' \in RunnerSteps /\ picked' \subseteq Tasks
        /\ ctx' \in {"live", "canceled", "deadline"}
        /\ cancelPending' \in BOOLEAN /\ workers' \subseteq Workers
    <3>1. /\ runner' = "idle" /\ picked' = {} /\ ctx' = "live"
          /\ cancelPending' = FALSE /\ workers' = {}
      BY <1>24, Zenon DEF Restart
    <3>2. QED
      BY <3>1 DEF RunnerSteps
  <2>3. restarts' \in Nat
    BY <1>24 DEF Restart
  <2>4. UNCHANGED <<approved, attempts, assigned, epoch, result, artifacts,
                    commands>>
    BY <1>24 DEF Restart
  <2>5. QED
    BY <2>1, <2>2, <2>3, <2>4
<1>25. CASE UNCHANGED vars
  BY <1>25 DEF vars
<1>26. QED
  BY <1>1, <1>2, <1>3, <1>4, <1>5, <1>6, <1>7, <1>8, <1>9, <1>10, <1>11,
     <1>12, <1>13, <1>14, <1>15, <1>16, <1>17, <1>18, <1>19, <1>20, <1>21,
     <1>22, <1>23, <1>24, <1>25
  DEF Next, RunnerStep, WorkerStep, UserStep

(* The variables always have their types. *)
THEOREM TypeCorrect == Spec => []TypeOK
  BY InitTypes, TypeStep, PTL DEF Spec
-----------------------------------------------------------------------------
(* Safety: StepShape says once, with one case per action, what a step can do  *)
(* to the tasks - start one picked task, complete one running task, or move  *)
(* any of them away from running.  The invariants about leases, results,     *)
(* dependencies and completed tasks follow from that shape alone.            *)

Unmoved(t) == /\ status'[t] = status[t] /\ execution'[t] = execution[t]
              /\ owner'[t] = owner[t] /\ assigned'[t] = assigned[t]
              /\ epoch'[t] = epoch[t] /\ result'[t] = result[t]

Started(t) == /\ LaunchTask(t) /\ t \in picked
              /\ status'[t] = "in_progress" /\ epoch'[t] = epoch[t] + 1
              /\ execution'[t] = epoch'[t] /\ owner'[t] = assigned[t]
              /\ assigned'[t] = assigned[t] /\ result'[t] = result[t]

Succeeded(t) == /\ status[t] = "in_progress" /\ status'[t] = "completed"
                /\ execution'[t] = 0 /\ owner'[t] = NoAgent
                /\ epoch'[t] = epoch[t] /\ result'[t] = execution[t]
                /\ Outputs[t] \subseteq artifacts'

Moved(t) == /\ status[t] # "completed"
            /\ status'[t] \notin {"in_progress", "completed"}
            /\ execution'[t] = 0 /\ owner'[t] = NoAgent
            /\ epoch'[t] = epoch[t] /\ result'[t] \in {0, result[t]}

NoneStarts == \A t \in Tasks : Unmoved(t) \/ Moved(t)

(* A step whose tasks keep everything. *)
LEMMA TasksUnchanged ==
  ASSUME UNCHANGED taskVars PROVE NoneStarts
  BY DEF taskVars, NoneStarts, Unmoved

(* What one step does to the tasks. *)
LEMMA StepShape ==
  ASSUME TypeOK, LeaseIsCurrent, [Next]_vars
  PROVE  \/ NoneStarts
         \/ \E t \in Tasks : Started(t) /\ \A u \in Tasks \ {t} : Unmoved(u)
         \/ \E t \in Tasks : Succeeded(t) /\ \A u \in Tasks \ {t} : Unmoved(u)
<1>1. ASSUME \/ Execute \/ StartRun \/ CheckContext \/ CheckPlan \/ Pick
             \/ LaunchRefused \/ FinishPlan \/ FailPlan \/ ExitRun
             \/ ApprovePlan \/ CancelContext \/ Deadline \/ UNCHANGED vars
             \/ \E w \in workers : WorkerReturn(w) \/ DiscardResult(w)
      PROVE  NoneStarts
  BY <1>1, TasksUnchanged
  DEF Execute, StartRun, CheckContext, CheckPlan, Pick, LaunchRefused,
      FinishPlan, FailPlan, ExitRun, ApprovePlan, CancelContext, Deadline,
      EndContext, WorkerReturn, DiscardResult, vars
<1>2. ASSUME CancelEffect PROVE NoneStarts
  <2> SUFFICES ASSUME NEW t \in Tasks PROVE Unmoved(t) \/ Moved(t)
    BY DEF NoneStarts
  <2>1. CASE t \in OpenTasks
    BY <1>2, <2>1 DEF CancelEffect, OpenTasks, ClearLease, SetAt, Moved
  <2>2. CASE t \notin OpenTasks
    BY <1>2, <2>2 DEF CancelEffect, ClearLease, SetAt, Unmoved
  <2>3. QED
    BY <2>1, <2>2
<1>3. CASE CancelOverBudget
  BY <1>2, <1>3, TasksUnchanged DEF CancelOverBudget
<1>4. CASE CancelPlan
  BY <1>2, <1>4 DEF CancelPlan
<1>5. CASE Promote
  <2> SUFFICES ASSUME NEW t \in Tasks PROVE Unmoved(t) \/ Moved(t)
    BY DEF NoneStarts
  <2>1. CASE planStatus # "canceled" /\ t \in Promotable
    BY <1>5, <2>1 DEF Promote, Promotable, SetAt, Moved, LeaseIsCurrent
  <2>2. CASE planStatus = "canceled" \/ t \notin Promotable
    BY <1>5, <2>2 DEF Promote, SetAt, Unmoved
  <2>3. QED
    BY <2>1, <2>2
<1>6. ASSUME NEW t \in Tasks, LaunchTask(t)
      PROVE  Started(t) /\ \A u \in Tasks \ {t} : Unmoved(u)
  <2>1. t \in picked
    BY <1>6, FirstOfSubset DEF LaunchTask
  <2>2. QED
    BY <1>6, <2>1 DEF LaunchTask, Started, Unmoved, TypeOK
<1>7. ASSUME NEW w \in workers, CommitSuccess(w)
      PROVE  \E t \in Tasks : Succeeded(t) /\ \A u \in Tasks \ {t} : Unmoved(u)
  <2>1. w.task \in Tasks
    BY DEF TypeOK, Workers
  <2>2. Succeeded(w.task)
    BY <1>7, <2>1
    DEF CommitSuccess, ExecutionMatches, ClearLease, SetAt, Succeeded, TypeOK
  <2>3. \A u \in Tasks \ {w.task} : Unmoved(u)
    BY <1>7, <2>1 DEF CommitSuccess, ClearLease, SetAt, Unmoved, TypeOK
  <2>4. QED
    BY <2>1, <2>2, <2>3
<1>8. ASSUME NEW w \in workers, CommitFailure(w) PROVE NoneStarts
  <2>1. w.task \in Tasks
    BY DEF TypeOK, Workers
  <2>2. Moved(w.task)
    BY <1>8, <2>1
    DEF CommitFailure, ExecutionMatches, ClearLease, SetAt, Moved, TypeOK
  <2>3. \A u \in Tasks \ {w.task} : Unmoved(u)
    BY <1>8, <2>1 DEF CommitFailure, ClearLease, SetAt, Unmoved, TypeOK
  <2>4. QED
    BY <2>1, <2>2, <2>3 DEF NoneStarts
<1>9. ASSUME NEW w \in workers, BlockDependents(w) PROVE NoneStarts
  <2> SUFFICES ASSUME NEW t \in Tasks PROVE Unmoved(t) \/ Moved(t)
    BY DEF NoneStarts
  <2>1. CASE t \in Downstream[w.task] /\ status[t] \in {"pending", "ready"}
    BY <1>9, <2>1 DEF BlockDependents, SetAt, Moved, LeaseIsCurrent
  <2>2. CASE ~(t \in Downstream[w.task] /\ status[t] \in {"pending", "ready"})
    BY <1>9, <2>2 DEF BlockDependents, SetAt, Unmoved
  <2>3. QED
    BY <2>1, <2>2
<1>10. ASSUME NEW t \in Tasks, RetryTask(t) PROVE NoneStarts
  <2> DEFINE S == {t} \cup {u \in Downstream[t] :
                              status[u] \in {"blocked", "canceled"}}
  <2> SUFFICES ASSUME NEW u \in Tasks PROVE Unmoved(u) \/ Moved(u)
    BY DEF NoneStarts
  <2>1. CASE u \in S
    BY <1>10, <2>1 DEF RetryTask, ResetTasks, ClearLease, SetAt, Moved
  <2>2. CASE u \notin S
    BY <1>10, <2>2 DEF RetryTask, ResetTasks, ClearLease, SetAt, Unmoved
  <2>3. QED
    BY <2>1, <2>2
<1>11. ASSUME NEW t \in Tasks, NEW a \in Agents, ReassignTask(t, a)
       PROVE  NoneStarts
  <2> SUFFICES ASSUME NEW u \in Tasks PROVE Unmoved(u) \/ Moved(u)
    BY DEF NoneStarts
  <2>1. CASE u = t
    BY <1>11, <2>1
    DEF ReassignTask, Reassignable, ResetTasks, ClearLease, SetAt, Moved
  <2>2. CASE u # t
    BY <1>11, <2>2
    DEF ReassignTask, Assign, ResetTasks, ClearLease, SetAt, Unmoved, TypeOK
  <2>3. QED
    BY <2>1, <2>2
<1>12. CASE Restart
  <2>1. CASE planStatus = "in_progress"
    <3> SUFFICES ASSUME NEW t \in Tasks PROVE Unmoved(t) \/ Moved(t)
      BY DEF NoneStarts
    <3>1. CASE t \in Interrupted
      BY <1>12, <2>1, <3>1
      DEF Restart, Interrupted, InProgress, ClearLease, SetAt, Moved
    <3>2. CASE t \notin Interrupted
      BY <1>12, <2>1, <3>2 DEF Restart, ClearLease, SetAt, Unmoved
    <3>3. QED
      BY <3>1, <3>2
  <2>2. CASE planStatus # "in_progress"
    BY <1>12, <2>2 DEF Restart, NoneStarts, Unmoved
  <2>3. QED
    BY <2>1, <2>2
<1>13. QED
  BY <1>1, <1>3, <1>4, <1>5, <1>6, <1>7, <1>8, <1>9, <1>10, <1>11, <1>12
  DEF Next, RunnerStep, WorkerStep, UserStep

(* Artifacts are only ever added. *)
LEMMA ArtifactsGrow == [Next]_vars => artifacts \subseteq artifacts'
  BY DEF Next, RunnerStep, WorkerStep, UserStep, Execute, StartRun,
     CheckContext, CheckPlan, CancelOverBudget, Promote, Pick, LaunchTask,
     LaunchRefused, FinishPlan, FailPlan, ExitRun, WorkerReturn, CommitSuccess,
     CommitFailure, DiscardResult, BlockDependents, CancelPlan, CancelContext,
     Deadline, EndContext, RetryTask, ReassignTask, ResetTasks, ApprovePlan,
     Restart, CancelEffect, taskVars, vars

-----------------------------------------------------------------------------
(* Leases, results and completed tasks *)

(* The part of the inductive invariant that StepShape alone preserves, given *)
(* that picked tasks are open.                                              *)
TaskInv == LeaseIsCurrent /\ ResultFromLatestAttempt /\ OutputsStored

(* What is completed keeps its status, its result and its artifacts. *)
LEMMA CompletedStep ==
  ASSUME TypeOK, TaskInv, PickedIsOpen, [Next]_vars, NEW t \in Tasks,
         status[t] = "completed"
  PROVE  /\ status'[t] = "completed" /\ result'[t] = result[t]
         /\ Outputs[t] \subseteq artifacts'
<1>1. Unmoved(t)
  BY StepShape DEF TaskInv, NoneStarts, Started, Succeeded, Moved, PickedIsOpen
<1>2. QED
  BY <1>1, ArtifactsGrow DEF Unmoved, TaskInv, OutputsStored

LEMMA TaskInvStep ==
  ASSUME TypeOK, TaskInv, PickedIsOpen, [Next]_vars
  PROVE  TaskInv'
<1> SUFFICES ASSUME NEW t \in Tasks
    PROVE  /\ IF status'[t] = "in_progress"
              THEN execution'[t] = epoch'[t] /\ owner'[t] = assigned'[t]
              ELSE execution'[t] = 0 /\ owner'[t] = NoAgent
           /\ result'[t] = IF status'[t] = "completed" THEN epoch'[t] ELSE 0
           /\ status'[t] = "completed" => Outputs[t] \subseteq artifacts'
  BY DEF TaskInv, LeaseIsCurrent, ResultFromLatestAttempt, OutputsStored
<1>1. Unmoved(t) \/ Started(t) \/ Succeeded(t) \/ Moved(t)
  BY StepShape DEF TaskInv, NoneStarts
<1>2. CASE Unmoved(t)
  BY <1>2, ArtifactsGrow DEF Unmoved, TaskInv, LeaseIsCurrent,
     ResultFromLatestAttempt, OutputsStored
<1>3. CASE Started(t)
  BY <1>3 DEF Started, PickedIsOpen, TaskInv, ResultFromLatestAttempt
<1>4. CASE Succeeded(t)
  BY <1>4 DEF Succeeded, TaskInv, LeaseIsCurrent
<1>5. CASE Moved(t)
  BY <1>5 DEF Moved, TaskInv, ResultFromLatestAttempt
<1>6. QED
  BY <1>1, <1>2, <1>3, <1>4, <1>5

-----------------------------------------------------------------------------
(* The picked tasks *)

(* The runner's list is drawn from the ready tasks by Pick, and loses tasks   *)
(* in every other step.                                                      *)
LEMMA PickedShrinks ==
  ASSUME TypeOK, [Next]_vars, ~Pick PROVE picked' \subseteq picked
  BY DEF Next, RunnerStep, WorkerStep, UserStep, Execute, StartRun,
     CheckContext, CheckPlan, CancelOverBudget, Promote, LaunchTask,
     LaunchRefused, FinishPlan, FailPlan, ExitRun, WorkerReturn, CommitSuccess,
     CommitFailure, DiscardResult, BlockDependents, CancelPlan, CancelContext,
     Deadline, EndContext, RetryTask, ReassignTask, ApprovePlan, Restart,
     runVars, vars

LEMMA PickStep ==
  ASSUME Pick
  PROVE  /\ picked' \subseteq {t \in Tasks : status[t] = "ready"}
         /\ UNCHANGED taskVars
<1> DEFINE ready == {t \in Tasks : status[t] = "ready"}
<1>1. ReadyNodes \subseteq ready
  BY FirstOfSubset DEF ReadyNodes
<1>2. QED
  BY <1>1 DEF Pick

LEMMA PickedIsOpenStep ==
  ASSUME TypeOK, LeaseIsCurrent, PickedIsOpen, [Next]_vars
  PROVE  PickedIsOpen'
<1>1. picked' # {} => runner' = "launch"
  BY DEF PickedIsOpen, Goto, Next, RunnerStep, WorkerStep, UserStep, Execute,
     StartRun, CheckContext, CheckPlan, CancelOverBudget, Promote, Pick,
     LaunchTask, LaunchRefused, FinishPlan, FailPlan, ExitRun, WorkerReturn,
     CommitSuccess, CommitFailure, DiscardResult, BlockDependents, CancelPlan,
     CancelContext, Deadline, EndContext, RetryTask, ReassignTask, ApprovePlan,
     Restart, runVars, vars
<1>2. ASSUME NEW t \in picked'
      PROVE  status'[t] \notin {"in_progress", "completed"}
  <2>1. CASE Pick
    BY <1>2, <2>1, PickStep DEF taskVars
  <2>2. CASE ~Pick
    <3>1. t \in picked /\ t \in Tasks
      BY <1>2, <2>2, PickedShrinks DEF TypeOK
    <3>2. Unmoved(t) \/ Moved(t)
      BY <1>2, <3>1, StepShape
      DEF NoneStarts, Started, LaunchTask, Succeeded, PickedIsOpen
    <3>3. QED
      BY <3>1, <3>2 DEF Unmoved, Moved, PickedIsOpen
  <2>3. QED
    BY <2>1, <2>2
<1>3. QED
  BY <1>1, <1>2 DEF PickedIsOpen

-----------------------------------------------------------------------------
(* Dependencies *)

Supported(t) == DependenciesCompleted(t) /\ ArtifactsSatisfied(t)

(* What a task was promoted on never goes away. *)
LEMMA SupportedStays ==
  ASSUME TypeOK, TaskInv, PickedIsOpen, [Next]_vars,
         NEW t \in Tasks, Supported(t)
  PROVE  Supported(t)'
<1>1. Deps[t] \subseteq Tasks
  BY GraphAssumption DEF GraphAssumption
<1>2. \A d \in Deps[t] : status'[d] = "completed"
  BY <1>1, CompletedStep DEF Supported, DependenciesCompleted
<1>3. Requires[t] \subseteq artifacts'
  BY ArtifactsGrow DEF Supported, ArtifactsSatisfied
<1>4. QED
  BY <1>2, <1>3 DEF Supported, DependenciesCompleted, ArtifactsSatisfied

(* A task becomes ready only when it is promoted. *)
LEMMA ReadyStep ==
  ASSUME TypeOK, [Next]_vars, NEW t \in Tasks,
         status'[t] = "ready", status[t] # "ready"
  PROVE  Promote /\ t \in Promotable
<1>1. CASE Promote
  BY <1>1 DEF Promote, SetAt
<1>2. CASE CancelOverBudget \/ CancelPlan
  BY <1>2 DEF CancelOverBudget, CancelPlan, CancelEffect, SetAt, taskVars
<1>3. ASSUME NEW u \in Tasks, LaunchTask(u) PROVE FALSE
  BY <1>3 DEF LaunchTask, TypeOK
<1>4. ASSUME NEW w \in workers, CommitSuccess(w) \/ CommitFailure(w)
      PROVE  FALSE
  BY <1>4 DEF CommitSuccess, CommitFailure, TypeOK
<1>5. ASSUME NEW w \in workers, BlockDependents(w) PROVE FALSE
  BY <1>5 DEF BlockDependents, SetAt
<1>6. ASSUME NEW u \in Tasks,
             RetryTask(u) \/ \E a \in Agents : ReassignTask(u, a)
      PROVE  FALSE
  BY <1>6 DEF RetryTask, ReassignTask, ResetTasks, SetAt
<1>7. CASE Restart
  BY <1>7 DEF Restart, SetAt
<1>8. CASE UNCHANGED status
  BY <1>8
<1>9. QED
  BY <1>1, <1>2, <1>3, <1>4, <1>5, <1>6, <1>7, <1>8
  DEF Next, RunnerStep, WorkerStep, UserStep, Execute, StartRun, CheckContext,
      CheckPlan, Pick, LaunchRefused, FinishPlan, FailPlan, ExitRun,
      ApprovePlan, CancelContext, Deadline, EndContext, WorkerReturn,
      DiscardResult, taskVars, vars

SupportInv == DependenciesFirst /\ ReadyIsSupported

LEMMA SupportStep ==
  ASSUME TypeOK, TaskInv, PickedIsOpen, SupportInv, [Next]_vars
  PROVE  SupportInv'
<1>1. ASSUME NEW t \in Tasks,
             \/ status'[t] \in {"in_progress", "completed", "ready"}
             \/ t \in picked'
      PROVE  Supported(t)'
  <2>1. CASE Supported(t)
    BY <2>1, SupportedStays
  <2>2. CASE ~Supported(t)
    <3>1. /\ status[t] \notin {"in_progress", "completed", "ready"}
          /\ t \notin picked
      BY <2>2 DEF SupportInv, DependenciesFirst, ReadyIsSupported, Supported
    <3>2. Unmoved(t) \/ Moved(t)
      BY <3>1, StepShape DEF NoneStarts, Started, Succeeded, TaskInv
    <3>3. t \notin picked'
      BY <3>1, PickStep, PickedShrinks
    <3>4. status'[t] = "ready"
      BY <1>1, <3>1, <3>2, <3>3 DEF Unmoved, Moved
    <3>5. t \in Promotable
      BY <3>1, <3>4, ReadyStep
    <3>6. QED
      BY <2>2, <3>5 DEF Promotable, Supported
  <2>3. QED
    BY <2>1, <2>2
<1>2. QED
  BY <1>1 DEF SupportInv, DependenciesFirst, ReadyIsSupported, Supported,
     DependenciesCompleted, ArtifactsSatisfied

-----------------------------------------------------------------------------
(* Approval *)

ApprovalInv == NoRunBeforeApproval /\ RunIsApproved

LEMMA ApprovalStep ==
  ASSUME TypeOK, LeaseIsCurrent, PickedIsOpen, ApprovalInv, [Next]_vars
  PROVE  ApprovalInv'
<1> SUFFICES ASSUME ApprovalRequired, ~approved'
    PROVE  /\ \A t \in Tasks : epoch'[t] = 0
           /\ runner' \in {"idle", "start", "exit"}
  BY DEF ApprovalInv, NoRunBeforeApproval, RunIsApproved
<1>1. ~approved
  BY DEF Next, RunnerStep, WorkerStep, UserStep, Execute, StartRun,
     CheckContext, CheckPlan, CancelOverBudget, Promote, Pick, LaunchTask,
     LaunchRefused, FinishPlan, FailPlan, ExitRun, WorkerReturn, CommitSuccess,
     CommitFailure, DiscardResult, BlockDependents, CancelPlan, CancelContext,
     Deadline, EndContext, RetryTask, ReassignTask, ApprovePlan, CancelEffect,
     Restart, planVars, vars
<1>2. /\ \A t \in Tasks : epoch[t] = 0
      /\ runner \in {"idle", "start", "exit"}
  BY <1>1 DEF ApprovalInv, NoRunBeforeApproval, RunIsApproved
<1>3. picked = {}
  BY <1>2 DEF PickedIsOpen
<1>4. \A t \in Tasks : epoch'[t] = epoch[t]
  BY <1>3, StepShape DEF NoneStarts, Unmoved, Moved, Started, Succeeded
<1>5. runner' \in {"idle", "start", "exit"}
  BY <1>1, <1>2 DEF Goto, Approved, Next, RunnerStep, WorkerStep, UserStep,
     Execute, StartRun, CheckContext, CheckPlan, CancelOverBudget, Promote,
     Pick, LaunchTask, LaunchRefused, FinishPlan, FailPlan, ExitRun,
     WorkerReturn, CommitSuccess, CommitFailure, DiscardResult,
     BlockDependents, CancelPlan, CancelContext, Deadline, EndContext,
     RetryTask, ReassignTask, ApprovePlan, Restart, runVars, vars
<1>6. QED
  BY <1>2, <1>4, <1>5

-----------------------------------------------------------------------------
(* The scheduling order *)

Below(S, t) == {u \in S : Position[u] < Position[t]}

LEMMA BelowIsFinite ==
  ASSUME NEW S \in SUBSET Tasks, NEW t \in Tasks
  PROVE  /\ IsFiniteSet(Below(S, t))
         /\ Cardinality(Below(S, t)) \in Nat
<1>1. Below(S, t) \in SUBSET Tasks /\ IsFiniteSet(Tasks)
  BY GraphAssumption DEF GraphAssumption, Below
<1>2. IsFiniteSet(Below(S, t))
  BY <1>1, FS_Subset
<1>3. QED
  BY <1>2, FS_CardinalityType

(* FirstOf(S, n) has at most n elements: their ranks are distinct. *)
LEMMA FirstOfSize ==
  ASSUME NEW S \in SUBSET Tasks, NEW n \in Nat
  PROVE  Cardinality(FirstOf(S, n)) <= n
<1> DEFINE rank == [t \in FirstOf(S, n) |-> Cardinality(Below(S, t))]
<1>1. \A t \in FirstOf(S, n) : t \in Tasks /\ t \in S /\ rank[t] \in 0..n-1
  BY BelowIsFinite DEF FirstOf, Below
<1>2. ASSUME NEW t \in FirstOf(S, n), NEW u \in FirstOf(S, n),
             Position[t] < Position[u]
      PROVE  rank[t] # rank[u]
  <2>1. t \in Tasks /\ u \in Tasks /\ t \in S
    BY <1>1
  <2>2. Position[t] \in Nat /\ Position[u] \in Nat /\ \A v \in Tasks : Position[v] \in Nat
    BY <2>1, GraphAssumption DEF GraphAssumption
  <2>3. Below(S, t) \in SUBSET Below(S, u)
    BY <1>2, <2>2 DEF Below
  <2>4. t \in Below(S, u) /\ t \notin Below(S, t)
    BY <1>2, <2>1, <2>2 DEF Below
  <2>5. IsFiniteSet(Below(S, u))
    BY <2>1, BelowIsFinite
  <2>6. Cardinality(Below(S, t)) = Cardinality(Below(S, u))
          => Below(S, u) = Below(S, t)
    BY <2>3, <2>5, FS_Subset
  <2>7. QED
    BY <2>4, <2>6
<1>3. rank \in Injection(FirstOf(S, n), 0..n-1)
  <2>1. rank \in [FirstOf(S, n) -> 0..n-1]
    BY <1>1
  <2>2. ASSUME NEW t \in FirstOf(S, n), NEW u \in FirstOf(S, n), rank[t] = rank[u]
        PROVE  t = u
    <3>1. t \in Tasks /\ u \in Tasks
      BY <1>1
    <3>2. ~(Position[t] < Position[u]) /\ ~(Position[u] < Position[t])
      BY <1>2, <2>2
    <3>3. Position[t] = Position[u]
      BY <3>1, <3>2, GraphAssumption DEF GraphAssumption
    <3>4. QED
      BY <3>1, <3>3, GraphAssumption DEF GraphAssumption
  <2>3. QED
    BY <2>1, <2>2 DEF Injection, IsInjective
<1>4. IsFiniteSet(0..n-1) /\ Cardinality(0..n-1) = n
  BY FS_Interval
<1>5. QED
  BY <1>3, <1>4, FS_Injection

(* Of a set of tasks that is not empty, a first one can be picked. *)
LEMMA FirstOfNonempty ==
  ASSUME NEW S \in SUBSET Tasks, S # {}, NEW n \in Nat \ {0}
  PROVE  FirstOf(S, n) # {}
<1> DEFINE places == {Position[t] : t \in S}
<1>1. places \subseteq Nat /\ places # {}
  BY GraphAssumption DEF GraphAssumption
<1>2. PICK p \in places : \A q \in places : ~(<<q, p>> \in OpToRel(<, Nat))
  BY <1>1, NatLessThanWellFounded, WFMin
<1>3. \A q \in places : ~(q < p)
  BY <1>1, <1>2 DEF OpToRel
<1>4. PICK t \in S : Position[t] = p
  OBVIOUS
<1>5. Below(S, t) = {}
  BY <1>3, <1>4 DEF Below
<1>6. t \in FirstOf(S, n)
  BY <1>4, <1>5, FS_EmptySet DEF FirstOf, Below
<1>7. QED
  BY <1>6

-----------------------------------------------------------------------------
(* The concurrency limit *)

LEMMA TaskSetsFinite ==
  ASSUME NEW S \in SUBSET Tasks
  PROVE  IsFiniteSet(S) /\ Cardinality(S) \in Nat
<1>1. IsFiniteSet(S)
  BY GraphAssumption, FS_Subset DEF GraphAssumption
<1>2. QED
  BY <1>1, FS_CardinalityType

(* The ready nodes fit into the slots that the tasks in progress leave. *)
LEMMA ReadyNodesFit ==
  Cardinality(InProgress \cup ReadyNodes) <= MaxConcurrent
    \/ ReadyNodes = {}
<1> DEFINE ready == {t \in Tasks : status[t] = "ready"}
           serial == ready \ Parallelizable
           busy == Cardinality(InProgress)
<1>1. busy \in Nat /\ MaxConcurrent \in Nat \ {0}
  BY TaskSetsFinite, LimitAssumption DEF LimitAssumption, InProgress
<1>2. CASE busy >= MaxConcurrent
  BY <1>2 DEF ReadyNodes
<1>3. CASE busy < MaxConcurrent
  <2>1. /\ serial \in SUBSET Tasks /\ ready \in SUBSET Tasks
        /\ 1 \in Nat /\ MaxConcurrent - busy \in Nat /\ 1 <= MaxConcurrent - busy
    BY <1>1, <1>3
  <2>2. Cardinality(FirstOf(serial, 1)) <= 1
    BY <2>1, FirstOfSize
  <2>3. Cardinality(FirstOf(ready, MaxConcurrent - busy)) <= MaxConcurrent - busy
    BY <2>1, FirstOfSize
  <2>4. /\ FirstOf(serial, 1) \in SUBSET Tasks
        /\ FirstOf(ready, MaxConcurrent - busy) \in SUBSET Tasks
    BY <2>1, FirstOfSubset
  <2>5. ReadyNodes = IF serial # {} THEN FirstOf(serial, 1)
                     ELSE FirstOf(ready, MaxConcurrent - busy)
    BY <1>1, <1>3 DEF ReadyNodes
  <2>6. ReadyNodes \in SUBSET Tasks
    BY <2>4, <2>5
  <2>7. /\ IsFiniteSet(ReadyNodes) /\ Cardinality(ReadyNodes) \in Nat
        /\ IsFiniteSet(InProgress)
        /\ Cardinality(InProgress \cap ReadyNodes) \in Nat
    <3>1. InProgress \in SUBSET Tasks /\ InProgress \cap ReadyNodes \in SUBSET Tasks
      BY <2>6 DEF InProgress
    <3>2. QED
      BY <2>6, <3>1, TaskSetsFinite
  <2>8. Cardinality(ReadyNodes) <= MaxConcurrent - busy
    <3>1. CASE serial # {}
      <4>1. Cardinality(ReadyNodes) <= 1
        BY <2>2, <2>5, <3>1
      <4>2. QED
        BY <1>1, <2>1, <2>7, <4>1
    <3>2. CASE serial = {}
      BY <2>3, <2>5, <3>2
    <3>3. QED
      BY <3>1, <3>2
  <2>9. Cardinality(InProgress \cup ReadyNodes)
          = busy + Cardinality(ReadyNodes) - Cardinality(InProgress \cap ReadyNodes)
    BY <2>7, FS_Union
  <2>10. QED
    BY <1>1, <2>7, <2>8, <2>9
<1>4. QED
  BY <1>1, <1>2, <1>3

(* A smaller set of tasks is within the limit as well. *)
LEMMA BoundedSubset ==
  ASSUME NEW S \in SUBSET Tasks, NEW T \in SUBSET S,
         Cardinality(S) <= MaxConcurrent
  PROVE  Cardinality(T) <= MaxConcurrent
<1>1. Cardinality(T) <= Cardinality(S) /\ T \in SUBSET Tasks
  BY TaskSetsFinite, FS_Subset
<1>2. QED
  BY <1>1, TaskSetsFinite, LimitAssumption DEF LimitAssumption

LEMMA BoundedStep ==
  ASSUME TypeOK, LeaseIsCurrent, PickedIsOpen, InProgressBounded, [Next]_vars
  PROVE  InProgressBounded'
<1>1. /\ InProgress \cup picked \in SUBSET Tasks
      /\ Cardinality(InProgress \cup picked) <= MaxConcurrent
  BY DEF TypeOK, InProgress, InProgressBounded
<1>2. CASE Pick
  <2>1. picked' = ReadyNodes /\ InProgress' = InProgress
    BY <1>2, PickStep DEF Pick, InProgress, taskVars
  <2>2. CASE ReadyNodes = {}
    <3>1. InProgress' \cup picked' \in SUBSET (InProgress \cup picked)
      BY <2>1, <2>2
    <3>2. QED
      BY <1>1, <3>1, BoundedSubset DEF InProgressBounded
  <2>3. CASE Cardinality(InProgress \cup ReadyNodes) <= MaxConcurrent
    BY <2>1, <2>3 DEF InProgressBounded
  <2>4. QED
    BY <2>2, <2>3, ReadyNodesFit
<1>3. CASE ~Pick
  <2>1. picked' \subseteq picked
    BY <1>3, PickedShrinks
  <2>2. InProgress' \subseteq InProgress \cup picked
    <3> SUFFICES ASSUME NEW t \in Tasks, status'[t] = "in_progress"
        PROVE  status[t] = "in_progress" \/ t \in picked
      BY DEF InProgress
    <3>1. QED
      BY StepShape DEF NoneStarts, Unmoved, Moved, Started, Succeeded
  <2>3. (InProgress' \cup picked') \in SUBSET (InProgress \cup picked)
    BY <2>1, <2>2
  <2>4. QED
    BY <1>1, <2>3, BoundedSubset DEF InProgressBounded
<1>4. QED
  BY <1>2, <1>3

-----------------------------------------------------------------------------
(* Plans that are over *)

QuietInv == TerminalPlanIsQuiet /\ RunnerIsDone

(* A runner that found nothing to run while nothing ran saw no ready task. *)
LEMMA NothingPickedNothingReady ==
  ASSUME ReadyNodes = {}, NoRunning
  PROVE  \A t \in Tasks : status[t] # "ready"
<1> DEFINE ready == {t \in Tasks : status[t] = "ready"}
           serial == ready \ Parallelizable
<1>1. Cardinality(InProgress) = 0 /\ MaxConcurrent \in Nat \ {0}
  BY FS_EmptySet, LimitAssumption DEF NoRunning, LimitAssumption
<1>2. ready \in SUBSET Tasks /\ serial \in SUBSET Tasks
  OBVIOUS
<1>3. MaxConcurrent - Cardinality(InProgress) \in Nat \ {0} /\ 1 \in Nat \ {0}
  BY <1>1
<1>4. ~(Cardinality(InProgress) >= MaxConcurrent)
  BY <1>1
<1>5. CASE serial # {}
  <2>1. ReadyNodes = FirstOf(serial, 1)
    BY <1>4, <1>5 DEF ReadyNodes
  <2>2. QED
    BY <1>2, <1>3, <1>5, <2>1, FirstOfNonempty
<1>6. CASE serial = {}
  <2>1. ReadyNodes = FirstOf(ready, MaxConcurrent - Cardinality(InProgress))
    BY <1>4, <1>6 DEF ReadyNodes
  <2>2. ready = {}
    BY <1>2, <1>3, <2>1, FirstOfNonempty
  <2>3. QED
    BY <2>2
<1>7. QED
  BY <1>5, <1>6

(* How the plan's status changes. *)
LEMMA PlanStep ==
  ASSUME [Next]_vars
  PROVE  \/ planStatus' \in {planStatus, "pending", "in_progress"}
         \/ /\ planStatus' \in {"completed", "failed"}
            /\ FinishPlan \/ FailPlan
         \/ planStatus' = "canceled" /\ CancelEffect
  BY DEF Next, RunnerStep, WorkerStep, UserStep, Execute, StartRun,
     CheckContext, CheckPlan, CancelOverBudget, Promote, Pick, LaunchTask,
     LaunchRefused, FinishPlan, FailPlan, ExitRun, WorkerReturn, CommitSuccess,
     CommitFailure, DiscardResult, BlockDependents, CancelPlan, CancelContext,
     Deadline, EndContext, RetryTask, ReassignTask, ApprovePlan, CancelEffect,
     Restart, planVars, vars

LEMMA RunnerIsDoneStep ==
  ASSUME TypeOK, RunnerIsDone, [Next]_vars
  PROVE  RunnerIsDone'
<1>1. ASSUME planStatus' \in {"completed", "failed"}
      PROVE  runner' \in {"idle", "exit"}
  <2>1. CASE FinishPlan \/ FailPlan
    BY <1>1, <2>1 DEF FinishPlan, FailPlan, Goto, RunnerIsDone
  <2>2. CASE ~(FinishPlan \/ FailPlan)
    <3>1. planStatus \in {"completed", "failed"} /\ runner \in {"idle", "exit"}
      BY <1>1, <2>2, PlanStep DEF RunnerIsDone, CancelEffect
    <3>2. QED
      BY <2>2, <3>1 DEF Goto, Next, RunnerStep, WorkerStep, UserStep, Execute,
         StartRun, CheckContext, CheckPlan, CancelOverBudget, Promote, Pick,
         LaunchTask, LaunchRefused, ExitRun, WorkerReturn, CommitSuccess,
         CommitFailure, DiscardResult, BlockDependents, CancelPlan,
         CancelContext, Deadline, EndContext, RetryTask, ReassignTask,
         ApprovePlan, Restart, runVars, vars
  <2>3. QED
    BY <2>1, <2>2
<1>2. ASSUME runner' = "fail", NEW t \in Tasks, status'[t] = "ready"
      PROVE  FALSE
  <2>1. CASE Pick
    <3>1. ReadyNodes = {} /\ NoRunning /\ status' = status
      BY <1>2, <2>1, PickStep DEF Pick, Goto, taskVars
    <3>2. QED
      BY <1>2, <3>1, NothingPickedNothingReady
  <2>2. CASE ~Pick
    <3>1. runner = "fail"
      BY <1>2, <2>2 DEF Goto, Next, RunnerStep, WorkerStep, UserStep, Execute,
         StartRun, CheckContext, CheckPlan, CancelOverBudget, Promote,
         LaunchTask, LaunchRefused, FinishPlan, FailPlan, ExitRun,
         WorkerReturn, CommitSuccess, CommitFailure, DiscardResult,
         BlockDependents, CancelPlan, CancelContext, Deadline, EndContext,
         RetryTask, ReassignTask, ApprovePlan, Restart, runVars, vars
    <3>2. Promote
      BY <1>2, <3>1, ReadyStep DEF RunnerIsDone
    <3>3. QED
      BY <3>1, <3>2 DEF Promote
  <2>3. QED
    BY <2>1, <2>2
<1>3. QED
  BY <1>1, <1>2 DEF RunnerIsDone

(* A canceled plan stays settled until a command reopens it. *)
LEMMA CanceledStep ==
  ASSUME TypeOK, LeaseIsCurrent, PickedIsOpen, [Next]_vars,
         planStatus = "canceled", planStatus' = "canceled",
         NEW t \in Tasks, status[t] \in {"completed", "failed", "canceled"},
         \A u \in Tasks : status[u] \in {"completed", "failed", "canceled"}
  PROVE  status'[t] = status[t]
<1>1. CASE UNCHANGED status
  BY <1>1
<1>2. CASE CancelOverBudget \/ CancelPlan \/ Promote
  BY <1>2 DEF CancelOverBudget, CancelPlan, Cancelable, Promote, taskVars
<1>3. ASSUME NEW u \in Tasks, RetryTask(u) \/ \E a \in Agents : ReassignTask(u, a)
      PROVE  FALSE
  BY <1>3 DEF RetryTask, ReassignTask
<1>4. ASSUME NEW w \in workers, CommitSuccess(w) \/ CommitFailure(w)
      PROVE  FALSE
  BY <1>4 DEF CommitSuccess, CommitFailure, ExecutionMatches, TypeOK, Workers
<1>5. ASSUME NEW w \in workers, BlockDependents(w)
      PROVE  status'[t] = status[t]
  BY <1>5 DEF BlockDependents, SetAt
<1>6. CASE Restart
  BY <1>6 DEF Restart
<1>7. QED
  BY <1>1, <1>2, <1>3, <1>4, <1>5, <1>6
  DEF Next, RunnerStep, WorkerStep, UserStep, Execute, StartRun, CheckContext,
      CheckPlan, Pick, LaunchTask, LaunchRefused, FinishPlan, FailPlan, ExitRun,
      ApprovePlan, CancelContext, Deadline, EndContext, WorkerReturn,
      DiscardResult, Command, taskVars, vars

LEMMA QuietStep ==
  ASSUME TypeOK, TaskInv, PickedIsOpen, QuietInv, [Next]_vars
  PROVE  QuietInv'
<1>1. RunnerIsDone'
  BY RunnerIsDoneStep DEF QuietInv
<1>2. ASSUME planStatus' \in {"completed", "failed"}, NEW t \in Tasks
      PROVE  /\ status'[t] \notin {"ready", "in_progress"}
             /\ planStatus' = "completed" => status'[t] = "completed"
  <2>1. CASE UNCHANGED planStatus
    <3>1. /\ status[t] \notin {"ready", "in_progress"}
          /\ planStatus' = "completed" => status[t] = "completed"
          /\ runner \in {"idle", "exit"} /\ picked = {}
      BY <1>2, <2>1 DEF QuietInv, TerminalPlanIsQuiet, RunnerIsDone, PickedIsOpen
    <3>2. status'[t] # "in_progress"
      BY <3>1, StepShape
      DEF TaskInv, NoneStarts, Unmoved, Moved, Started, Succeeded
    <3>3. status'[t] # "ready"
      BY <3>1, ReadyStep DEF Promote
    <3>4. QED
      BY <3>1, <3>2, <3>3, CompletedStep
  <2>2. CASE planStatus' # planStatus /\ FinishPlan
    <3>1. /\ AllTerminal /\ UNCHANGED status
          /\ planStatus' = "completed" => ~HasFailure
      BY <2>2 DEF FinishPlan, taskVars
    <3>2. QED
      BY <3>1 DEF AllTerminal, HasFailure, TypeOK, TaskStatuses
  <2>3. CASE planStatus' # planStatus /\ FailPlan
    <3>1. /\ runner = "fail" /\ NoRunning /\ UNCHANGED status
          /\ planStatus' = "failed"
      BY <2>3 DEF FailPlan, Stuck, taskVars
    <3>2. QED
      BY <3>1 DEF NoRunning, InProgress, QuietInv, RunnerIsDone
  <2>4. QED
    BY <1>2, <2>1, <2>2, <2>3, PlanStep
<1>3. ASSUME planStatus' = "canceled", NEW t \in Tasks
      PROVE  status'[t] \in {"completed", "failed", "canceled"}
  <2>1. CASE planStatus = "canceled"
    BY <1>3, <2>1, CanceledStep DEF TaskInv, QuietInv, TerminalPlanIsQuiet
  <2>2. CASE planStatus # "canceled"
    <3>1. CancelEffect
      BY <1>3, <2>2, PlanStep
    <3>2. QED
      BY <3>1 DEF CancelEffect, OpenTasks, SetAt, TypeOK, TaskStatuses
  <2>3. QED
    BY <2>1, <2>2
<1>4. QED
  BY <1>1, <1>2, <1>3 DEF QuietInv, TerminalPlanIsQuiet

(* While the runner is about to give up nothing starts, so nothing is completed. *)
LEMMA GivesUpStep ==
  ASSUME TypeOK, TaskInv, PickedIsOpen, GivesUpForACause, [Next]_vars
  PROVE  GivesUpForACause'
<1> SUFFICES ASSUME runner' = "fail"
    PROVE  InProgress' = {} /\ \E t \in Tasks : status'[t] # "completed"
  BY DEF GivesUpForACause, NoRunning
<1>1. CASE Pick
  <2>1. NoRunning /\ ~AllTerminal /\ status' = status
    BY <1>1 DEF Pick, Goto, taskVars
  <2>2. \E t \in Tasks : status[t] # "completed"
    BY <2>1 DEF AllTerminal
  <2>3. QED
    BY <2>1, <2>2 DEF NoRunning, InProgress
<1>2. CASE ~Pick
  <2>1. runner = "fail" /\ picked = {}
    BY <1>2 DEF PickedIsOpen, Goto, Next, RunnerStep, WorkerStep, UserStep, Execute,
       StartRun, CheckContext, CheckPlan, CancelOverBudget, Promote,
       LaunchTask, LaunchRefused, FinishPlan, FailPlan, ExitRun,
       WorkerReturn, CommitSuccess, CommitFailure, DiscardResult,
       BlockDependents, CancelPlan, CancelContext, Deadline, EndContext,
       RetryTask, ReassignTask, ApprovePlan, Restart, runVars, vars
  <2>2. NoneStarts
    BY <2>1, StepShape
    DEF TaskInv, GivesUpForACause, NoRunning, InProgress, Started, Succeeded
  <2>3. QED
    BY <2>1, <2>2 DEF GivesUpForACause, NoRunning, InProgress, NoneStarts, Unmoved, Moved
<1>3. QED
  BY <1>1, <1>2

-----------------------------------------------------------------------------
(* Running tasks have workers *)

Carries(v, w) == /\ v.task = w.task /\ v.exec = w.exec /\ v.owner = w.owner
                 /\ v.pc \in {"exec", "ok", "err"}

(* The worker that holds the lease of a task that stays in progress stays. *)
LEMMA WorkerStays ==
  ASSUME TypeOK, [Next]_vars, restarts' = restarts,
         NEW w \in workers, w.pc \in {"exec", "ok", "err"},
         ExecutionMatches(w), status'[w.task] = "in_progress"
  PROVE  \E v \in workers' : Carries(v, w)
<1>1. CASE w \in workers'
  BY <1>1 DEF Carries
<1>2. CASE workers' = {[v EXCEPT !.live = FALSE] : v \in workers}
  <2>1. [w EXCEPT !.live = FALSE] \in workers'
    BY <1>2
  <2>2. Carries([w EXCEPT !.live = FALSE], w)
    BY DEF Carries, TypeOK, Workers
  <2>3. QED
    BY <2>1, <2>2
<1>3. ASSUME NEW x \in workers, WorkerReturn(x)
      PROVE  \E v \in workers' : Carries(v, w)
  <2>1. CASE x = w
    <3>1. PICK outcome \in Outcomes(w) :
            workers' = (workers \ {w}) \cup {[w EXCEPT !.pc = outcome]}
      BY <1>3, <2>1 DEF WorkerReturn
    <3>2. outcome \in {"ok", "err"}
      BY <3>1 DEF Outcomes
    <3>3. Carries([w EXCEPT !.pc = outcome], w)
      BY <3>2 DEF Carries, TypeOK, Workers
    <3>4. QED
      BY <3>1, <3>3
  <2>2. CASE x # w
    BY <1>1, <1>3, <2>2 DEF WorkerReturn
  <2>3. QED
    BY <2>1, <2>2
<1>4. ASSUME NEW x \in workers, CommitSuccess(x) \/ CommitFailure(x)
      PROVE  w \in workers'
  <2>1. x.task \in Tasks
    BY DEF TypeOK, Workers
  <2>2. x # w
    BY <1>4, <2>1 DEF CommitSuccess, CommitFailure, TypeOK
  <2>3. QED
    BY <1>4, <2>2 DEF CommitSuccess, CommitFailure
<1>5. ASSUME NEW x \in workers, DiscardResult(x) \/ BlockDependents(x)
      PROVE  w \in workers'
  BY <1>5 DEF DiscardResult, BlockDependents
<1>6. ASSUME NEW t \in Tasks, LaunchTask(t) PROVE w \in workers'
  BY <1>6 DEF LaunchTask
<1>7. CASE Restart
  BY <1>7 DEF Restart, TypeOK
<1>8. QED
  BY <1>1, <1>2, <1>3, <1>4, <1>5, <1>6, <1>7
  DEF Next, RunnerStep, WorkerStep, UserStep, Execute, StartRun, CheckContext,
      CheckPlan, CancelOverBudget, Promote, Pick, LaunchRefused, FinishPlan,
      FailPlan, ExitRun, CancelPlan, CancelContext, Deadline, EndContext,
      RetryTask, ReassignTask, ApprovePlan, vars

(* Crashes are counted. *)
LEMMA RestartsStep ==
  ASSUME TypeOK, [Next]_vars
  PROVE  restarts' = restarts \/ restarts' = restarts + 1
  BY DEF Next, RunnerStep, WorkerStep, UserStep, Execute, StartRun,
     CheckContext, CheckPlan, CancelOverBudget, Promote, Pick, LaunchTask,
     LaunchRefused, FinishPlan, FailPlan, ExitRun, WorkerReturn, CommitSuccess,
     CommitFailure, DiscardResult, BlockDependents, CancelPlan, CancelContext,
     Deadline, EndContext, RetryTask, ReassignTask, ApprovePlan, Restart, vars

LEMMA HasWorkerStep ==
  ASSUME TypeOK, LeaseIsCurrent, PickedIsOpen, InProgressHasWorker, [Next]_vars
  PROVE  InProgressHasWorker'
<1> SUFFICES ASSUME restarts' = 0, NEW t \in Tasks, status'[t] = "in_progress"
    PROVE  \E v \in workers' : /\ v.task = t /\ v.pc \in {"exec", "ok", "err"}
                               /\ execution'[t] = v.exec
                               /\ owner'[t] = v.owner /\ assigned'[t] = v.owner
  BY DEF InProgressHasWorker, InProgress, ExecutionMatches
<1>1. restarts = 0 /\ restarts' = restarts
  BY RestartsStep DEF TypeOK
<1>2. CASE Unmoved(t)
  <2>1. PICK w \in workers : /\ w.task = t /\ w.pc \in {"exec", "ok", "err"}
                             /\ ExecutionMatches(w)
    BY <1>1, <1>2 DEF InProgressHasWorker, InProgress, Unmoved
  <2>2. PICK v \in workers' : Carries(v, w)
    BY <1>1, <2>1, WorkerStays
  <2>3. QED
    BY <1>2, <2>1, <2>2 DEF Carries, ExecutionMatches, Unmoved
<1>3. CASE Started(t)
  <2> DEFINE v == [task |-> t, exec |-> epoch[t] + 1, owner |-> assigned[t],
                   live |-> ctx = "live", pc |-> "exec"]
  <2>1. v \in workers'
    BY <1>3 DEF Started, LaunchTask
  <2>2. /\ execution'[t] = epoch[t] + 1
        /\ owner'[t] = assigned[t] /\ assigned'[t] = assigned[t]
    BY <1>3 DEF Started
  <2>3. QED
    BY <2>1, <2>2
<1>4. QED
  BY <1>2, <1>3, StepShape DEF NoneStarts, Moved, Succeeded

-----------------------------------------------------------------------------
(* The inductive invariant *)

LEMMA IInvInit == Init => IInv
<1> SUFFICES ASSUME Init PROVE IInv
  OBVIOUS
<1>1. TypeOK
  BY InitTypes
<1>2. InProgress = {} /\ picked = {}
  BY DEF Init, InProgress
<1>3. InProgressBounded
  BY <1>2, FS_EmptySet, LimitAssumption DEF InProgressBounded, LimitAssumption
<1>4. /\ LeaseIsCurrent /\ ResultFromLatestAttempt /\ OutputsStored
      /\ DependenciesFirst
  BY DEF Init, LeaseIsCurrent, ResultFromLatestAttempt, OutputsStored,
     DependenciesFirst
<1>5. ReadyIsSupported
  BY DEF Init, ReadyIsSupported, DependenciesCompleted, ArtifactsSatisfied
<1>6. /\ PickedIsOpen /\ NoRunBeforeApproval /\ RunIsApproved
      /\ TerminalPlanIsQuiet /\ RunnerIsDone
  BY DEF Init, PickedIsOpen, NoRunBeforeApproval, RunIsApproved,
     TerminalPlanIsQuiet, RunnerIsDone
<1>7. InProgressHasWorker /\ GivesUpForACause
  BY <1>2 DEF InProgressHasWorker, GivesUpForACause, Init
<1>8. QED
  BY <1>1, <1>3, <1>4, <1>5, <1>6, <1>7 DEF IInv

LEMMA IInvStep == IInv /\ [Next]_vars => IInv'
<1> SUFFICES ASSUME IInv, [Next]_vars PROVE IInv'
  OBVIOUS
<1>1. /\ TypeOK /\ TaskInv /\ SupportInv /\ PickedIsOpen /\ ApprovalInv
      /\ QuietInv /\ InProgressBounded /\ InProgressHasWorker /\ LeaseIsCurrent
      /\ GivesUpForACause
  BY DEF IInv, TaskInv, SupportInv, ApprovalInv, QuietInv
<1>2. TypeOK'
  BY <1>1, TypeStep
<1>3. TaskInv' /\ PickedIsOpen' /\ SupportInv'
  BY <1>1, TaskInvStep, PickedIsOpenStep, SupportStep
<1>4. ApprovalInv' /\ QuietInv'
  BY <1>1, ApprovalStep, QuietStep
<1>5. InProgressBounded' /\ InProgressHasWorker' /\ GivesUpForACause'
  BY <1>1, BoundedStep, HasWorkerStep, GivesUpStep DEF TaskInv
<1>6. QED
  BY <1>2, <1>3, <1>4, <1>5 DEF IInv, TaskInv, SupportInv, ApprovalInv, QuietInv

(* The inductive invariant holds in every behaviour. *)
THEOREM InductiveInvariant == Spec => []IInv
  BY IInvInit, IInvStep, PTL DEF Spec

(* A task runs, or has completed, only on top of completed dependencies and   *)
(* present artifacts, whatever retries, reassignments, cancellations and     *)
(* crashes happen between promotion, picking and the start of the attempt.   *)
THEOREM DependenciesComeFirst == Spec => []DependenciesFirst
<1>1. IInv => DependenciesFirst
  BY DEF IInv
<1>2. QED
  BY <1>1, InductiveInvariant, PTL

(* The lease of a running task names its latest attempt and its agent of now, *)
(* so no superseded attempt passes executionMatches.                         *)
THEOREM LeasesAreCurrent == Spec => []LeaseIsCurrent
<1>1. IInv => LeaseIsCurrent
  BY DEF IInv
<1>2. QED
  BY <1>1, InductiveInvariant, PTL

(* The stored result of a completed task is that of its latest attempt, and   *)
(* no other task has one.                                                    *)
THEOREM ResultsAreFromLatestAttempts == Spec => []ResultFromLatestAttempt
<1>1. IInv => ResultFromLatestAttempt
  BY DEF IInv
<1>2. QED
  BY <1>1, InductiveInvariant, PTL

(* maxConcurrent is respected by the tasks in progress together with those    *)
(* the runner has picked from a stale snapshot.                              *)
THEOREM ConcurrencyIsBounded == Spec => []InProgressBounded
<1>1. IInv => InProgressBounded
  BY DEF IInv
<1>2. QED
  BY <1>1, InductiveInvariant, PTL

(* A completed, failed or canceled plan has nothing running or startable. *)
THEOREM TerminalPlansAreQuiet == Spec => []TerminalPlanIsQuiet
<1>1. IInv => TerminalPlanIsQuiet
  BY DEF IInv
<1>2. QED
  BY <1>1, InductiveInvariant, PTL

(* Nothing is attempted before the approval a plan requires. *)
THEOREM NothingRunsUnapproved == Spec => []NoRunBeforeApproval
<1>1. IInv => NoRunBeforeApproval
  BY DEF IInv
<1>2. QED
  BY <1>1, InductiveInvariant, PTL

(* Until a crash, every task in progress has a worker that holds its lease. *)
THEOREM RunningTasksHaveWorkers == Spec => []InProgressHasWorker
<1>1. IInv => InProgressHasWorker
  BY DEF IInv
<1>2. QED
  BY <1>1, InductiveInvariant, PTL

(* Completed tasks keep their status, result and artifacts in every step. *)
THEOREM CompletedTasksAreFinal == Spec => CompletedIsFinal
<1>1. ASSUME IInv, [Next]_vars
      PROVE  [\A t \in Tasks : status[t] = "completed" =>
                status'[t] = "completed" /\ result'[t] = result[t]
                /\ Outputs[t] \subseteq artifacts']_vars
  BY <1>1, CompletedStep DEF IInv, TaskInv
<1>2. QED
  BY <1>1, InductiveInvariant, PTL DEF Spec, CompletedIsFinal

-----------------------------------------------------------------------------
(* Failed plans *)

(* Where nothing runs, nothing is ready and nothing can be promoted, something *)
(* failed: the pending tasks would be a set that waits for itself.            *)
LEMMA StuckHasFailure ==
  ASSUME Feasible, IInv, runner = "fail", Stuck
  PROVE  HasFailure
<1> SUFFICES ASSUME ~HasFailure PROVE FALSE
  OBVIOUS
<1> DEFINE waiting == {t \in Tasks : status[t] # "completed"}
<1>1. \A t \in waiting : status[t] = "pending"
  BY DEF IInv, TypeOK, TaskStatuses, Stuck, NoRunning, InProgress, HasFailure, RunnerIsDone
<1>2. waiting # {}
  BY DEF IInv, GivesUpForACause
<1>3. PICK t \in waiting : /\ Deps[t] \cap waiting = {}
                          /\ Requires[t] \subseteq UNION {Outputs[p] : p \in Tasks \ waiting}
  <2>1. waiting \in SUBSET Tasks
    OBVIOUS
  <2> HIDE DEF waiting
  <2>2. QED
    BY <1>2, <2>1 DEF Feasible
<1>4. DependenciesCompleted(t)
  BY <1>3, GraphAssumption DEF GraphAssumption, DependenciesCompleted
<1>5. ArtifactsSatisfied(t)
  BY <1>3 DEF IInv, OutputsStored, ArtifactsSatisfied
<1>6. t \in Promotable
  BY <1>1, <1>4, <1>5 DEF Promotable
<1>7. QED
  BY <1>6 DEF Stuck

LEMMA FailureStep ==
  ASSUME Feasible, IInv, FailedPlanHasCause, [Next]_vars
  PROVE  FailedPlanHasCause'
<1> SUFFICES ASSUME planStatus' = "failed" PROVE HasFailure'
  BY DEF FailedPlanHasCause
<1>1. CASE FinishPlan /\ planStatus # "failed"
  BY <1>1 DEF FinishPlan, HasFailure, taskVars
<1>2. CASE FailPlan /\ planStatus # "failed"
  <2>1. HasFailure
    BY <1>2, StuckHasFailure DEF FailPlan
  <2>2. QED
    BY <1>2, <2>1 DEF FailPlan, HasFailure, taskVars
<1>3. CASE planStatus = "failed"
  <2>1. PICK t \in Tasks : status[t] \in {"failed", "blocked", "canceled"}
    BY <1>3 DEF FailedPlanHasCause, HasFailure
  <2>2. /\ runner \in {"idle", "exit"}
        /\ \A u \in Tasks : status[u] \notin {"ready", "in_progress"}
    BY <1>3 DEF IInv, RunnerIsDone, TerminalPlanIsQuiet
  <2>3. CASE UNCHANGED status
    BY <2>1, <2>3 DEF HasFailure
  <2>4. CASE CancelOverBudget \/ CancelPlan \/ Promote \/ \E u \in Tasks : LaunchTask(u)
    BY <1>3, <2>2, <2>4 DEF CancelOverBudget, CancelPlan, Cancelable, Promote, LaunchTask
  <2>5. ASSUME NEW u \in Tasks, RetryTask(u) \/ \E a \in Agents : ReassignTask(u, a)
        PROVE  FALSE
    BY <2>5 DEF RetryTask, ReassignTask
  <2>6. ASSUME NEW w \in workers, CommitSuccess(w) \/ CommitFailure(w)
        PROVE  FALSE
    BY <2>2, <2>6 DEF CommitSuccess, CommitFailure, ExecutionMatches, IInv, TypeOK, Workers
  <2>7. ASSUME NEW w \in workers, BlockDependents(w) PROVE HasFailure'
    BY <2>1, <2>7 DEF BlockDependents, SetAt, HasFailure
  <2>8. CASE Restart
    BY <1>3, <2>1, <2>8 DEF Restart, HasFailure
  <2>9. QED
    BY <2>3, <2>4, <2>5, <2>6, <2>7, <2>8
    DEF Next, RunnerStep, WorkerStep, UserStep, Execute, StartRun, CheckContext,
        CheckPlan, Pick, LaunchRefused, FinishPlan, FailPlan, ExitRun,
        ApprovePlan, CancelContext, Deadline, EndContext, WorkerReturn,
        DiscardResult, taskVars, vars
<1>4. QED
  BY <1>1, <1>2, <1>3, PlanStep

(* A plan whose tasks can be carried out in some order fails only with a task *)
(* that failed, was blocked or canceled: there is something to retry, and the  *)
(* runner never gives up on a plan that could go on (executePlan, failPlan).  *)
THEOREM FailedPlansHaveACause == ASSUME Feasible PROVE Spec => []FailedPlanHasCause
<1>1. Init => FailedPlanHasCause
  BY DEF Init, FailedPlanHasCause
<1>2. IInv /\ FailedPlanHasCause /\ [Next]_vars => FailedPlanHasCause'
  BY FailureStep
<1>3. QED
  BY <1>1, <1>2, InductiveInvariant, PTL DEF Spec

-----------------------------------------------------------------------------
(* The refinement of DagExecution *)

LEMMA AbstractInit == Init => Abstract!Init
<1> SUFFICES ASSUME Init PROVE Abstract!Init
  OBVIOUS
<1>1. \A t \in Tasks : Phase(t) = "todo"
  BY DEF Init, Phase
<1>2. QED
  BY <1>1 DEF Init, Abstract!Init

LEMMA PhaseNames ==
  ASSUME NEW t \in Tasks
  PROVE  /\ Phase(t) = "running" <=> status[t] = "in_progress"
         /\ Phase(t) = "done" <=> status[t] = "completed"
         /\ Phase(t) \in {"todo", "running", "done"}
  BY DEF Phase

LEMMA PhaseNamesNext ==
  ASSUME NEW t \in Tasks
  PROVE  /\ Phase(t)' = "running" <=> status'[t] = "in_progress"
         /\ Phase(t)' = "done" <=> status'[t] = "completed"
         /\ Phase(t)' \in {"todo", "running", "done"}
  BY DEF Phase

(* Every step starts one task, finishes one, or gives up those that stop     *)
(* running - none of them in most steps.                                     *)
LEMMA AbstractStep ==
  ASSUME IInv, [Next]_vars PROVE [Abstract!Next]_(Abstract!vars)
<1>1. /\ TypeOK /\ TypeOK' /\ TaskInv /\ LeaseIsCurrent
      /\ ResultFromLatestAttempt /\ PickedIsOpen /\ ReadyIsSupported
  BY IInvStep DEF IInv, TaskInv
<1>2. CASE NoneStarts
  <2> DEFINE S == {t \in Tasks : status[t] = "in_progress"
                                  /\ status'[t] # "in_progress"}
  <2>1. \A t \in Tasks : epoch'[t] = epoch[t] /\ result'[t] = result[t]
    BY <1>1, <1>2 DEF NoneStarts, Unmoved, Moved, ResultFromLatestAttempt
  <2>2. epoch' = epoch /\ result' = result
    BY <1>1, <2>1 DEF TypeOK
  <2>3. \A t \in Tasks : Phase(t)' = IF t \in S THEN "todo" ELSE Phase(t)
    <3> SUFFICES ASSUME NEW t \in Tasks
        PROVE  Phase(t)' = IF t \in S THEN "todo" ELSE Phase(t)
      OBVIOUS
    <3>1. Unmoved(t) \/ Moved(t)
      BY <1>2 DEF NoneStarts
    <3>2. QED
      BY <3>1, PhaseNames, PhaseNamesNext DEF Unmoved, Moved
  <2>4. S \in SUBSET Tasks /\ \A t \in S : Phase(t) = "running"
    BY PhaseNames
  <2>5. Abstract!GiveUp(S)
    BY <2>2, <2>3, <2>4 DEF Abstract!GiveUp
  <2>6. QED
    BY <2>4, <2>5 DEF Abstract!Next
<1>3. ASSUME NEW t \in Tasks, Started(t), \A u \in Tasks \ {t} : Unmoved(u)
      PROVE  Abstract!Next
  <2>1. epoch' = [epoch EXCEPT ![t] = @ + 1] /\ result' = result
    BY <1>3 DEF Started, LaunchTask
  <2>2. \A u \in Tasks : Phase(u)' = IF u = t THEN "running" ELSE Phase(u)
    BY <1>3, PhaseNames, PhaseNamesNext DEF Started, Unmoved
  <2>3. Phase(t) = "todo"
    BY <1>1, <1>3, PhaseNames DEF Started, PickedIsOpen
  <2>4. \A d \in Deps[t] : d \in Tasks /\ Phase(d) = "done"
    <3>1. \A d \in Deps[t] : d \in Tasks
      BY GraphAssumption DEF GraphAssumption
    <3>2. \A d \in Deps[t] : status[d] = "completed"
      BY <1>1, <1>3 DEF Started, ReadyIsSupported, DependenciesCompleted
    <3>3. QED
      BY <3>1, <3>2, PhaseNames
  <2>5. Abstract!Start(t)
    BY <2>1, <2>2, <2>3, <2>4 DEF Abstract!Start
  <2>6. QED
    BY <2>5 DEF Abstract!Next
<1>4. ASSUME NEW t \in Tasks, Succeeded(t), \A u \in Tasks \ {t} : Unmoved(u)
      PROVE  Abstract!Next
  <2>1. /\ \A u \in Tasks : epoch'[u] = epoch[u]
        /\ \A u \in Tasks : result'[u] = IF u = t THEN epoch[t] ELSE result[u]
    BY <1>1, <1>4 DEF Succeeded, Unmoved, LeaseIsCurrent
  <2>2. epoch' = epoch /\ result' = [result EXCEPT ![t] = epoch[t]]
    BY <1>1, <2>1 DEF TypeOK
  <2>3. \A u \in Tasks : Phase(u)' = IF u = t THEN "done" ELSE Phase(u)
    BY <1>4, PhaseNames, PhaseNamesNext DEF Succeeded, Unmoved
  <2>4. Phase(t) = "running"
    BY <1>4, PhaseNames DEF Succeeded
  <2>5. Abstract!Finish(t)
    BY <2>2, <2>3, <2>4 DEF Abstract!Finish
  <2>6. QED
    BY <2>5 DEF Abstract!Next
<1>5. QED
  BY <1>1, <1>2, <1>3, <1>4, StepShape

(* The scheduler, with its runner, workers, leases, commands and crashes,     *)
(* implements DagExecution: attempts start on finished dependencies, one at   *)
(* a time per task, and only the current one records an outcome, once.       *)
THEOREM SchedulerImplementsDag == Spec => ImplementsDag
<1>1. IInv /\ [Next]_vars => [Abstract!Next]_(Abstract!vars)
  BY AbstractStep
<1>2. QED
  BY <1>1, AbstractInit, InductiveInvariant, PTL
  DEF Spec, ImplementsDag, Abstract!Spec

-----------------------------------------------------------------------------
(* The repository tasks: what a task holds, and what a workspace is          *)

Filling == {"git", "archive", "finish"}
Fields == {"git", "config", "marker", "tree", "files"}
Names == 1..(MaxWorkspaces + Cardinality(Task))

\* The workspace a task fills or has prepared.
Held(t) == IF pc[t] = "done" THEN {prepared[t].workspace}
           ELSE IF pc[t] \in Filling THEN {place[t]} ELSE {}

\* A workspace with a candidate of the task, at the commit it asked for.
IsClone(t, w) ==
    /\ w.git \in {"full", "none"}
    /\ w.marker.repo \in Candidates(t)
    /\ w.marker.commit \in {w.tree, NoCommit}
    /\ Pinned(t) => w.marker.commit = Revision(request[t])

TaskOK(t) ==
    /\ queue[t] \in Seq(Candidates(t))
    /\ pc[t] \in {"discover", "done", "failed"} => queue[t] = <<>>
    /\ pc[t] \in {"git", "archive"} => queue[t] # <<>>
    /\ pc[t] = "local" => cached[t].repo \in Candidates(t)
    /\ pc[t] \notin Filling => place[t] = NoWorkspace
    /\ Held(t) \subseteq DOMAIN workspaces
    /\ pc[t] \in Filling => workspaces[place[t]].files = {}
    /\ pc[t] = "finish" => IsClone(t, workspaces[place[t]])
    /\ pc[t] = "done" => LET w == workspaces[prepared[t].workspace]
                         IN  /\ IsClone(t, w) /\ w.files \subseteq {t}
                             /\ prepared[t].repo = w.marker.repo
                             /\ prepared[t].commit = w.marker.commit

Locals ==
    /\ request \in Requests
    /\ pc \in [Task -> Working \cup {"done", "failed"}]
    /\ discovered \in [Task -> Seq(Repo)]
    /\ DOMAIN selected = Task /\ DOMAIN queue = Task /\ DOMAIN cached = Task
    /\ DOMAIN place = Task /\ DOMAIN tries = Task /\ DOMAIN expired = Task /\ DOMAIN prepared = Task

Directory ==
    /\ DOMAIN workspaces \subseteq Names
    /\ Cardinality(DOMAIN workspaces) <= MaxWorkspaces
    /\ \A w \in DOMAIN workspaces : DOMAIN workspaces[w] = Fields

Exclusive == \A t, u \in Task : t # u => Held(t) \cap Held(u) = {}

RepositoryInv == Locals /\ Directory /\ Exclusive /\ \A t \in Task : TaskOK(t)

-----------------------------------------------------------------------------
(* Lists of candidates                                                       *)

(* A list without gaps of members of a set. *)
LEMMA ListShape ==
    ASSUME NEW C, NEW n \in Nat, NEW S, NEW list \in [1..n -> S], \A i \in 1..n : list[i] \in C
    PROVE  list \in Seq(C)
<1>1. list \in [1..n -> C]
  OBVIOUS
<1> QED
  BY <1>1, SeqDef

LEMMA ListedShape ==
    ASSUME NEW S, NEW mentions \in Seq(S), NEW list \in Listed(mentions)
    PROVE  list \in Seq(ToSet(list))
<1> DEFINE repos == ToSet(mentions)
           size == IF Cardinality(repos) < MaxCandidates THEN Cardinality(repos) ELSE MaxCandidates
<1>1. IsFiniteSet(repos)
  <2>1. Len(mentions) \in Nat /\ DOMAIN mentions = 1..Len(mentions)
    OBVIOUS
  <2>2. IsFiniteSet(DOMAIN mentions)
    BY <2>1, FS_Interval
  <2>3. mentions \in Surjection(DOMAIN mentions, repos)
    BY <2>1 DEF ToSet, Surjection
  <2> HIDE DEF repos
  <2> QED
    BY <2>2, <2>3, FS_Surjection
<1>2. size \in Nat
  BY <1>1, FS_CardinalityType, RepositoryAssumption
<1>3. list \in [1..size -> repos]
  BY DEF Listed
<1> HIDE DEF size, repos
<1>4. \A i \in 1..size : list[i] \in ToSet(list)
  BY <1>3 DEF ToSet
<1> QED
  BY <1>2, <1>3, <1>4, ListShape

(* A cached clone is of a repository of the list. *)
LEMMA CachedShape ==
    ASSUME NEW t, NEW S, NEW list \in Seq(S), NEW clone \in Cached(t, list)
    PROVE  clone.repo \in ToSet(list)
<1> DEFINE with == {i \in DOMAIN list : CachedFor(t, list[i]) # {}}
           first == CHOOSE i \in with : \A j \in with : i <= j
<1>1. with # {} /\ clone \in [workspace : CachedFor(t, list[first]), repo : {list[first]}]
  BY DEF Cached
<1>2. with \in SUBSET Nat
  OBVIOUS
<1>3. first \in with
  <2>1. PICK x \in with : \A y \in with : ~(<<y, x>> \in OpToRel(<, Nat))
    BY <1>1, <1>2, NatLessThanWellFounded, WFMin
  <2>2. \A y \in with : ~(y < x)
    BY <1>2, <2>1 DEF OpToRel
  <2>3. \A y \in with : x =< y
    BY <1>2, <2>2
  <2> HIDE DEF with
  <2> QED
    BY <2>3
<1>4. first \in DOMAIN list /\ clone.repo = list[first]
  BY <1>1, <1>3
<1> QED
  BY <1>4 DEF ToSet

(* What the discovery publishes are lists of repositories. *)
LEMMA RankingsShape ==
    ASSUME NEW r, NEW ranked \in Rankings(r)
    PROVE  ranked \in Seq(Repo)
<1>1. ASSUME NEW order \in Orders(Repo) PROVE order \in Seq(Repo)
  <2>1. PICK T \in SUBSET Repo : order \in SetToSeqs(T)
    BY DEF Orders
  <2>2. Cardinality(T) \in Nat
    BY RepositoryAssumption, FS_Subset, FS_CardinalityType
  <2>3. order \in [1..Cardinality(T) -> T]
    BY <2>1 DEF SetToSeqs
  <2> QED
    BY <2>2, <2>3, ListShape
<1>2. Known(r) \in Seq(Repo)
  BY RepositoryAssumption DEF Known
<1> QED
  BY <1>1, <1>2 DEF Rankings, Papers, GitHubSearch

(* A list of the candidates of a task. *)
LEMMA CandidateList ==
    ASSUME NEW t \in Task, discovered[t] \in Seq(Repo), NEW list \in Listed(Mentions(t))
    PROVE  list \in Seq(Candidates(t)) /\ ToSet(list) \subseteq Candidates(t)
<1>1. Mentions(t) \in Seq(Repo \cup {selected[t]})
  <2> DEFINE S == Repo \cup {selected[t]}
  <2>1. <<selected[t]>> \in Seq(S) /\ discovered[t] \in Seq(S)
    OBVIOUS
  <2>2. Known(request[t]) \in Seq(S)
    <3>1. <<Curated>> \in Seq(S) /\ <<>> \in Seq(S)
      BY RepositoryAssumption
    <3> HIDE DEF S
    <3> QED
      BY <3>1 DEF Known
  <2> HIDE DEF S
  <2>3. <<selected[t]>> \o Known(request[t]) \in Seq(S)
    BY <2>1, <2>2
  <2>4. Mentions(t) \in Seq(S)
    BY <2>1, <2>3 DEF Mentions
  <2> QED
    BY <2>4 DEF S
<1>2. list \in Seq(ToSet(list))
  BY <1>1, ListedShape
<1>3. ToSet(list) \subseteq Candidates(t)
  BY DEF Candidates
<1> QED
  BY <1>2, <1>3

-----------------------------------------------------------------------------
(* The directory of workspaces                                               *)

LEMMA NamesAreFinite ==
    /\ IsFiniteSet(Names) /\ Cardinality(Names) = MaxWorkspaces + Cardinality(Task)
    /\ Cardinality(Task) \in Nat /\ MaxWorkspaces \in Nat
<1>1. Cardinality(Task) \in Nat /\ MaxWorkspaces \in Nat
  BY RepositoryAssumption, FS_CardinalityType
<1>2. IsFiniteSet(Names) /\ Cardinality(Names) = MaxWorkspaces + Cardinality(Task)
  <2> DEFINE n == MaxWorkspaces + Cardinality(Task)
  <2>1. n \in Nat
    BY <1>1
  <2>2. Names = 1..n
    BY DEF Names
  <2> HIDE DEF n
  <2>3. IsFiniteSet(1..n) /\ Cardinality(1..n) = n
    <3>1. IsFiniteSet(1..n) /\ Cardinality(1..n) = IF 1 > n THEN 0 ELSE n - 1 + 1
      BY <2>1, FS_Interval
    <3> QED
      BY <2>1, <3>1
  <2> QED
    BY <2>2, <2>3 DEF n
<1> QED
  BY <1>1, <1>2

(* As long as the directory is not full there is a name that is not used: the workspaces
   and those that are being cloned from are fewer than the names. *)
LEMMA NewIsFree ==
    ASSUME Directory, ~Full
    PROVE  New \in Names /\ New \notin DOMAIN workspaces
<1> DEFINE chosen == {cached[u].workspace : u \in Task}
           used == DOMAIN workspaces \cup chosen
<1>1. IsFiniteSet(DOMAIN workspaces) /\ Cardinality(DOMAIN workspaces) \in Nat
      /\ Cardinality(DOMAIN workspaces) < MaxWorkspaces
  <2>1. IsFiniteSet(DOMAIN workspaces)
    BY NamesAreFinite, FS_Subset DEF Directory
  <2>2. Cardinality(DOMAIN workspaces) \in Nat
    BY <2>1, FS_CardinalityType
  <2> QED
    BY <2>1, <2>2, NamesAreFinite DEF Directory, Full
<1>2. IsFiniteSet(chosen) /\ Cardinality(chosen) \in Nat /\ Cardinality(chosen) <= Cardinality(Task)
  <2> DEFINE choice == [u \in Task |-> cached[u].workspace]
  <2>1. choice \in Surjection(Task, chosen)
    BY DEF Surjection
  <2> HIDE DEF choice, chosen
  <2>2. IsFiniteSet(chosen) /\ Cardinality(chosen) <= Cardinality(Task)
    BY <2>1, FS_Surjection, RepositoryAssumption
  <2> QED
    BY <2>2, FS_CardinalityType
<1>3. IsFiniteSet(used) /\ Cardinality(used) < Cardinality(Names)
  <2> HIDE DEF chosen
  <2>1. /\ IsFiniteSet(used)
        /\ Cardinality(used) = Cardinality(DOMAIN workspaces) + Cardinality(chosen)
                               - Cardinality(DOMAIN workspaces \cap chosen)
    BY <1>1, <1>2, FS_Union
  <2>2. Cardinality(DOMAIN workspaces \cap chosen) \in Nat
    BY <1>1, FS_Subset, FS_CardinalityType
  <2> HIDE DEF used
  <2> QED
    BY <1>1, <1>2, <2>1, <2>2, NamesAreFinite
<1>4. \E w \in Names : w \notin used
  <2> SUFFICES ASSUME Names \subseteq used PROVE FALSE
    OBVIOUS
  <2> HIDE DEF used
  <2>1. Cardinality(Names) <= Cardinality(used)
    BY <1>3, FS_Subset
  <2>2. Cardinality(used) \in Nat /\ Cardinality(Names) \in Nat
    BY <1>3, NamesAreFinite, FS_CardinalityType
  <2> QED
    BY <1>3, <2>1, <2>2
<1>5. New = CHOOSE w \in Names : w \notin used
  BY DEF New, Names
<1> HIDE DEF used
<1>6. New \in Names /\ New \notin used
  BY <1>4, <1>5
<1> QED
  BY <1>6 DEF used

(* A workspace is made, or written to. *)
LEMMA WriteWorkspace ==
    ASSUME Directory, NEW w, NEW content, DOMAIN content = Fields,
           w \in DOMAIN workspaces \/ (w = New /\ ~Full),
           workspaces' = With(w, content)
    PROVE  /\ Directory' /\ DOMAIN workspaces' = DOMAIN workspaces \cup {w}
           /\ workspaces'[w] = content
           /\ \A v \in DOMAIN workspaces \ {w} : workspaces'[v] = workspaces[v]
<1>1. /\ DOMAIN workspaces' = DOMAIN workspaces \cup {w} /\ workspaces'[w] = content
      /\ \A v \in DOMAIN workspaces \ {w} : workspaces'[v] = workspaces[v]
  BY DEF With
<1>2. IsFiniteSet(DOMAIN workspaces) /\ Cardinality(DOMAIN workspaces) \in Nat
  <2>1. IsFiniteSet(DOMAIN workspaces)
    BY NamesAreFinite, FS_Subset DEF Directory
  <2> QED
    BY <2>1, FS_CardinalityType
<1>3. DOMAIN workspaces' \subseteq Names /\ Cardinality(DOMAIN workspaces') <= MaxWorkspaces
  <2>1. CASE w \in DOMAIN workspaces
    <3>1. DOMAIN workspaces' = DOMAIN workspaces
      BY <1>1, <2>1
    <3> QED
      BY <3>1 DEF Directory
  <2>2. CASE w = New /\ ~Full
    <3>1. w \in Names /\ w \notin DOMAIN workspaces
      BY <2>2, NewIsFree
    <3>2. Cardinality(DOMAIN workspaces') = Cardinality(DOMAIN workspaces) + 1
      BY <1>1, <1>2, <3>1, FS_AddElement
    <3>3. Cardinality(DOMAIN workspaces) < MaxWorkspaces
      BY <1>2, <2>2, NamesAreFinite DEF Directory, Full
    <3> QED
      BY <1>1, <1>2, <3>1, <3>2, <3>3, NamesAreFinite DEF Directory
  <2> QED
    BY <2>1, <2>2
<1>4. \A v \in DOMAIN workspaces' : DOMAIN workspaces'[v] = Fields
  BY <1>1 DEF Directory
<1> QED
  BY <1>1, <1>3, <1>4 DEF Directory

(* A workspace is removed. *)
LEMMA RemoveWorkspace ==
    ASSUME Directory, NEW w, workspaces' = Without(w)
    PROVE  /\ Directory'
           /\ \A v \in DOMAIN workspaces \ {w} : v \in DOMAIN workspaces' /\ workspaces'[v] = workspaces[v]
<1>1. /\ DOMAIN workspaces' = DOMAIN workspaces \ {w}
      /\ \A v \in DOMAIN workspaces \ {w} : workspaces'[v] = workspaces[v]
  BY DEF Without
<1>2. Cardinality(DOMAIN workspaces') <= Cardinality(DOMAIN workspaces)
      /\ Cardinality(DOMAIN workspaces) \in Nat /\ Cardinality(DOMAIN workspaces') \in Nat
  <2>1. IsFiniteSet(DOMAIN workspaces)
    BY NamesAreFinite, FS_Subset DEF Directory
  <2>2. IsFiniteSet(DOMAIN workspaces') /\ Cardinality(DOMAIN workspaces') <= Cardinality(DOMAIN workspaces)
    BY <1>1, <2>1, FS_Subset
  <2> QED
    BY <2>1, <2>2, FS_CardinalityType
<1> QED
  BY <1>1, <1>2, NamesAreFinite DEF Directory

-----------------------------------------------------------------------------
(* One task at a time                                                        *)

\* What a step of one task may do: it touches no workspace another task holds, and takes
\* none that was there.
Alone(t) ==
    /\ UNCHANGED request
    /\ \A u \in Task \ {t} :
          /\ pc'[u] = pc[u] /\ discovered'[u] = discovered[u] /\ selected'[u] = selected[u]
          /\ queue'[u] = queue[u] /\ cached'[u] = cached[u] /\ place'[u] = place[u]
          /\ prepared'[u] = prepared[u]
    /\ \A w \in DOMAIN workspaces \ Held(t) : w \in DOMAIN workspaces' /\ workspaces'[w] = workspaces[w]
    /\ Held(t)' \cap DOMAIN workspaces \subseteq Held(t)

LEMMA AloneStep ==
    ASSUME RepositoryInv, NEW t \in Task, Alone(t), Locals', Directory', TaskOK(t)'
    PROVE  RepositoryInv'
<1>1. ASSUME NEW u \in Task, u # t
      PROVE  TaskOK(u)' /\ Held(u)' = Held(u) /\ Held(u) \subseteq DOMAIN workspaces /\ Held(u) \cap Held(t) = {}
  <2>1. /\ pc'[u] = pc[u] /\ queue'[u] = queue[u] /\ cached'[u] = cached[u] /\ place'[u] = place[u]
        /\ prepared'[u] = prepared[u] /\ request' = request
    BY <1>1 DEF Alone
  <2>2. Candidates(u)' = Candidates(u)
    BY <1>1 DEF Alone, Candidates, Mentions
  <2>3. Held(u)' = Held(u)
    BY <2>1 DEF Held
  <2>4. TaskOK(u) /\ Held(u) \subseteq DOMAIN workspaces /\ Held(u) \cap Held(t) = {}
    BY <1>1 DEF RepositoryInv, TaskOK, Exclusive
  <2>5. \A w \in Held(u) : w \in DOMAIN workspaces' /\ workspaces'[w] = workspaces[w]
    BY <2>4 DEF Alone
  <2>6. /\ pc[u] \in Filling => workspaces'[place[u]] = workspaces[place[u]]
        /\ pc[u] = "done" => workspaces'[prepared[u].workspace] = workspaces[prepared[u].workspace]
    BY <2>5 DEF Held, Filling
  <2>7. \A w : IsClone(u, w)' <=> IsClone(u, w)
    BY <2>1, <2>2 DEF IsClone, Pinned
  <2>8. pc[u] = "finish" => IsClone(u, workspaces[place[u]])'
    BY <2>1, <2>2, <2>4, <2>6 DEF TaskOK, IsClone, Pinned, Filling
  <2>9. pc[u] = "done" => IsClone(u, workspaces[prepared[u].workspace])'
    BY <2>1, <2>2, <2>4, <2>6 DEF TaskOK, IsClone, Pinned, Filling
  <2>10. TaskOK(u)'
    BY <2>1, <2>2, <2>3, <2>4, <2>5, <2>6, <2>8, <2>9 DEF TaskOK
  <2> QED
    BY <2>3, <2>4, <2>10
<1>2. Exclusive'
  <2> SUFFICES ASSUME NEW u \in Task, NEW v \in Task, u # v PROVE Held(u)' \cap Held(v)' = {}
    BY DEF Exclusive
  <2>1. CASE u # t /\ v # t
    BY <1>1, <2>1 DEF RepositoryInv, Exclusive
  <2>2. CASE u = t
    BY <1>1, <2>2 DEF Alone
  <2>3. CASE v = t
    BY <1>1, <2>3 DEF Alone
  <2> QED
    BY <2>1, <2>2, <2>3
<1> QED
  BY <1>1, <1>2 DEF RepositoryInv
-----------------------------------------------------------------------------
(* Every step keeps the invariant                                            *)

LEMMA InitRepository == RepositoryInit => RepositoryInv
<1> SUFFICES ASSUME RepositoryInit PROVE RepositoryInv
  OBVIOUS
<1>1. Locals
  BY DEF RepositoryInit, Locals, Working
<1>2. Directory
  <2>1. DOMAIN workspaces = {}
    BY DEF RepositoryInit
  <2>2. Cardinality(DOMAIN workspaces) = 0
    BY <2>1, FS_EmptySet
  <2> QED
    BY <2>1, <2>2, NamesAreFinite DEF Directory
<1>3. \A t \in Task : Held(t) = {}
  BY DEF RepositoryInit, Held, Filling
<1>4. \A t \in Task : TaskOK(t)
  BY <1>3 DEF RepositoryInit, TaskOK, Filling
<1> QED
  BY <1>1, <1>2, <1>3, <1>4 DEF RepositoryInv, Exclusive

(* What a workspace is made of when it is begun. *)
LEMMA Beginning ==
    ASSUME NEW t, NEW repo
    PROVE  DOMAIN Begun(t, repo) = Fields /\ Begun(t, repo).files = {}
BY DEF Begun, Workspace, Fields

\* A function of the tasks is changed for one of them at most.
Elsewhere(t, f, g) == DOMAIN g = Task /\ \A u \in Task \ {t} : g[u] = f[u]

(* A task that holds nothing and goes where it holds nothing. *)
LEMMA EmptyHanded ==
    ASSUME RepositoryInv, NEW t \in Task, UNCHANGED <<request, workspaces, prepared>>,
           pc' = [pc EXCEPT ![t] = pc'[t]], discovered' = [discovered EXCEPT ![t] = discovered'[t]],
           Elsewhere(t, selected, selected'), Elsewhere(t, queue, queue'),
           Elsewhere(t, cached, cached'), Elsewhere(t, place, place'),
           DOMAIN tries' = Task, DOMAIN expired' = Task,
           pc'[t] \in {"discover", "prepare", "local", "clone", "failed"},
           discovered'[t] \in Seq(Repo), queue'[t] \in Seq(Candidates(t)'),
           pc'[t] \in {"discover", "failed"} => queue'[t] = <<>>,
           pc'[t] = "local" => cached'[t].repo \in Candidates(t)',
           place'[t] = NoWorkspace
    PROVE  RepositoryInv'
<1>1. Locals'
  <2>1. pc' \in [Task -> Working \cup {"done", "failed"}]
    BY DEF RepositoryInv, Locals, Working
  <2>2. discovered' \in [Task -> Seq(Repo)]
    BY DEF RepositoryInv, Locals
  <2> QED
    BY <2>1, <2>2 DEF RepositoryInv, Locals, Elsewhere
<1>2. Directory'
  BY DEF RepositoryInv, Directory
<1>3. Held(t)' = {}
  BY DEF Held, Filling
<1>4. TaskOK(t)'
  BY <1>3 DEF TaskOK, Filling
<1>5. Alone(t)
  BY <1>3 DEF Alone, RepositoryInv, Locals, Elsewhere
<1> QED
  BY <1>1, <1>2, <1>4, <1>5, AloneStep

LEMMA Forgets ==
    ASSUME Locals, NEW t \in Task, Forget(t)
    PROVE  /\ Elsewhere(t, queue, queue') /\ queue'[t] = <<>>
           /\ Elsewhere(t, cached, cached')
           /\ Elsewhere(t, place, place') /\ place'[t] = NoWorkspace
           /\ DOMAIN tries' = Task /\ DOMAIN expired' = Task
BY DEF Forget, Locals, Elsewhere

(* A task fails wherever it is: what it holds stays behind. *)
LEMMA FailStep ==
    ASSUME RepositoryInv, NEW t \in Task, Fail(t),
           UNCHANGED <<request, discovered, selected, workspaces, prepared>>
    PROVE  RepositoryInv'
<1>1. Locals
  BY DEF RepositoryInv
<1>2. pc' = [pc EXCEPT ![t] = pc'[t]] /\ pc'[t] = "failed"
  BY <1>1 DEF Fail, Goes, Locals
<1>3. queue'[t] \in Seq(Candidates(t)')
  <2>1. queue'[t] = <<>>
    BY <1>1, Forgets DEF Fail
  <2>2. \A S : <<>> \in Seq(S)
    OBVIOUS
  <2> QED
    BY <2>1, <2>2
<1>4. discovered'[t] \in Seq(Repo)
  BY <1>1 DEF Locals
<1>5. discovered' = [discovered EXCEPT ![t] = discovered'[t]] /\ Elsewhere(t, selected, selected')
  BY <1>1 DEF Locals, Elsewhere
<1> QED
  BY <1>1, <1>2, <1>3, <1>4, <1>5, Forgets, EmptyHanded DEF Fail

LEMMA DiscoverStep ==
    ASSUME RepositoryInv, NEW t \in Task, Discover(t)
    PROVE  RepositoryInv'
<1>1. Locals /\ TaskOK(t)
  BY DEF RepositoryInv
<1>2. ASSUME NEW ranked, NEW repo, Publish(t, ranked, repo), ranked \in Seq(Repo)
      PROVE  RepositoryInv'
  <2>1. /\ pc' = [pc EXCEPT ![t] = pc'[t]] /\ pc'[t] = "prepare"
        /\ discovered' = [discovered EXCEPT ![t] = discovered'[t]] /\ discovered'[t] = ranked
        /\ Elsewhere(t, selected, selected')
    BY <1>1, <1>2 DEF Publish, Goes, Locals, Elsewhere
  <2>2. /\ Elsewhere(t, queue, queue') /\ queue'[t] = <<>>
        /\ Elsewhere(t, cached, cached') /\ Elsewhere(t, place, place')
        /\ place'[t] = NoWorkspace /\ DOMAIN tries' = Task /\ DOMAIN expired' = Task
    BY <1>1, <1>2 DEF Publish, locals, Locals, TaskOK, Discover, Filling, Elsewhere
  <2>3. queue'[t] \in Seq(Candidates(t)')
    BY <2>2
  <2>4. UNCHANGED <<request, workspaces, prepared>>
    BY DEF Discover
  <2> QED
    BY <1>2, <2>1, <2>2, <2>3, <2>4, EmptyHanded
<1>3. CASE request[t].preferred # NoRepo /\ Publish(t, <<request[t].preferred>>, request[t].preferred)
  <2>1. request[t].preferred \in Repo
    BY <1>1, <1>3, RequestsAssumption DEF Locals
  <2>2. <<request[t].preferred>> \in Seq(Repo)
    BY <2>1
  <2> QED
    BY <1>2, <1>3, <2>2
<1>4. ASSUME NEW ranked \in Rankings(request[t]), Publish(t, ranked, Select(request[t], ranked))
      PROVE  RepositoryInv'
  BY <1>2, <1>4, RankingsShape
<1>5. CASE Fail(t) /\ UNCHANGED <<discovered, selected>>
  BY <1>5, FailStep DEF Discover
<1> QED
  BY <1>3, <1>4, <1>5 DEF Discover

LEMMA PrepareStep ==
    ASSUME RepositoryInv, NEW t \in Task, Prepare(t)
    PROVE  RepositoryInv'
<1>1. Locals /\ TaskOK(t)
  BY DEF RepositoryInv
<1>2. CASE Fail(t)
  BY <1>2, FailStep DEF Prepare
<1>3. ASSUME NEW list \in Listed(Mentions(t)), queue' = [queue EXCEPT ![t] = list],
             UNCHANGED <<place, tries, expired>>,
             \/ Goes(t, "clone") /\ UNCHANGED cached
             \/ /\ \E clone \in Cached(t, list) : cached' = [cached EXCEPT ![t] = clone]
                /\ Goes(t, "local")
      PROVE  RepositoryInv'
  <2>1. list \in Seq(Candidates(t)) /\ ToSet(list) \subseteq Candidates(t)
    BY <1>1, CandidateList DEF Locals
  <2>2. Candidates(t)' = Candidates(t)
    BY DEF Prepare, Candidates, Mentions
  <2>3. /\ pc' = [pc EXCEPT ![t] = pc'[t]] /\ pc'[t] \in {"clone", "local"}
        /\ Elsewhere(t, cached, cached')
        /\ pc'[t] = "local" => cached'[t] \in Cached(t, list)
    <3>1. CASE Goes(t, "clone") /\ UNCHANGED cached
      BY <1>1, <3>1 DEF Goes, Locals, Elsewhere
    <3>2. CASE /\ \E clone \in Cached(t, list) : cached' = [cached EXCEPT ![t] = clone]
               /\ Goes(t, "local")
      BY <1>1, <3>2 DEF Goes, Locals, Elsewhere
    <3> QED
      BY <1>3, <3>1, <3>2
  <2>4. pc'[t] = "local" => cached'[t].repo \in Candidates(t)
    BY <2>1, <2>3, CachedShape
  <2>5. /\ Elsewhere(t, queue, queue') /\ queue'[t] = list
        /\ Elsewhere(t, place, place') /\ place'[t] = NoWorkspace
        /\ DOMAIN tries' = Task /\ DOMAIN expired' = Task
        /\ discovered' = [discovered EXCEPT ![t] = discovered'[t]] /\ discovered'[t] \in Seq(Repo)
        /\ Elsewhere(t, selected, selected')
    BY <1>1, <1>3 DEF Locals, TaskOK, Prepare, Filling, Elsewhere
  <2>6. UNCHANGED <<request, workspaces, prepared>>
    BY DEF Prepare
  <2>7. queue'[t] \in Seq(Candidates(t)')
    BY <2>1, <2>2, <2>5
  <2> QED
    BY <2>2, <2>3, <2>4, <2>5, <2>6, <2>7, EmptyHanded
<1> QED
  BY <1>2, <1>3 DEF Prepare

(* A task goes on with a workspace of its own: one that it holds or a new one. *)
LEMMA Holding ==
    ASSUME RepositoryInv, NEW t \in Task, NEW w, NEW content,
           pc[t] # "done", w \in Held(t) \/ (w = New /\ ~Full),
           DOMAIN content = Fields, content.files = {},
           workspaces' = With(w, content), UNCHANGED <<request, discovered, selected, prepared>>,
           pc' = [pc EXCEPT ![t] = pc'[t]], pc'[t] \in Filling,
           Elsewhere(t, queue, queue'), Elsewhere(t, cached, cached'), Elsewhere(t, place, place'),
           DOMAIN tries' = Task, DOMAIN expired' = Task,
           queue'[t] = queue[t], place'[t] = w,
           pc'[t] \in {"git", "archive"} => queue[t] # <<>>,
           pc'[t] = "finish" => IsClone(t, content)
    PROVE  RepositoryInv'
<1>1. Locals /\ Directory /\ TaskOK(t) /\ Held(t) \subseteq DOMAIN workspaces
  BY DEF RepositoryInv, TaskOK
<1>2. Locals'
  <2>1. pc' \in [Task -> Working \cup {"done", "failed"}]
    BY <1>1 DEF Locals, Working, Filling
  <2> QED
    BY <1>1, <2>1 DEF Locals, Elsewhere
<1>3. w \in DOMAIN workspaces \/ (w = New /\ ~Full)
  BY <1>1
<1>4. /\ Directory' /\ DOMAIN workspaces' = DOMAIN workspaces \cup {w}
      /\ workspaces'[w] = content
      /\ \A v \in DOMAIN workspaces \ {w} : workspaces'[v] = workspaces[v]
  BY <1>1, <1>3, WriteWorkspace
<1>5. w \in Held(t) \/ w \notin DOMAIN workspaces
  BY <1>1, NewIsFree
<1>6. Held(t)' = {w}
  BY DEF Held, Filling
<1>7. Candidates(t)' = Candidates(t)
  BY DEF Candidates, Mentions
<1>8. TaskOK(t)'
  <2>1. pc'[t] = "finish" => IsClone(t, workspaces[place[t]])'
    BY <1>4, <1>7 DEF IsClone, Pinned
  <2>2. queue'[t] \in Seq(Candidates(t)')
    BY <1>1, <1>7 DEF TaskOK
  <2> QED
    BY <1>4, <1>6, <2>1, <2>2 DEF TaskOK, Filling
<1>9. Alone(t)
  BY <1>4, <1>5, <1>6 DEF Alone, Elsewhere, RepositoryInv, Locals
<1> QED
  BY <1>2, <1>4, <1>8, <1>9, AloneStep

(* A task gives its workspace up and takes the next candidate. *)
LEMMA NextCandidateStep ==
    ASSUME RepositoryInv, NEW t \in Task, pc[t] \in {"git", "archive"}, NextCandidate(t),
           UNCHANGED <<request, discovered, selected, cached, expired, prepared>>
    PROVE  RepositoryInv'
<1>1. Locals /\ Directory /\ TaskOK(t)
  BY DEF RepositoryInv
<1>2. /\ pc' = [pc EXCEPT ![t] = pc'[t]] /\ pc'[t] = "clone"
      /\ Elsewhere(t, queue, queue') /\ queue'[t] = Tail(queue[t])
      /\ Elsewhere(t, place, place') /\ place'[t] = NoWorkspace
      /\ DOMAIN tries' = Task
  BY <1>1 DEF NextCandidate, Goes, Locals, Elsewhere
<1>3. Locals'
  <2>1. pc' \in [Task -> Working \cup {"done", "failed"}]
    BY <1>1, <1>2 DEF Locals, Working
  <2> QED
    BY <1>1, <1>2, <2>1 DEF Locals, Elsewhere
<1>4. /\ Directory'
      /\ \A v \in DOMAIN workspaces \ {place[t]} : v \in DOMAIN workspaces' /\ workspaces'[v] = workspaces[v]
  BY <1>1, RemoveWorkspace DEF NextCandidate
<1>5. Held(t) = {place[t]} /\ Held(t)' = {}
  BY <1>2 DEF Held, Filling
<1>6. Candidates(t)' = Candidates(t)
  BY DEF Candidates, Mentions
<1>7. queue'[t] \in Seq(Candidates(t)')
  <2>1. queue[t] \in Seq(Candidates(t)) /\ queue[t] # <<>>
    BY <1>1 DEF TaskOK
  <2>2. Tail(queue[t]) \in Seq(Candidates(t))
    BY <2>1
  <2> QED
    BY <1>2, <1>6, <2>2
<1>8. TaskOK(t)'
  BY <1>2, <1>5, <1>7 DEF TaskOK, Filling
<1>9. Alone(t)
  BY <1>2, <1>4, <1>5 DEF Alone, Elsewhere, RepositoryInv, Locals
<1> QED
  BY <1>3, <1>4, <1>8, <1>9, AloneStep

LEMMA CloneCachedStep ==
    ASSUME RepositoryInv, NEW t \in Task, CloneCached(t)
    PROVE  RepositoryInv'
<1>1. Locals /\ TaskOK(t)
  BY DEF RepositoryInv
<1>2. /\ pc[t] = "local" /\ UNCHANGED <<request, discovered, selected, queue, tries, expired, prepared>>
      /\ Elsewhere(t, cached, cached')
  BY <1>1 DEF CloneCached, Locals, Elsewhere
<1>3. /\ Elsewhere(t, queue, queue') /\ queue'[t] = queue[t] /\ DOMAIN tries' = Task /\ DOMAIN expired' = Task
      /\ Elsewhere(t, selected, selected')
  BY <1>1, <1>2 DEF Locals, Elsewhere
<1>4. ASSUME NEW commit, NEW read \in {commit, NoCommit}, ~Full, Pinned(t) => read = Revision(request[t]),
             Fills(t, New, Filled("full", NoRepo, cached[t].repo, commit, read))
      PROVE  RepositoryInv'
  <2> DEFINE content == Filled("full", NoRepo, cached[t].repo, commit, read)
  <2>1. DOMAIN content = Fields /\ content.files = {} /\ IsClone(t, content)
    <3>1. cached[t].repo \in Candidates(t)
      BY <1>1, <1>2 DEF TaskOK
    <3>2. /\ content.git = "full" /\ content.tree = commit
          /\ content.marker.repo = cached[t].repo /\ content.marker.commit = read
      BY DEF Filled, Workspace, Fields
    <3>3. DOMAIN content = Fields /\ content.files = {}
      BY DEF Filled, Workspace, Fields
    <3> HIDE DEF content
    <3> QED
      BY <1>4, <3>1, <3>2, <3>3 DEF IsClone
  <2>2. /\ workspaces' = With(New, content) /\ pc' = [pc EXCEPT ![t] = pc'[t]] /\ pc'[t] = "finish"
        /\ Elsewhere(t, place, place') /\ place'[t] = New
    BY <1>1, <1>4 DEF Fills, Goes, Locals, Elsewhere
  <2> HIDE DEF content
  <2> QED
    BY <1>2, <1>3, <1>4, <2>1, <2>2, Holding DEF Filling
<1>5. CASE Goes(t, "clone") /\ UNCHANGED <<place, workspaces>>
  <2>1. /\ pc' = [pc EXCEPT ![t] = pc'[t]] /\ pc'[t] = "clone"
        /\ Elsewhere(t, place, place') /\ place'[t] = NoWorkspace
    BY <1>1, <1>2, <1>5 DEF Goes, Locals, Elsewhere, TaskOK, Filling
  <2>2. Candidates(t)' = Candidates(t)
    BY <1>2 DEF Candidates, Mentions
  <2>3. queue'[t] \in Seq(Candidates(t)')
    BY <1>1, <1>2, <2>2 DEF TaskOK
  <2>4. discovered' = [discovered EXCEPT ![t] = discovered'[t]] /\ discovered'[t] \in Seq(Repo)
    BY <1>1, <1>2 DEF Locals
  <2> QED
    BY <1>2, <1>3, <1>5, <2>1, <2>3, <2>4, EmptyHanded
<1> QED
  BY <1>4, <1>5 DEF CloneCached

LEMMA BeginCloneStep ==
    ASSUME RepositoryInv, NEW t \in Task, BeginClone(t)
    PROVE  RepositoryInv'
<1>1. Locals /\ TaskOK(t)
  BY DEF RepositoryInv
<1>2. CASE queue[t] = <<>> \/ Full
  BY <1>2, FailStep DEF BeginClone
<1>3. CASE ~(queue[t] = <<>> \/ Full)
  <2> DEFINE content == Begun(t, Head(queue[t]))
  <2>1. DOMAIN content = Fields /\ content.files = {}
    BY Beginning
  <2>2. /\ workspaces' = With(New, content) /\ pc' = [pc EXCEPT ![t] = pc'[t]] /\ pc'[t] = "git"
        /\ Elsewhere(t, place, place') /\ place'[t] = New
    BY <1>1, <1>3 DEF BeginClone, Goes, Locals, Elsewhere
  <2>3. /\ Elsewhere(t, queue, queue') /\ queue'[t] = queue[t] /\ DOMAIN tries' = Task /\ DOMAIN expired' = Task
        /\ Elsewhere(t, cached, cached')
        /\ UNCHANGED <<request, discovered, selected, prepared>> /\ pc[t] = "clone"
    BY <1>1, <1>3 DEF BeginClone, Locals, Elsewhere
  <2> HIDE DEF content
  <2> QED
    BY <1>3, <2>1, <2>2, <2>3, Holding DEF Filling
<1> QED
  BY <1>2, <1>3

(* git, or the archive, has the commit that is wanted. *)
LEMMA FillsPlace ==
    ASSUME RepositoryInv, NEW t \in Task, pc[t] \in {"git", "archive"},
           NEW git \in {"full", "none"}, NEW config, NEW commit, NEW read \in {commit, NoCommit},
           Pinned(t) => read = Revision(request[t]),
           Fills(t, place[t], Filled(git, config, Head(queue[t]), commit, read)),
           UNCHANGED <<request, discovered, selected, queue, cached, tries, expired, prepared>>
    PROVE  RepositoryInv'
<1> DEFINE content == Filled(git, config, Head(queue[t]), commit, read)
<1>1. Locals /\ TaskOK(t)
  BY DEF RepositoryInv
<1>2. Head(queue[t]) \in Candidates(t)
  <2>1. queue[t] \in Seq(Candidates(t)) /\ queue[t] # <<>>
    BY <1>1 DEF TaskOK
  <2> QED
    BY <2>1
<1>3. DOMAIN content = Fields /\ content.files = {} /\ IsClone(t, content)
  <2>1. /\ content.git = git /\ content.tree = commit
        /\ content.marker.repo = Head(queue[t]) /\ content.marker.commit = read
    BY DEF Filled, Workspace, Fields
  <2>2. DOMAIN content = Fields /\ content.files = {}
    BY DEF Filled, Workspace, Fields
  <2> HIDE DEF content
  <2> QED
    BY <1>2, <2>1, <2>2 DEF IsClone
<1>4. /\ workspaces' = With(place[t], content) /\ pc' = [pc EXCEPT ![t] = pc'[t]] /\ pc'[t] = "finish"
      /\ Elsewhere(t, place, place') /\ place'[t] = place[t]
  BY <1>1 DEF Fills, Goes, Locals, Elsewhere
<1>5. /\ Elsewhere(t, queue, queue') /\ queue'[t] = queue[t] /\ DOMAIN tries' = Task /\ DOMAIN expired' = Task
      /\ Elsewhere(t, cached, cached')
  BY <1>1 DEF Locals, Elsewhere
<1>6. place[t] \in Held(t) /\ pc[t] # "done"
  BY DEF Held, Filling
<1> HIDE DEF content
<1> QED
  BY <1>3, <1>4, <1>5, <1>6, Holding DEF Filling

LEMMA GitSucceedsStep ==
    ASSUME RepositoryInv, NEW t \in Task, GitSucceeds(t)
    PROVE  RepositoryInv'
<1>1. pc[t] = "git" /\ UNCHANGED <<request, discovered, selected, queue, cached, tries, expired, prepared>>
  BY DEF GitSucceeds
<1>2. PICK commit \in Wanted(t, Head(queue[t])) : \E read \in {commit, NoCommit} :
             /\ Pinned(t) => read = Revision(request[t])
             /\ Fills(t, place[t], Filled("full", Head(queue[t]), Head(queue[t]), commit, read))
  BY DEF GitSucceeds
<1>3. PICK read \in {commit, NoCommit} :
             /\ Pinned(t) => read = Revision(request[t])
             /\ Fills(t, place[t], Filled("full", Head(queue[t]), Head(queue[t]), commit, read))
  BY <1>2
<1> QED
  BY <1>1, <1>3, FillsPlace

LEMMA GitFailsStep ==
    ASSUME RepositoryInv, NEW t \in Task, GitFails(t)
    PROVE  RepositoryInv'
<1>1. Locals /\ TaskOK(t)
  BY DEF RepositoryInv
<1>2. pc[t] = "git" /\ UNCHANGED <<request, discovered, selected, cached, expired, prepared>>
  BY DEF GitFails
<1>3. /\ place[t] \in Held(t) /\ pc[t] # "done" /\ queue[t] # <<>>
      /\ Elsewhere(t, cached, cached') /\ DOMAIN expired' = Task
  BY <1>1, <1>2 DEF Held, Filling, TaskOK, Locals, Elsewhere
<1>4. CASE /\ tries' = [tries EXCEPT ![t] = 2]
           /\ workspaces' = With(place[t], Begun(t, Head(queue[t])))
           /\ UNCHANGED <<pc, queue, place>>
  <2> DEFINE content == Begun(t, Head(queue[t]))
  <2>1. DOMAIN content = Fields /\ content.files = {}
    BY Beginning
  <2>2. /\ workspaces' = With(place[t], content) /\ pc' = [pc EXCEPT ![t] = pc'[t]] /\ pc'[t] = "git"
        /\ Elsewhere(t, place, place') /\ place'[t] = place[t] /\ DOMAIN tries' = Task
        /\ Elsewhere(t, queue, queue') /\ queue'[t] = queue[t]
    BY <1>1, <1>2, <1>4 DEF Locals, Elsewhere
  <2> HIDE DEF content
  <2> QED
    BY <1>2, <1>3, <2>1, <2>2, Holding DEF Filling
<1>5. CASE NextCandidate(t)
  BY <1>2, <1>5, NextCandidateStep
<1>6. CASE Reset(t) /\ Goes(t, "archive") /\ UNCHANGED <<queue, place, tries>>
  <2> DEFINE content == Workspace("none", NoRepo, NoMarker, NoCommit)
  <2>1. DOMAIN content = Fields /\ content.files = {}
    BY DEF Workspace, Fields
  <2>2. /\ workspaces' = With(place[t], content) /\ pc' = [pc EXCEPT ![t] = pc'[t]] /\ pc'[t] = "archive"
        /\ Elsewhere(t, place, place') /\ place'[t] = place[t] /\ DOMAIN tries' = Task
        /\ Elsewhere(t, queue, queue') /\ queue'[t] = queue[t]
    BY <1>1, <1>6 DEF Locals, Elsewhere, Reset, Goes
  <2> HIDE DEF content
  <2> QED
    BY <1>2, <1>3, <2>1, <2>2, Holding DEF Filling
<1> QED
  BY <1>4, <1>5, <1>6 DEF GitFails

LEMMA DownloadStep ==
    ASSUME RepositoryInv, NEW t \in Task, Download(t)
    PROVE  RepositoryInv'
<1>1. pc[t] = "archive" /\ UNCHANGED <<request, discovered, selected, cached, expired, prepared>>
  BY DEF Download
<1>2. ASSUME NEW commit \in Wanted(t, Head(queue[t])),
             Fills(t, place[t], Filled("none", NoRepo, Head(queue[t]), commit, commit)),
             UNCHANGED <<queue, tries>>
      PROVE  RepositoryInv'
  <2>1. Pinned(t) => commit = Revision(request[t])
    BY <1>2 DEF Wanted
  <2> QED
    BY <1>1, <1>2, <2>1, FillsPlace
<1>3. CASE NextCandidate(t)
  BY <1>1, <1>3, NextCandidateStep
<1> QED
  BY <1>2, <1>3 DEF Download

(* What is written in a workspace is the task's, and the rest of it stays. *)
LEMMA Annotated ==
    ASSUME NEW t \in Task, NEW w, IsClone(t, w), DOMAIN w = Fields, w.files \subseteq {t},
           NEW files \in SUBSET {t}, NEW content, content = [w EXCEPT !.files = @ \cup files]
    PROVE  IsClone(t, content) /\ DOMAIN content = Fields /\ content.files \subseteq {t}
           /\ content.marker = w.marker
<1>1. /\ DOMAIN content = Fields /\ content.git = w.git /\ content.tree = w.tree
      /\ content.marker = w.marker /\ content.files = w.files \cup files
  BY DEF Fields
<1> QED
  BY <1>1 DEF IsClone

(* A task whose workspace is prepared, or has been: it alone writes in it. *)
LEMMA WritesItsOwn ==
    ASSUME RepositoryInv, NEW t \in Task, NEW w \in Held(t), NEW content,
           workspaces' = With(w, content), DOMAIN content = Fields,
           IsClone(t, content), content.files \subseteq {t},
           UNCHANGED <<request, discovered, selected>>,
           pc' = [pc EXCEPT ![t] = pc'[t]], pc'[t] = "done", queue'[t] = <<>>, place'[t] = NoWorkspace,
           Elsewhere(t, queue, queue'), Elsewhere(t, cached, cached'), Elsewhere(t, place, place'),
           Elsewhere(t, prepared, prepared'), DOMAIN tries' = Task, DOMAIN expired' = Task,
           prepared'[t].workspace = w, prepared'[t].repo = content.marker.repo,
           prepared'[t].commit = content.marker.commit
    PROVE  RepositoryInv'
<1>1. Locals /\ Directory /\ TaskOK(t) /\ w \in DOMAIN workspaces
  BY DEF RepositoryInv, TaskOK
<1>2. Locals'
  <2>1. pc' \in [Task -> Working \cup {"done", "failed"}]
    BY <1>1 DEF Locals, Working
  <2> QED
    BY <1>1, <2>1 DEF Locals, Elsewhere
<1>3. /\ Directory' /\ DOMAIN workspaces' = DOMAIN workspaces \cup {w}
      /\ workspaces'[w] = content
      /\ \A v \in DOMAIN workspaces \ {w} : workspaces'[v] = workspaces[v]
  BY <1>1, WriteWorkspace
<1>4. Held(t)' = {w}
  BY DEF Held
<1>5. Candidates(t)' = Candidates(t)
  BY DEF Candidates, Mentions
<1>6. TaskOK(t)'
  <2>1. IsClone(t, workspaces[prepared[t].workspace])'
    BY <1>3, <1>5 DEF IsClone, Pinned
  <2>2. queue'[t] \in Seq(Candidates(t)')
    <3>1. \A S : <<>> \in Seq(S)
      OBVIOUS
    <3> QED
      BY <3>1
  <2> QED
    BY <1>3, <1>4, <2>1, <2>2 DEF TaskOK, Filling
<1>7. Alone(t)
  BY <1>3, <1>4 DEF Alone, Elsewhere, RepositoryInv, Locals
<1> QED
  BY <1>2, <1>3, <1>6, <1>7, AloneStep

LEMMA FinishStep ==
    ASSUME RepositoryInv, NEW t \in Task, Finish(t)
    PROVE  RepositoryInv'
<1>1. Locals /\ Directory /\ TaskOK(t) /\ pc[t] = "finish" /\ UNCHANGED <<request, discovered, selected>>
  BY DEF RepositoryInv, Finish
<1>2. CASE Fail(t) /\ UNCHANGED <<workspaces, prepared>>
  BY <1>1, <1>2, FailStep
<1>3. ASSUME NEW eligible \in BOOLEAN,
             workspaces' = With(place[t], [workspaces[place[t]] EXCEPT !.files = @ \cup Written(t, eligible)]),
             prepared' = [prepared EXCEPT ![t] = [workspace |-> place[t],
                                                  repo |-> workspaces[place[t]].marker.repo,
                                                  commit |-> workspaces[place[t]].marker.commit]],
             Goes(t, "done"), Forget(t)
      PROVE  RepositoryInv'
  <2> DEFINE w == workspaces[place[t]]
             content == [w EXCEPT !.files = @ \cup Written(t, eligible)]
  <2>1. IsClone(t, w) /\ w.files \subseteq {t} /\ place[t] \in Held(t) /\ DOMAIN w = Fields
    BY <1>1 DEF TaskOK, Held, Filling, Directory
  <2>2. Written(t, eligible) \in SUBSET {t}
    BY DEF Written
  <2> HIDE DEF w
  <2>3. /\ IsClone(t, content) /\ DOMAIN content = Fields /\ content.files \subseteq {t}
        /\ content.marker = w.marker
    BY <2>1, <2>2, Annotated
  <2>4. /\ pc' = [pc EXCEPT ![t] = pc'[t]] /\ pc'[t] = "done"
        /\ Elsewhere(t, prepared, prepared')
        /\ prepared'[t] = [workspace |-> place[t], repo |-> w.marker.repo, commit |-> w.marker.commit]
    BY <1>1, <1>3 DEF Goes, Locals, Elsewhere, w
  <2>5. workspaces' = With(place[t], content)
    BY <1>3 DEF w
  <2> HIDE DEF content
  <2>6. /\ prepared'[t].workspace = place[t] /\ prepared'[t].repo = content.marker.repo
        /\ prepared'[t].commit = content.marker.commit
    BY <2>3, <2>4
  <2>7. /\ Elsewhere(t, queue, queue') /\ queue'[t] = <<>> /\ Elsewhere(t, cached, cached')
        /\ Elsewhere(t, place, place') /\ place'[t] = NoWorkspace
        /\ DOMAIN tries' = Task /\ DOMAIN expired' = Task
    BY <1>1, <1>3, Forgets
  <2> QED
    BY <1>1, <2>1, <2>3, <2>4, <2>5, <2>6, <2>7, WritesItsOwn
<1> QED
  BY <1>2, <1>3 DEF Finish

LEMMA EditStep ==
    ASSUME RepositoryInv, NEW t \in Task, Edit(t)
    PROVE  RepositoryInv'
<1>1. Locals /\ Directory /\ TaskOK(t) /\ pc[t] = "done"
  BY DEF RepositoryInv, Edit
<1>2. UNCHANGED <<request, pc, discovered, selected, locals, prepared>>
  BY DEF Edit
<1> DEFINE w == workspaces[prepared[t].workspace]
           content == [w EXCEPT !.files = @ \cup {t}]
<1>3. /\ IsClone(t, w) /\ w.files \subseteq {t} /\ prepared[t].workspace \in Held(t) /\ DOMAIN w = Fields
      /\ prepared[t].repo = w.marker.repo /\ prepared[t].commit = w.marker.commit
  BY <1>1 DEF TaskOK, Held, Directory
<1> HIDE DEF w
<1>4. /\ IsClone(t, content) /\ DOMAIN content = Fields /\ content.files \subseteq {t}
      /\ content.marker = w.marker
  BY <1>3, Annotated
<1>5. workspaces' = With(prepared[t].workspace, content)
  BY DEF Edit, w
<1> HIDE DEF content
<1>6. /\ pc' = [pc EXCEPT ![t] = pc'[t]] /\ pc'[t] = "done"
      /\ Elsewhere(t, queue, queue') /\ queue'[t] = <<>> /\ Elsewhere(t, cached, cached')
      /\ Elsewhere(t, place, place') /\ place'[t] = NoWorkspace /\ Elsewhere(t, prepared, prepared')
      /\ DOMAIN tries' = Task /\ DOMAIN expired' = Task
  BY <1>1, <1>2 DEF Locals, Elsewhere, locals, TaskOK, Filling
<1>7. /\ prepared'[t].workspace = prepared[t].workspace /\ prepared'[t].repo = content.marker.repo
      /\ prepared'[t].commit = content.marker.commit
  BY <1>2, <1>3, <1>4
<1> QED
  BY <1>2, <1>3, <1>4, <1>5, <1>6, <1>7, WritesItsOwn

LEMMA RepeatStep ==
    ASSUME RepositoryInv, NEW t \in Task, Repeat(t)
    PROVE  RepositoryInv'
<1>1. Locals /\ TaskOK(t) /\ pc[t] = "failed"
  BY DEF RepositoryInv, Repeat
<1>2. UNCHANGED <<request, discovered, selected, locals, workspaces, prepared>>
  BY DEF Repeat
<1>3. pc' = [pc EXCEPT ![t] = pc'[t]] /\ pc'[t] \in {"discover", "prepare"}
  BY <1>1 DEF Repeat, Goes, Locals
<1>4. /\ Elsewhere(t, queue, queue') /\ queue'[t] = <<>> /\ Elsewhere(t, cached, cached')
      /\ Elsewhere(t, place, place') /\ place'[t] = NoWorkspace /\ Elsewhere(t, selected, selected')
      /\ DOMAIN tries' = Task /\ DOMAIN expired' = Task
  BY <1>1, <1>2 DEF Locals, Elsewhere, locals, TaskOK, Filling
<1>5. discovered' = [discovered EXCEPT ![t] = discovered'[t]] /\ discovered'[t] \in Seq(Repo)
  BY <1>1, <1>2 DEF Locals
<1>6. queue'[t] \in Seq(Candidates(t)')
  <2>1. \A S : <<>> \in Seq(S)
    OBVIOUS
  <2> QED
    BY <1>4, <2>1
<1> QED
  BY <1>2, <1>3, <1>4, <1>5, <1>6, EmptyHanded

(* What the invariant is about stays as it is. *)
LEMMA RepositoryUnchanged ==
    ASSUME RepositoryInv, DOMAIN tries' = Task, DOMAIN expired' = Task,
           UNCHANGED <<request, pc, discovered, selected, queue, cached, place, workspaces, prepared>>
    PROVE  RepositoryInv'
<1>1. Locals'
  BY DEF RepositoryInv, Locals
<1>2. Directory'
  BY DEF RepositoryInv, Directory
<1>3. \A t \in Task : Held(t)' = Held(t) /\ Candidates(t)' = Candidates(t)
  BY DEF Held, Candidates, Mentions
<1>4. \A t \in Task : \A w : IsClone(t, w)' <=> IsClone(t, w)
  BY <1>3 DEF IsClone, Pinned
<1>5. ASSUME NEW t \in Task PROVE TaskOK(t)'
  <2>1. TaskOK(t)
    BY DEF RepositoryInv
  <2>2. IsClone(t, workspaces[place[t]])' <=> IsClone(t, workspaces[place[t]])
    BY <1>3 DEF IsClone, Pinned
  <2>3. IsClone(t, workspaces[prepared[t].workspace])' <=> IsClone(t, workspaces[prepared[t].workspace])
    BY <1>3 DEF IsClone, Pinned
  <2> QED
    BY <1>3, <2>1, <2>2, <2>3 DEF TaskOK
<1>6. Exclusive'
  BY <1>3 DEF RepositoryInv, Exclusive
<1> QED
  BY <1>1, <1>2, <1>5, <1>6 DEF RepositoryInv

(* Every task that works dies with the process: the others keep what they have. *)
LEMMA CrashStep ==
    ASSUME RepositoryInv, Crash
    PROVE  RepositoryInv'
<1>1. Locals /\ UNCHANGED <<request, discovered, selected, workspaces, prepared>>
  BY DEF RepositoryInv, Crash
<1>2. ASSUME NEW t \in Task
      PROVE  /\ pc[t] \in Working => /\ pc'[t] = "failed" /\ queue'[t] = <<>>
                                     /\ place'[t] = NoWorkspace
             /\ pc[t] \notin Working => /\ pc'[t] = pc[t] /\ queue'[t] = queue[t]
                                        /\ cached'[t] = cached[t] /\ place'[t] = place[t]
             /\ pc'[t] \in {"done", "failed"} /\ (pc'[t] = "done" => pc[t] = "done")
  BY <1>1 DEF Crash, Locals, Working
<1>3. Locals'
  <2>1. pc' \in [Task -> Working \cup {"done", "failed"}]
    <3>1. pc' = [t \in Task |-> IF pc[t] \in Working THEN "failed" ELSE pc[t]]
      BY DEF Crash
    <3> QED
      BY <1>1, <3>1 DEF Locals
  <2>2. DOMAIN queue' = Task /\ DOMAIN cached' = Task /\ DOMAIN place' = Task
        /\ DOMAIN tries' = Task /\ DOMAIN expired' = Task
    BY DEF Crash
  <2> QED
    BY <1>1, <2>1, <2>2 DEF Locals
<1>4. Directory'
  BY <1>1 DEF RepositoryInv, Directory
<1>5. \A t \in Task : Held(t)' \subseteq Held(t)
  BY <1>1, <1>2 DEF Held, Filling, Working
<1>6. Exclusive'
  BY <1>5 DEF RepositoryInv, Exclusive
<1>7. ASSUME NEW t \in Task PROVE TaskOK(t)'
  <2>1. TaskOK(t)
    BY DEF RepositoryInv
  <2>2. Candidates(t)' = Candidates(t)
    BY <1>1 DEF Candidates, Mentions
  <2>3. \A S : <<>> \in Seq(S)
    OBVIOUS
  <2>4. queue'[t] \in Seq(Candidates(t)') /\ queue'[t] = <<>>
    BY <1>1, <1>2, <2>1, <2>2, <2>3 DEF TaskOK, Locals
  <2>5. IsClone(t, workspaces[prepared[t].workspace])' <=> IsClone(t, workspaces[prepared[t].workspace])
    BY <1>1, <2>2 DEF IsClone, Pinned
  <2>6. place'[t] = NoWorkspace
    BY <1>1, <1>2, <2>1 DEF TaskOK, Filling, Working, Locals
  <2> QED
    BY <1>1, <1>2, <1>5, <2>1, <2>4, <2>5, <2>6 DEF TaskOK, Filling
<1> QED
  BY <1>3, <1>4, <1>6, <1>7 DEF RepositoryInv

(* A clone that git ends alone is in a workspace nobody holds: a prepared one has its
   HEAD or is a plain directory. *)
LEMMA OrphanEndsStep ==
    ASSUME RepositoryInv, OrphanEnds
    PROVE  RepositoryInv'
<1>1. Locals /\ Directory /\ Exclusive
      /\ UNCHANGED <<request, pc, discovered, selected, queue, cached, place, tries, expired, prepared>>
  BY DEF RepositoryInv, OrphanEnds, locals
<1>2. PICK w \in DOMAIN workspaces \ {place[t] : t \in Task} :
          /\ workspaces[w].git = "cloning"
          /\ \E commit \in History[workspaces[w].config] :
                workspaces' = With(w, Workspace("full", workspaces[w].config, NoMarker, commit))
  BY DEF OrphanEnds
<1>3. PICK commit \in History[workspaces[w].config] :
                workspaces' = With(w, Workspace("full", workspaces[w].config, NoMarker, commit))
  BY <1>2
<1>4. /\ Directory' /\ DOMAIN workspaces' = DOMAIN workspaces \cup {w}
      /\ \A v \in DOMAIN workspaces \ {w} : workspaces'[v] = workspaces[v]
  <2> DEFINE content == Workspace("full", workspaces[w].config, NoMarker, commit)
  <2>1. DOMAIN content = Fields
    BY DEF Workspace, Fields
  <2> HIDE DEF content
  <2>2. workspaces' = With(w, content)
    BY <1>3 DEF content
  <2> QED
    BY <1>1, <2>1, <2>2, WriteWorkspace
<1>5. ASSUME NEW t \in Task PROVE w \notin Held(t) /\ Held(t)' = Held(t)
  <2>1. TaskOK(t)
    BY DEF RepositoryInv
  <2>2. pc[t] = "done" => w # prepared[t].workspace
    BY <1>2, <2>1 DEF TaskOK, IsClone
  <2>3. w # place[t]
    BY <1>2
  <2> QED
    BY <1>1, <2>2, <2>3 DEF Held
<1>6. Locals'
  BY <1>1 DEF Locals
<1>7. Exclusive'
  BY <1>1, <1>5 DEF Exclusive
<1>8. ASSUME NEW t \in Task PROVE TaskOK(t)'
  <2>1. TaskOK(t)
    BY DEF RepositoryInv
  <2>2. Candidates(t)' = Candidates(t)
    BY <1>1 DEF Candidates, Mentions
  <2>3. \A v \in Held(t) : v \in DOMAIN workspaces' /\ workspaces'[v] = workspaces[v]
    BY <1>4, <1>5, <2>1 DEF TaskOK
  <2>4. /\ pc[t] \in Filling => workspaces'[place[t]] = workspaces[place[t]]
        /\ pc[t] = "done" => workspaces'[prepared[t].workspace] = workspaces[prepared[t].workspace]
    BY <2>3 DEF Held, Filling
  <2>5. pc[t] = "finish" => IsClone(t, workspaces[place[t]])'
    BY <1>1, <2>1, <2>2, <2>4 DEF TaskOK, IsClone, Pinned, Filling
  <2>6. pc[t] = "done" => IsClone(t, workspaces[prepared[t].workspace])'
    BY <1>1, <2>1, <2>2, <2>4 DEF TaskOK, IsClone, Pinned, Filling
  <2> QED
    BY <1>1, <1>4, <1>5, <2>1, <2>2, <2>3, <2>4, <2>5, <2>6 DEF TaskOK
<1> QED
  BY <1>4, <1>6, <1>7, <1>8 DEF RepositoryInv

LEMMA NextRepository == RepositoryInv /\ [RepositoryNext]_repositoryVars => RepositoryInv'
<1> SUFFICES ASSUME RepositoryInv, [RepositoryNext]_repositoryVars PROVE RepositoryInv'
  OBVIOUS
<1>1. Locals
  BY DEF RepositoryInv
<1>2. ASSUME NEW t \in Task, Step(t) PROVE RepositoryInv'
  BY <1>2, DiscoverStep, PrepareStep, CloneCachedStep, BeginCloneStep, GitSucceedsStep, GitFailsStep,
     DownloadStep, FinishStep DEF Step
<1>3. ASSUME NEW t \in Task, Expire(t) PROVE RepositoryInv'
  <2>1. DOMAIN expired' = Task /\ DOMAIN tries' = Task
        /\ UNCHANGED <<request, pc, discovered, selected, queue, cached, place, workspaces, prepared>>
    BY <1>1, <1>3 DEF Expire, Locals
  <2> QED
    BY <2>1, RepositoryUnchanged
<1>4. CASE Environment
  BY <1>3, <1>4, EditStep, RepeatStep, CrashStep, OrphanEndsStep DEF Environment
<1>5. CASE UNCHANGED repositoryVars
  <2>1. DOMAIN expired' = Task /\ DOMAIN tries' = Task
        /\ UNCHANGED <<request, pc, discovered, selected, queue, cached, place, workspaces, prepared>>
    BY <1>1, <1>5 DEF repositoryVars, locals, Locals
  <2> QED
    BY <2>1, RepositoryUnchanged
<1> QED
  BY <1>2, <1>4, <1>5 DEF RepositoryNext

(* Whatever the searches, git, the archives and the other plans do, a task holds its
   workspace alone, and what it holds is a clone of a candidate at the commit asked for. *)
THEOREM WorkspacesAreHeldAlone == RepositorySpec => []RepositoryInv
BY InitRepository, NextRepository, PTL DEF RepositorySpec

(* A prepared workspace is the plan's alone, of a candidate, of the commit its report and
   its marker name and of the one the plan asked for (cloneCachedGitRepository,
   cloneRepositoryRevisionWithRetry, executeRepoPrepare). *)
THEOREM PreparedWorkspacesAreSound == RepositorySpec => []PreparedWorkspaces
<1>1. RepositoryInv => PreparedWorkspaces
  <2> SUFFICES ASSUME RepositoryInv, NEW t \in Task, pc[t] = "done"
               PROVE  LET w == workspaces[prepared[t].workspace]
                      IN  /\ prepared[t].workspace \in DOMAIN workspaces
                          /\ \A u \in Task \ {t} : /\ pc[u] = "done" => prepared[u].workspace # prepared[t].workspace
                                                   /\ place[u] # prepared[t].workspace
                          /\ w.files \subseteq {t}
                          /\ prepared[t].repo \in Candidates(t)
                          /\ prepared[t].commit \in {w.tree, NoCommit} /\ w.marker.commit = prepared[t].commit
                          /\ Pinned(t) => w.tree = Revision(request[t]) /\ prepared[t].commit = w.tree
    BY DEF PreparedWorkspaces
  <2>1. TaskOK(t) /\ Held(t) = {prepared[t].workspace}
    BY DEF RepositoryInv, Held
  <2>2. prepared[t].workspace \in DOMAIN workspaces /\ prepared[t].workspace # NoWorkspace
    BY <2>1, RepositoryAssumption DEF TaskOK, RepositoryInv, Directory, Names
  <2>3. ASSUME NEW u \in Task \ {t}
        PROVE  /\ pc[u] = "done" => prepared[u].workspace # prepared[t].workspace
               /\ place[u] # prepared[t].workspace
    <3>1. TaskOK(u) /\ Held(u) \cap Held(t) = {}
      BY DEF RepositoryInv, Exclusive
    <3>2. CASE pc[u] = "done"
      BY <2>1, <2>2, <3>1, <3>2 DEF Held, TaskOK, Filling
    <3>3. CASE pc[u] \in Filling
      BY <2>1, <3>1, <3>3 DEF Held, Filling
    <3>4. CASE pc[u] # "done" /\ pc[u] \notin Filling
      BY <2>2, <3>1, <3>4 DEF TaskOK
    <3> QED
      BY <3>2, <3>3, <3>4
  <2>4. /\ IsClone(t, workspaces[prepared[t].workspace])
        /\ workspaces[prepared[t].workspace].files \subseteq {t}
        /\ prepared[t].repo = workspaces[prepared[t].workspace].marker.repo
        /\ prepared[t].commit = workspaces[prepared[t].workspace].marker.commit
    BY <2>1 DEF TaskOK
  <2> QED
    BY <2>2, <2>3, <2>4 DEF IsClone, Pinned
<1> QED
  BY <1>1, WorkspacesAreHeldAlone, PTL
=============================================================================
