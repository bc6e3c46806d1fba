------------------------- MODULE PlanSchedulerClaims -------------------------
(***************************************************************************)
(* What the repository's documents say of plan execution and the code does  *)
(* not do.                                                                  *)
(***************************************************************************)
EXTENDS PlanScheduler

(* scholar-agent/docs/agent_runtime_p0_p1.md:60-62 and the comment of        *)
(* RecoverInterruptedPlans (recovery.go): after a restart interrupted tasks  *)
(* are pending again and old leases are cleared.  Recovery skips a plan that *)
(* a command had set back to pending while its run went on.                  *)
RecoveryRequeuesInterruptedTasks ==
  restarts > 0 /\ runner = "idle" /\ workers = {} => NoRunning
=============================================================================
