----------------------------- MODULE MCPlanStore -----------------------------
(* Two plans, the smallest number with which an event can miss its own.       *)
EXTENDS PlanStore

CONSTANTS plan1, plan2
=============================================================================
