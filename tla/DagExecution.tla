---------------------------- MODULE DagExecution ----------------------------
(***************************************************************************)
(* What the plan scheduler promises about one task graph, with its runner,  *)
(* workers, leases, queues and user commands abstracted away.               *)
(*                                                                          *)
(* Every task is to do, running or done.  An attempt starts only when all   *)
(* the dependencies of the task are done, the attempts of a task are        *)
(* numbered, at most one of them is current, and only the current one may   *)
(* record its outcome - once, and for good.  A running attempt may instead  *)
(* be given up (failure, retry, reassignment, cancellation, restart), alone *)
(* or together with others, and then nothing of it is ever recorded.        *)
(*                                                                          *)
(* PlanScheduler implements this module.                                    *)
(***************************************************************************)
EXTENDS Naturals

CONSTANTS Tasks,   \* the nodes of the plan graph
          Deps     \* Deps[t]: the tasks t depends on

VARIABLES phase,     \* phase[t]: "todo", "running" or "done"
          attempt,   \* attempt[t]: the number of attempts of t started so far
          recorded   \* recorded[t]: the attempt whose outcome is kept, 0 if none

vars == <<phase, attempt, recorded>>

Init == /\ phase = [t \in Tasks |-> "todo"]
        /\ attempt = [t \in Tasks |-> 0]
        /\ recorded = [t \in Tasks |-> 0]

Start(t) == /\ phase[t] = "todo"
            /\ \A d \in Deps[t] : phase[d] = "done"
            /\ phase' = [phase EXCEPT ![t] = "running"]
            /\ attempt' = [attempt EXCEPT ![t] = @ + 1]
            /\ UNCHANGED recorded

Finish(t) == /\ phase[t] = "running"
             /\ phase' = [phase EXCEPT ![t] = "done"]
             /\ recorded' = [recorded EXCEPT ![t] = attempt[t]]
             /\ UNCHANGED attempt

GiveUp(S) == /\ \A t \in S : phase[t] = "running"
             /\ phase' = [t \in Tasks |-> IF t \in S THEN "todo" ELSE phase[t]]
             /\ UNCHANGED <<attempt, recorded>>

Next == \/ \E t \in Tasks : Start(t) \/ Finish(t)
        \/ \E S \in SUBSET Tasks : GiveUp(S)

Spec == Init /\ [][Next]_vars
=============================================================================
