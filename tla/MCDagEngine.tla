------------------------------ MODULE MCDagEngine ------------------------------
(* Three plans: a race and after it a node whose command the agent offers; two *)
(* nodes side by side, one with a dependency that is not in the plan, and a    *)
(* node after both; and three nodes side by side for two slots, one for which  *)
(* the agent never offers a command.                                           *)
EXTENDS DagEngine

Planning(dependencies, commands) == [dependencies |-> dependencies, commands |-> commands]

Race == [n \in {"first", "vague"} |->
            IF n = "first" THEN Planning({}, {"f", "g"}) ELSE Planning({"first"}, {})]
Join == [n \in {"first", "beside", "vague"} |->
            CASE n = "first" -> Planning({"unknown"}, {"f"})
              [] n = "beside" -> Planning({}, {"g"})
              [] n = "vague" -> Planning({"first", "beside"}, {})]

Wide == [n \in {"first", "beside", "unknown"} |->
            Planning({}, CASE n = "first" -> {"f"} [] n = "beside" -> {"g"} [] n = "unknown" -> {})]

MCNode == {"first", "beside", "vague", "unknown"}
MCCommand == {"f", "g", "v"}
MCPlans == {Race, Join, Wide}
MCOffered == [n \in MCNode |-> IF n = "vague" THEN {"v"} ELSE {}]
=============================================================================
