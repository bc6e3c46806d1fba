--------------------------- MODULE MCPlanScheduler ---------------------------
(* Small plans for TLC: the shapes the planner's templates are made of.      *)
EXTENDS PlanSchedulerClaims, TLC

CONSTANTS a, b, c, coder, sandbox, ka, kb

AllCoder == [t \in Tasks |-> coder]
InOrder == [t \in Tasks |-> CASE t = a -> 1 [] t = b -> 2 [] t = c -> 3]

(* A join: a and b are independent; c needs both and reads a's artifact.     *)
JoinDeps == (a :> {}) @@ (b :> {}) @@ (c :> {a, b})
JoinRequires == (a :> {}) @@ (b :> {}) @@ (c :> {ka})
JoinOutputs == (a :> {ka}) @@ (b :> {kb}) @@ (c :> {})

(* A chain of two: b needs a and its artifact. *)
ChainDeps == (a :> {}) @@ (b :> {a})
ChainRequires == (a :> {}) @@ (b :> {ka})
ChainOutputs == (a :> {ka}) @@ (b :> {kb})

(* Two independent tasks. *)
PairDeps == (a :> {}) @@ (b :> {})
PairOutputs == (a :> {ka}) @@ (b :> {kb})

(* The plans of the runs can be carried out. *)
ASSUME PlanIsFeasible == Feasible
=============================================================================
