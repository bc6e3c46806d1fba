----------------------- MODULE ExperimentSearchProofs -----------------------
(***************************************************************************)
(* Proofs about ExperimentSearch for any routes, parameters, scores, limits  *)
(* and specifications, and any number of lost and late requests: the slots   *)
(* and the budget, that no candidate is tried twice and that defaults come    *)
(* first, that what the service learns from was measured, and that the       *)
(* search is a budgeted one.                                                 *)
(***************************************************************************)
EXTENDS ExperimentSearch, FiniteSetTheorems, SequenceTheorems, WellFoundedInduction, TLAPS

Searching == {"loop", "launch", "receive", "finish"}

Identity == Strategy \X Point
Outcome == Score \cup {NoScore}
Waiting == [id : Identity, parent : Identity \cup {NoCandidate}, depth : Nat]
Evaluation == [id : Identity, parent : Identity \cup {NoCandidate}, depth : Nat,
               worker : Nat, sent : BOOLEAN]
Result == [number : Nat, score : Outcome]
Trial == [number : Nat, id : Identity, status : {"baseline", "kept", "rejected"},
          score : Outcome, path : SUBSET Identity]
StopReason == {"", "wall_time_budget_exhausted", "baseline_target_reached", "target_score_reached",
               "candidate_space_exhausted", "trial_budget_exhausted"}
Ledger == [campaign : Nat, trials : Seq(Trial), best : Identity \cup {NoCandidate},
           score : Int, completed : Nat, stop : StopReason]
Frozen == [wellFormed : BOOLEAN, baseline : Strategy, others : SUBSET Strategy,
           maxTrials : Nat, workers : Nat, beam : Nat, slots : Nat, runs : Nat,
           isolation : {"", "serial", "readonly"}]

\* Where a task can be, and what there is when it does not search.
Phases ==
    /\ task \in {"spec", "run", "validate"}
    /\ pc \in Searching \cup {"idle", "validate", "reported", "failed", "done"}
    /\ phase \in {"model_defaults", "parameter_search"}
    /\ task = "spec" => pc \in {"idle", "failed"}
    /\ task # "spec" => spec \in Frozen /\ IsFiniteSet(spec.others) /\ spec.baseline \notin spec.others
    /\ pc \in Searching => task = "run"
    /\ pc \in {"validate", "reported"} => task = "validate"
    /\ pc \notin Searching => /\ queue = {} /\ seen = {} /\ results = <<>>
                              /\ DOMAIN running = {} /\ ledger = NoLedger

Typed ==
    /\ queue \subseteq Waiting /\ IsFiniteSet(queue) /\ seen \subseteq Identity
    /\ running \in [DOMAIN running -> Evaluation]
    /\ results \in Seq(Result)
    /\ dispatched \in Nat /\ launch \in Nat /\ campaign \in Nat
    /\ ledger \in Ledger /\ published \in Ledger

\* The slots and the budget.
Slots == pc \in Searching =>
    /\ DOMAIN running \subseteq 1..dispatched
    /\ \A n \in DOMAIN running : running[n].worker \in 1..spec.workers
    /\ \A n, m \in DOMAIN running : running[n].worker = running[m].worker => n = m
    /\ ledger.completed + InFlight = dispatched
    /\ dispatched <= spec.maxTrials
    /\ pc = "launch" => /\ launch > 0 /\ dispatched + launch <= spec.maxTrials
                        /\ launch <= Cardinality(FreeWorkers)
    /\ ledger.best \in Identity

\* An evaluation that ended has one result on the channel.
Channel ==
    /\ \A k \in DOMAIN results : /\ results[k].number \in DOMAIN running
                                 /\ running[results[k].number].sent
    /\ \A k, l \in DOMAIN results : results[k].number = results[l].number => k = l

\* What was measured, what is being evaluated and what waits are different candidates,
\* and none of them may wait again.
Disjoint ==
    /\ \A i, j \in DOMAIN ledger.trials : ledger.trials[i].id = ledger.trials[j].id => i = j
    /\ \A n, m \in DOMAIN running : running[n].id = running[m].id => n = m
    /\ \A c, d \in queue : c.id = d.id => c = d
    /\ \A n \in DOMAIN running, i \in DOMAIN ledger.trials : ledger.trials[i].id # running[n].id
    /\ \A c \in queue, i \in DOMAIN ledger.trials : ledger.trials[i].id # c.id
    /\ \A c \in queue, n \in DOMAIN running : running[n].id # c.id
    /\ \A i \in DOMAIN ledger.trials : ledger.trials[i].id \in seen
    /\ \A n \in DOMAIN running : running[n].id \in seen
    /\ Ids(queue) \subseteq seen

\* The second phase begins when every route's default was measured.
Barrier ==
    /\ pc \in Searching /\ phase = "parameter_search" => DefaultsComplete(ledger.trials)
    /\ \A n \in DOMAIN running : running[n].depth > 0 => phase = "parameter_search"

SearchInv == Phases /\ Typed /\ Slots /\ Channel /\ Disjoint /\ Barrier

\* A trial of a ledger that was reported as this outcome.
IsTrial(l, key, candidate, score) ==
    \E i \in DOMAIN l.trials : /\ l.trials[i].number = key[2] /\ l.trials[i].id = candidate
                               /\ l.trials[i].score = score

\* An outcome is one of the ledger as long as its campaign goes on, and of the published
\* ledger when that is the campaign's; campaigns that were given up do not matter.
Measured(key, candidate, score) ==
    /\ key[1] \in 0..campaign
    /\ key[1] = campaign /\ pc \in Searching => IsTrial(ledger, key, candidate, score)
    /\ key[1] = campaign /\ task = "validate" => IsTrial(published, key, candidate, score)

HandedOver(c, score) == task = "validate" /\ c = campaign /\ score = published.score

ServiceInv ==
    /\ DOMAIN store = {"decisions", "outcomes", "validations"}
    /\ \A k \in DOMAIN store.outcomes :
          /\ k \in DOMAIN store.decisions /\ store.decisions[k] = store.outcomes[k].candidate
          /\ Measured(k, store.outcomes[k].candidate, store.outcomes[k].score)
    /\ \A c \in DOMAIN store.validations : HandedOver(c, store.validations[c].score)
    /\ \A r \in requests :
          /\ r.kind \in {"decision", "outcome", "validation"}
          /\ r.kind = "outcome" => Measured(r.key, r.candidate, r.score)
          /\ r.kind = "validation" => HandedOver(r.key, r.score)
    /\ task = "validate" => published.campaign = campaign

-----------------------------------------------------------------------------
(* Operators                                                                 *)

(* A set of numbers has a least one. *)
LEMMA MinIs ==
    ASSUME NEW S \in SUBSET Nat, S # {}
    PROVE  Min(S) \in S
<1>1. PICK x \in S : \A y \in S : ~(<<y, x>> \in OpToRel(<, Nat))
  BY NatLessThanWellFounded, WFMin
<1>2. \A y \in S : ~(y < x)
  BY <1>1 DEF OpToRel
<1>3. \A y \in S : x =< y
  BY <1>2
<1> QED
  BY <1>3 DEF Min

LEMMA LeastIs ==
    ASSUME NEW a \in Int, NEW b \in Int
    PROVE  Least(a, b) \in {a, b} /\ Least(a, b) <= a /\ Least(a, b) <= b
  BY DEF Least

LEMMA AppendShape ==
    ASSUME NEW S, NEW s \in Seq(S), NEW e \in S
    PROVE  /\ Append(s, e) \in Seq(S) /\ Len(s) \in Nat
           /\ DOMAIN s = 1..Len(s) /\ DOMAIN Append(s, e) = 1..(Len(s) + 1)
           /\ \A i \in 1..Len(s) : Append(s, e)[i] = s[i]
           /\ Append(s, e)[Len(s) + 1] = e
  OBVIOUS

LEMMA TailShape ==
    ASSUME NEW S, NEW s \in Seq(S), s # <<>>
    PROVE  /\ Tail(s) \in Seq(S) /\ Len(s) \in Nat \ {0} /\ s[1] \in S
           /\ DOMAIN s = 1..Len(s) /\ DOMAIN Tail(s) = 1..(Len(s) - 1)
           /\ \A i \in 1..(Len(s) - 1) : Tail(s)[i] = s[i + 1] /\ i + 1 \in 1..Len(s)
  OBVIOUS

(* The frontier is a part of the queue, of its defaults in the first phase. *)
LEMMA FrontierShape ==
    ASSUME NEW frontier \in Frontiers
    PROVE  /\ frontier \subseteq queue
           /\ phase = "model_defaults" => \A c \in frontier : c.depth = 0
<1>1. CASE phase = "model_defaults"
  BY <1>1 DEF Frontiers
<1>2. CASE phase # "model_defaults"
  <2>1. PICK choice \in [Strategies(spec) -> SUBSET queue] : frontier = UNION Range(choice)
    BY <1>2 DEF Frontiers
  <2> QED
    BY <1>2, <2>1 DEF Range
<1> QED
  BY <1>1, <1>2

(* A route's default is a candidate without a parent. *)
LEMMA DefaultShape ==
    ASSUME NEW strategy \in Strategy
    PROVE  /\ DefaultCandidate(strategy) \in Waiting
           /\ DefaultCandidate(strategy).id \in Identity
           /\ DefaultCandidate(strategy).id[1] = strategy
           /\ DefaultCandidate(strategy).id = Id(strategy, DefaultPoint)
           /\ DefaultCandidate(strategy).depth = 0
<1>1. DefaultPoint \in Point
  BY DomainAssumption DEF DefaultPoint, Point
<1> QED
  BY <1>1 DEF DefaultCandidate, Id, Waiting, Identity

(* The refinements of a candidate are of its route, different from it and from one
   another. *)
LEMMA RefineShape ==
    ASSUME NEW candidate, candidate.id \in Identity, candidate.depth \in Nat
    PROVE  \A c \in Refine(candidate) :
              /\ c \in Waiting
              /\ c.id[1] = candidate.id[1] /\ c.id # candidate.id
              /\ \A d \in Refine(candidate) : c.id = d.id => c = d
<1> DEFINE point == candidate.id[2]
           moves == {pv \in Param \X (1..Size) : pv[2] - point[pv[1]] \in {-1, 1}}
           child(pv) == [id |-> Id(candidate.id[1], [point EXCEPT ![pv[1]] = pv[2]]),
                         parent |-> candidate.id, depth |-> candidate.depth + 1]
<1>1. Refine(candidate) = {child(pv) : pv \in moves}
  BY DEF Refine
<1>2. point \in Point /\ candidate.id = <<candidate.id[1], point>> /\ candidate.id[1] \in Strategy
  BY DEF Identity
<1>3. ASSUME NEW pv \in moves
      PROVE  /\ [point EXCEPT ![pv[1]] = pv[2]] \in Point
             /\ [point EXCEPT ![pv[1]] = pv[2]] # point
  <2>1. pv[1] \in Param /\ pv[2] \in 1..Size /\ pv[2] - point[pv[1]] \in {-1, 1}
    OBVIOUS
  <2>2. point[pv[1]] \in 1..Size /\ Size \in Nat
    BY <1>2, <2>1, DomainAssumption DEF Point
  <2>3. pv[2] # point[pv[1]]
    BY <2>1, <2>2
  <2> QED
    BY <1>2, <2>1, <2>3 DEF Point
<1> HIDE DEF moves, point
<1>4. ASSUME NEW pv \in moves
      PROVE  /\ child(pv) \in Waiting
             /\ child(pv).id[1] = candidate.id[1] /\ child(pv).id # candidate.id
             /\ child(pv).parent = candidate.id /\ child(pv).depth = candidate.depth + 1
  BY <1>2, <1>3 DEF Waiting, Identity, Id
<1>5. \A c \in Refine(candidate) : c = [id |-> c.id, parent |-> candidate.id, depth |-> candidate.depth + 1]
  <2> TAKE c \in Refine(candidate)
  <2>1. PICK pv \in moves : c = child(pv)
    BY <1>1
  <2> QED
    BY <2>1
<1> HIDE DEF child
<1> QED
  BY <1>1, <1>4, <1>5

(* There are finitely many. *)
LEMMA RefineIsFinite ==
    ASSUME NEW candidate PROVE IsFiniteSet(Refine(candidate))
<1> DEFINE point == candidate.id[2]
           moves == {pv \in Param \X (1..Size) : pv[2] - point[pv[1]] \in {-1, 1}}
           child == [pv \in moves |->
                       [id |-> Id(candidate.id[1], [point EXCEPT ![pv[1]] = pv[2]]),
                        parent |-> candidate.id, depth |-> candidate.depth + 1]]
<1>1. IsFiniteSet(1..Size)
  BY DomainAssumption, FS_Interval
<1>2. IsFiniteSet(Param \X (1..Size))
  BY <1>1, DomainAssumption, FS_Product
<1>3. IsFiniteSet(moves)
  BY <1>2, FS_Subset
<1>4. child \in Surjection(moves, Refine(candidate))
  BY DEF Refine, Surjection
<1> HIDE DEF moves, child
<1> QED
  BY <1>3, <1>4, FS_Surjection

LEMMA DefaultsAreFinite ==
    ASSUME NEW s, IsFiniteSet(s.others) PROVE IsFiniteSet(Defaults(s))
<1> DEFINE default == [strategy \in s.others |-> DefaultCandidate(strategy)]
<1>1. default \in Surjection(s.others, Defaults(s))
  BY DEF Defaults, Surjection
<1> HIDE DEF default
<1> QED
  BY <1>1, FS_Surjection

(* What validation accepts. *)
LEMMA NormalizedShape ==
    ASSUME NEW raw \in Specs, SpecIsValid(Normalize(raw))
    PROVE  /\ Normalize(raw) \in Frozen /\ IsFiniteSet(Normalize(raw).others)
           /\ Normalize(raw).baseline \notin Normalize(raw).others
<1>1. raw \in Frozen /\ IsFiniteSet(raw.others)
  BY SpecsAssumption DEF Frozen
<1>2. Normalize(raw) \in Frozen /\ Normalize(raw).others = raw.others
  BY <1>1, LimitsAssumption DEF Normalize, OrDefault, Frozen
<1> QED
  BY <1>1, <1>2 DEF SpecIsValid

(* A new entry of a function. *)
LEMMA PutShape ==
    ASSUME NEW f, NEW k, NEW v
    PROVE  /\ DOMAIN Put(f, k, v) = DOMAIN f \cup {k}
           /\ Put(f, k, v)[k] = v
           /\ \A j \in DOMAIN f \ {k} : Put(f, k, v)[j] = f[j]
  BY DEF Put

(* The workers that are free, and how many: no two evaluations share one. *)
LEMMA WorkersAreCounted ==
    ASSUME Phases, Typed, Slots, pc \in Searching
    PROVE  /\ IsFiniteSet(DOMAIN running) /\ InFlight \in Nat
           /\ InFlight <= spec.workers
           /\ IsFiniteSet(FreeWorkers) /\ Cardinality(FreeWorkers) \in Nat
           /\ spec.workers \in Nat
<1>1. spec.workers \in Nat
  BY DEF Phases, Frozen, Searching
<1>2. IsFiniteSet(DOMAIN running)
  <2>1. dispatched \in Int /\ DOMAIN running \in SUBSET (1..dispatched)
    BY DEF Slots, Typed
  <2>2. IsFiniteSet(1..dispatched)
    BY <2>1, FS_Interval
  <2> QED
    BY <2>1, <2>2, FS_Subset
<1>3. IsFiniteSet(1..spec.workers) /\ Cardinality(1..spec.workers) = spec.workers
  BY <1>1, FS_Interval
<1>4. [n \in DOMAIN running |-> running[n].worker] \in Injection(DOMAIN running, 1..spec.workers)
  BY DEF Slots, Injection, IsInjective
<1>5. InFlight \in Nat /\ InFlight <= spec.workers
  BY <1>2, <1>3, <1>4, FS_Injection, FS_CardinalityType DEF InFlight
<1>6. IsFiniteSet(FreeWorkers) /\ Cardinality(FreeWorkers) \in Nat
  <2>1. FreeWorkers \in SUBSET (1..spec.workers)
    BY DEF FreeWorkers
  <2> QED
    BY <1>3, <2>1, FS_Subset, FS_CardinalityType
<1> QED
  BY <1>1, <1>2, <1>5, <1>6

-----------------------------------------------------------------------------
(* The search: steps that begin or end it, or leave it alone                 *)

LEMMA NoLedgerShape ==
    /\ NoLedger \in Ledger /\ NoLedger.trials = <<>> /\ NoLedger.best = NoCandidate
    /\ DOMAIN NoLedger.trials = {} /\ NoLedger.completed = 0
<1>1. <<>> \in Seq(Trial) /\ DOMAIN <<>> = {}
  OBVIOUS
<1> QED
  BY <1>1 DEF NoLedger, Ledger, StopReason

LEMMA InitSearch == Init => SearchInv
<1> SUFFICES ASSUME Init PROVE SearchInv
  OBVIOUS
<1>1. Phases
  BY DEF Init, Phases, Searching, NoLedger
<1>2. <<>> \in Seq(Result) /\ DOMAIN <<>> = {}
  OBVIOUS
<1>3. Typed
  BY <1>2, NoLedgerShape, FS_EmptySet DEF Init, Typed
<1>4. Slots /\ Channel /\ Barrier
  BY <1>2 DEF Init, Slots, Channel, Barrier, Searching
<1>5. Disjoint
  BY NoLedgerShape DEF Init, Disjoint, Ids
<1> QED
  BY <1>1, <1>3, <1>4, <1>5 DEF SearchInv

(* Without a search there is nothing to keep. *)
LEMMA NothingToKeep ==
    ASSUME Phases', published' \in Ledger, campaign' \in Nat, dispatched' \in Nat, launch' \in Nat,
           pc' \notin Searching
    PROVE  (Typed /\ Slots /\ Channel /\ Disjoint /\ Barrier)'
<1>1. queue' = {} /\ seen' = {} /\ results' = <<>> /\ DOMAIN running' = {} /\ ledger' = NoLedger
  BY DEF Phases
<1>2. <<>> \in Seq(Result) /\ DOMAIN <<>> = {} /\ {} \subseteq Waiting
  OBVIOUS
<1>3. Typed'
  BY <1>1, <1>2, NoLedgerShape, FS_EmptySet DEF Typed
<1>4. Slots' /\ Channel' /\ Barrier'
  BY <1>1, <1>2 DEF Slots, Channel, Barrier
<1>5. Disjoint'
  BY <1>1, NoLedgerShape DEF Disjoint, Ids
<1> QED
  BY <1>3, <1>4, <1>5

(* A search that ends leaves nothing. *)
LEMMA ResetStep ==
    ASSUME SearchInv, Reset, spec' = spec, pc' \in {"idle", "failed"},
           task' = task \/ (task = "run" /\ task' = "validate"),
           published' \in Ledger, campaign' \in Nat
    PROVE  SearchInv'
<1>1. Phases'
  BY DEF SearchInv, Phases, Reset, Searching
<1>2. dispatched' \in Nat /\ launch' \in Nat /\ pc' \notin Searching
  BY DEF Reset, Searching
<1>3. (Typed /\ Slots /\ Channel /\ Disjoint /\ Barrier)'
  BY <1>1, <1>2, NothingToKeep
<1> QED
  BY <1>1, <1>3 DEF SearchInv

(* Steps of other tasks, of the service and of the clock. *)
LEMMA QuietStep ==
    ASSUME SearchInv,
           UNCHANGED <<queue, seen, phase, running, results, dispatched, launch, ledger,
                       published, campaign>>,
           \/ UNCHANGED <<spec, task, pc>>
           \/ /\ UNCHANGED <<spec, task>> /\ pc \notin Searching /\ task = "validate"
              /\ pc' \in {"idle", "validate", "reported", "failed", "done"}
           \/ Freeze
    PROVE  SearchInv'
<1>1. CASE UNCHANGED <<spec, task, pc>>
  BY <1>1 DEF SearchInv, Phases, Typed, Slots, Channel, Disjoint, Barrier, Ids, InFlight, FreeWorkers, DefaultsComplete
<1>2. CASE pc \notin Searching /\ ~UNCHANGED <<spec, task, pc>>
  <2>1. Phases'
    <3>1. CASE Freeze
      BY <1>2, <3>1, NormalizedShape DEF Freeze, SearchInv, Phases, Searching
    <3>2. CASE ~Freeze
      BY <1>2, <3>2 DEF SearchInv, Phases, Searching
    <3> QED
      BY <3>1, <3>2
  <2>2. pc' \notin Searching
    BY <1>2 DEF Freeze, Searching
  <2>3. published' \in Ledger /\ campaign' \in Nat /\ dispatched' \in Nat /\ launch' \in Nat
    BY DEF SearchInv, Typed
  <2>4. (Typed /\ Slots /\ Channel /\ Disjoint /\ Barrier)'
    BY <2>1, <2>2, <2>3, NothingToKeep
  <2> QED
    BY <2>1, <2>4 DEF SearchInv
<1>3. pc \notin Searching \/ UNCHANGED <<spec, task, pc>>
  BY DEF Freeze, Searching
<1> QED
  BY <1>1, <1>2, <1>3

(* The baseline is measured. *)
LEMMA MeasureBaselineStep == SearchInv /\ MeasureBaseline => SearchInv'
<1> SUFFICES ASSUME SearchInv, MeasureBaseline PROVE SearchInv'
  OBVIOUS
<1> DEFINE baseline == DefaultCandidate(spec.baseline)
           first == {c \in Defaults(spec) \cup Refine(baseline) : c.id # baseline.id}
<1> USE DEF Searching
<1>1. PICK score \in Outcomes :
        IF score = NoScore
        THEN pc' = "failed" /\ Reset
        ELSE /\ pc' = "loop"
             /\ queue' = first /\ seen' = Ids(first) \cup {baseline.id}
             /\ phase' = IF spec.others = {} THEN "parameter_search" ELSE "model_defaults"
             /\ ledger' = [NoLedger EXCEPT
                  !.trials = <<[number |-> 0, id |-> baseline.id, status |-> "baseline",
                                score |-> score, path |-> {baseline.id}]>>,
                  !.best = baseline.id, !.score = score,
                  !.stop = IF spec.others = {} /\ TargetReached(score)
                           THEN "baseline_target_reached" ELSE ""]
             /\ running' = [n \in {} |-> 0] /\ results' = <<>>
             /\ dispatched' = 0 /\ launch' = 0 /\ expired' = FALSE /\ validation' = NoValidation
  BY DEF MeasureBaseline
<1>2. task = "run" /\ campaign' = campaign + 1 /\ UNCHANGED <<spec, task, published>>
  BY DEF MeasureBaseline
<1>3. CASE score = NoScore
  BY <1>1, <1>2, <1>3, ResetStep DEF SearchInv, Typed
<1>4. CASE score # NoScore
  <2>1. spec \in Frozen /\ spec.baseline \in Strategy /\ spec.others \subseteq Strategy
        /\ IsFiniteSet(spec.others) /\ spec.baseline \notin spec.others
    BY <1>2 DEF SearchInv, Phases, Frozen
  <2>2. score \in Score /\ score \in Int /\ score \in Outcome
    BY <1>4, ScoreAssumption DEF Outcomes, Outcome
  <2>3. /\ baseline \in Waiting /\ baseline.id \in Identity /\ baseline.depth \in Nat
        /\ baseline.id[1] = spec.baseline
    BY <2>1, DefaultShape
  <2>4. first \subseteq Waiting /\ \A c \in first : c.id \in Identity
    <3>1. Defaults(spec) \subseteq Waiting
      BY <2>1, DefaultShape DEF Defaults
    <3>2. Refine(baseline) \subseteq Waiting
      BY <2>3, RefineShape
    <3> QED
      BY <3>1, <3>2 DEF Waiting
  <2>5. IsFiniteSet(first)
    <3>1. IsFiniteSet(Defaults(spec) \cup Refine(baseline))
      BY <2>1, DefaultsAreFinite, RefineIsFinite, FS_Union
    <3> QED
      BY <3>1, FS_Subset
  <2>6. \A c, d \in first : c.id = d.id => c = d
    <3>1. \A c \in Defaults(spec) : c.id[1] \in spec.others /\ c = DefaultCandidate(c.id[1])
      BY <2>1, DefaultShape DEF Defaults
    <3>2. \A c \in Refine(baseline) : /\ c.id[1] = spec.baseline
                                      /\ \A d \in Refine(baseline) : c.id = d.id => c = d
      BY <2>3, RefineShape
    <3> HIDE DEF baseline
    <3> QED
      BY <2>1, <3>1, <3>2
  <2> DEFINE trial == [number |-> 0, id |-> baseline.id, status |-> "baseline",
                       score |-> score, path |-> {baseline.id}]
  <2>7. /\ DOMAIN ledger' = DOMAIN NoLedger
        /\ ledger'.trials = <<trial>> /\ ledger'.completed = 0 /\ ledger'.best = baseline.id
        /\ ledger' \in Ledger
    <3>1. trial \in Trial
      BY <2>2, <2>3 DEF Trial
    <3>2. <<trial>> \in Seq(Trial)
      BY <3>1
    <3> HIDE DEF trial
    <3>3. ledger' = [NoLedger EXCEPT !.trials = <<trial>>, !.best = baseline.id, !.score = score,
                       !.stop = IF spec.others = {} /\ TargetReached(score)
                                THEN "baseline_target_reached" ELSE ""]
      BY <1>1, <1>4 DEF trial
    <3> HIDE DEF baseline
    <3> DEFINE stop == IF spec.others = {} /\ TargetReached(score)
                       THEN "baseline_target_reached" ELSE ""
               trials == <<trial>>
    <3>4. stop \in StopReason /\ trials \in Seq(Trial)
      BY <3>2 DEF StopReason
    <3>5. ledger' = [NoLedger EXCEPT !.trials = trials, !.best = baseline.id, !.score = score, !.stop = stop]
      BY <3>3
    <3> HIDE DEF stop, trials
    <3>6. ledger' = [campaign |-> 0, trials |-> trials, best |-> baseline.id, score |-> score,
                     completed |-> 0, stop |-> stop]
      BY <3>5 DEF NoLedger
    <3>7. ledger' \in Ledger
      BY <2>2, <2>3, <3>4, <3>6 DEF Ledger
    <3> QED
      BY <3>6, <3>7 DEF trials, NoLedger
  <2>8. /\ pc' = "loop" /\ queue' = first /\ seen' = Ids(first) \cup {baseline.id}
        /\ phase' = IF spec.others = {} THEN "parameter_search" ELSE "model_defaults"
        /\ DOMAIN running' = {} /\ results' = <<>> /\ dispatched' = 0 /\ launch' = 0
    BY <1>1, <1>4
  <2>9. DOMAIN ledger'.trials = {1} /\ ledger'.trials[1].id = baseline.id
    BY <2>7
  <2>10. \A c \in first : c.id # baseline.id
    OBVIOUS
  <2> HIDE DEF trial, first, baseline
  <2>11. Phases'
    BY <1>2, <2>8, <2>1 DEF SearchInv, Phases
  <2>12. Typed'
    BY <1>2, <2>3, <2>4, <2>5, <2>7, <2>8 DEF SearchInv, Typed, Ids
  <2>13. Slots'
    <3>1. InFlight' = 0
      BY <2>8, FS_EmptySet DEF InFlight
    <3>2. spec.maxTrials \in Nat
      BY <2>1 DEF Frozen
    <3> QED
      BY <1>2, <2>3, <2>7, <2>8, <3>1, <3>2 DEF Slots
  <2>14. Channel' /\ Barrier'
    <3>1. DOMAIN results' = {}
      BY <2>8
    <3> QED
      BY <1>2, <2>8, <3>1 DEF Channel, Barrier, DefaultsComplete
  <2>15. Disjoint'
    BY <2>6, <2>8, <2>9, <2>10 DEF Disjoint, Ids
  <2> QED
    BY <2>11, <2>12, <2>13, <2>14, <2>15 DEF SearchInv
<1> QED
  BY <1>3, <1>4

(* The head of the loop leaves the search as it is and says how it goes on. *)
LEMMA LoopHeadStep == SearchInv /\ LoopHead => SearchInv'
<1> SUFFICES ASSUME SearchInv, LoopHead PROVE SearchInv'
  OBVIOUS
<1> USE DEF Searching
<1> DEFINE stop == IF expired /\ ledger.stop = "" THEN "wall_time_budget_exhausted" ELSE ledger.stop
<1>1. /\ pc = "loop" /\ ledger' = [ledger EXCEPT !.stop = stop]
      /\ UNCHANGED <<spec, task, published, campaign, queue, seen, phase, running, results, dispatched>>
  BY DEF LoopHead, SearchVars
<1>2. PICK frontier \in Frontiers :
        LET free == Cardinality(FreeWorkers)
            count == Least(Least(free, spec.maxTrials - dispatched), Cardinality(frontier))
        IN  IF stop = "" /\ count > 0
            THEN launch' = count /\ pc' = "launch"
            ELSE UNCHANGED launch /\ pc' = IF InFlight = 0 THEN "finish" ELSE "receive"
  BY DEF LoopHead
<1> DEFINE free == Cardinality(FreeWorkers)
           size == Cardinality(frontier)
           count == Least(Least(free, spec.maxTrials - dispatched), size)
           goesOn == stop = ""
<1>3. free \in Nat /\ spec.maxTrials \in Nat /\ dispatched \in Nat /\ size \in Nat
  <2>1. frontier \in SUBSET queue
    BY FrontierShape
  <2>2. size \in Nat
    BY <2>1, FS_Subset, FS_CardinalityType DEF SearchInv, Typed
  <2>3. free \in Nat
    BY <1>1, WorkersAreCounted DEF SearchInv
  <2> QED
    BY <1>1, <2>2, <2>3 DEF SearchInv, Phases, Frozen, Typed
<1>4. /\ launch' \in Nat /\ pc' \in {"launch", "finish", "receive"}
      /\ pc' = "launch" => launch' > 0 /\ dispatched + launch' <= spec.maxTrials /\ launch' <= free
  <2> HIDE DEF stop, free, size, goesOn
  <2>1. CASE goesOn /\ count > 0
    <3>1. launch' = count /\ pc' = "launch"
      BY <1>2, <2>1 DEF free, size, goesOn
    <3>2. count \in Nat /\ count <= spec.maxTrials - dispatched /\ count <= free
      BY <1>3, <2>1, LeastIs
    <3> HIDE DEF count
    <3> QED
      BY <1>3, <2>1, <3>1, <3>2
  <2>2. CASE ~(goesOn /\ count > 0)
    <3>1. launch' = launch /\ pc' \in {"finish", "receive"}
      BY <1>2, <2>2 DEF free, size, goesOn
    <3> QED
      BY <3>1 DEF SearchInv, Typed
  <2> QED
    BY <2>1, <2>2
<1>5. /\ ledger' \in Ledger /\ ledger'.trials = ledger.trials /\ ledger'.completed = ledger.completed
      /\ ledger'.best = ledger.best
  <2>1. ledger \in Ledger
    BY DEF SearchInv, Typed
  <2>2. stop \in StopReason
    BY <2>1 DEF Ledger, StopReason
  <2> HIDE DEF stop
  <2> QED
    BY <1>1, <2>1, <2>2 DEF Ledger
<1> HIDE DEF stop, free, size, count, goesOn
<1>6. Phases'
  BY <1>1, <1>4 DEF SearchInv, Phases
<1>7. Typed'
  BY <1>1, <1>4, <1>5 DEF SearchInv, Typed
<1>8. Slots'
  <2>1. FreeWorkers' = FreeWorkers /\ InFlight' = InFlight
    BY <1>1 DEF FreeWorkers, InFlight
  <2> QED
    BY <1>1, <1>4, <1>5, <2>1 DEF SearchInv, Slots, free
<1>9. Channel'
  BY <1>1 DEF SearchInv, Channel
<1>10. Disjoint'
  BY <1>1, <1>5 DEF SearchInv, Disjoint, Ids
<1>11. Barrier'
  BY <1>1, <1>5 DEF SearchInv, Barrier, DefaultsComplete
<1> QED
  BY <1>6, <1>7, <1>8, <1>9, <1>10, <1>11 DEF SearchInv

(* A candidate leaves the queue for a worker that is free. *)
LEMMA LaunchStep == SearchInv /\ Launch => SearchInv'
<1> SUFFICES ASSUME SearchInv, Launch PROVE SearchInv'
  OBVIOUS
<1> USE DEF Searching
<1>0. PICK frontier \in Frontiers : \E candidate \in frontier : Start(candidate)
  BY DEF Launch
<1>1. PICK candidate \in frontier : Start(candidate)
  BY <1>0
<1>2. /\ pc = "launch" /\ task = "run"
      /\ UNCHANGED <<spec, task, published, campaign, seen, phase, results, ledger>>
  BY DEF Launch, SearchVars, SearchInv, Phases
<1>3. candidate \in queue /\ (phase = "model_defaults" => candidate.depth = 0)
  BY <1>1, FrontierShape
<1>4. candidate \in Waiting /\ candidate.id \in Identity /\ candidate.depth \in Nat
  BY <1>3 DEF SearchInv, Typed, Waiting
<1> DEFINE n == dispatched + 1
           worker == Min(FreeWorkers)
           evaluation == [id |-> candidate.id, parent |-> candidate.parent, depth |-> candidate.depth,
                          worker |-> worker, sent |-> FALSE]
<1>5. /\ queue' = queue \ {candidate} /\ dispatched' = n /\ launch' = launch - 1
      /\ running' = Put(running, n, evaluation)
      /\ pc' = IF launch = 1 THEN "receive" ELSE "launch"
  BY <1>1 DEF Start
<1>6. /\ dispatched \in Nat /\ launch \in Nat /\ launch > 0 /\ dispatched + launch <= spec.maxTrials
      /\ launch <= Cardinality(FreeWorkers) /\ spec.maxTrials \in Nat
      /\ ledger.completed \in Nat
  BY <1>2 DEF SearchInv, Typed, Slots, Phases, Frozen, Ledger
<1>7. IsFiniteSet(FreeWorkers) /\ FreeWorkers \in SUBSET Nat /\ worker \in FreeWorkers
  <2>1. IsFiniteSet(FreeWorkers) /\ Cardinality(FreeWorkers) \in Nat
    BY <1>2, WorkersAreCounted DEF SearchInv
  <2>2. FreeWorkers # {}
    BY <1>6, <2>1, FS_EmptySet
  <2>3. FreeWorkers \in SUBSET Nat
    BY DEF FreeWorkers
  <2> QED
    BY <2>1, <2>2, <2>3, MinIs
<1>8. worker \in 1..spec.workers /\ worker \in Nat /\ \A m \in DOMAIN running : running[m].worker # worker
  BY <1>7 DEF FreeWorkers
<1>9. n \notin DOMAIN running /\ n \in Nat
  BY <1>2, <1>6 DEF SearchInv, Slots
<1> HIDE DEF worker, evaluation
<1>10. /\ DOMAIN running' = DOMAIN running \cup {n}
       /\ running'[n] = evaluation
       /\ \A m \in DOMAIN running : running'[m] = running[m]
  BY <1>5, <1>9 DEF Put
<1>11. /\ evaluation \in Evaluation /\ evaluation.id = candidate.id /\ evaluation.worker = worker
       /\ evaluation.depth = candidate.depth
  BY <1>4, <1>8 DEF evaluation, Waiting, Evaluation
<1> HIDE DEF n
<1>12. Phases'
  BY <1>2, <1>5 DEF SearchInv, Phases
<1>13. Typed'
  <2>1. running' \in [DOMAIN running' -> Evaluation]
    <3>1. \A m \in DOMAIN running' : running'[m] \in Evaluation
      BY <1>10, <1>11 DEF SearchInv, Typed
    <3>2. running' = [m \in DOMAIN running' |-> running'[m]]
      BY <1>5 DEF Put
    <3> QED
      BY <3>1, <3>2
  <2>2. queue' \subseteq Waiting /\ IsFiniteSet(queue')
    BY <1>5, FS_RemoveElement DEF SearchInv, Typed
  <2>3. dispatched' \in Nat /\ launch' \in Nat
    BY <1>5, <1>6, <1>9
  <2> QED
    BY <1>2, <2>1, <2>2, <2>3 DEF SearchInv, Typed
<1>14. Slots'
  <2>1. InFlight' = InFlight + 1 /\ InFlight \in Nat
    <3>1. IsFiniteSet(DOMAIN running) /\ InFlight \in Nat
      BY <1>2, WorkersAreCounted DEF SearchInv
    <3> QED
      BY <1>9, <1>10, <3>1, FS_AddElement DEF InFlight
  <2>2. DOMAIN running' \subseteq 1..dispatched'
    BY <1>2, <1>5, <1>6, <1>10 DEF SearchInv, Slots, n
  <2>3. \A m \in DOMAIN running' : running'[m].worker \in 1..spec.workers
    BY <1>2, <1>8, <1>10, <1>11 DEF SearchInv, Slots
  <2>4. \A m, k \in DOMAIN running' : running'[m].worker = running'[k].worker => m = k
    BY <1>2, <1>8, <1>10, <1>11 DEF SearchInv, Slots
  <2>5. ledger.completed + InFlight' = dispatched'
    BY <1>2, <1>5, <1>6, <2>1 DEF SearchInv, Slots, n
  <2>6. dispatched' <= spec.maxTrials
    BY <1>5, <1>6 DEF n
  <2>7. pc' = "launch" => /\ launch' > 0 /\ dispatched' + launch' <= spec.maxTrials
                          /\ launch' <= Cardinality(FreeWorkers')
    <3>1. FreeWorkers' = FreeWorkers \ {worker}
      BY <1>2, <1>10, <1>11 DEF FreeWorkers
    <3>2. Cardinality(FreeWorkers') = Cardinality(FreeWorkers) - 1
      BY <1>7, <3>1, FS_RemoveElement
    <3>3. Cardinality(FreeWorkers) \in Nat
      BY <1>7, FS_CardinalityType
    <3> QED
      BY <1>5, <1>6, <3>2, <3>3 DEF n
  <2>8. ledger.best \in Identity
    BY <1>2 DEF SearchInv, Slots
  <2> QED
    BY <1>2, <2>2, <2>3, <2>4, <2>5, <2>6, <2>7, <2>8 DEF Slots
<1>15. Channel'
  BY <1>2, <1>9, <1>10 DEF SearchInv, Channel
<1>16. Disjoint'
  BY <1>2, <1>3, <1>5, <1>9, <1>10, <1>11 DEF SearchInv, Disjoint, Ids
<1>17. Barrier'
  <2>1. phase = "model_defaults" \/ phase = "parameter_search"
    BY DEF SearchInv, Phases
  <2> QED
    BY <1>2, <1>3, <1>5, <1>10, <1>11, <2>1 DEF SearchInv, Barrier, DefaultsComplete
<1> QED
  BY <1>12, <1>13, <1>14, <1>15, <1>16, <1>17 DEF SearchInv

(* An evaluation ends and sends its result. *)
LEMMA EvaluateStep == SearchInv /\ Evaluate => SearchInv'
<1> SUFFICES ASSUME SearchInv, Evaluate PROVE SearchInv'
  OBVIOUS
<1> USE DEF Searching
<1>1. PICK n \in DOMAIN running, score \in Outcomes :
        /\ ~running[n].sent
        /\ running' = [running EXCEPT ![n].sent = TRUE]
        /\ results' = Append(results, [number |-> n, score |-> score])
  BY DEF Evaluate
<1>2. UNCHANGED <<spec, task, pc, published, campaign, queue, seen, phase, dispatched, launch, ledger>>
  BY DEF Evaluate, SearchVars
<1>3. pc \in Searching /\ n \in Nat /\ score \in Outcome
  BY DEF SearchInv, Phases, Slots, Typed, Outcomes, Outcome
<1> DEFINE result == [number |-> n, score |-> score]
<1>4. result \in Result /\ result.number = n /\ results' = Append(results, result)
  BY <1>1, <1>3 DEF Result
<1> HIDE DEF result
<1>5. /\ results' \in Seq(Result) /\ Len(results) \in Nat
      /\ DOMAIN results = 1..Len(results) /\ DOMAIN results' = 1..(Len(results) + 1)
      /\ \A i \in 1..Len(results) : results'[i] = results[i]
      /\ results'[Len(results) + 1] = result
  BY <1>4, AppendShape DEF SearchInv, Typed
<1>6. running \in [DOMAIN running -> Evaluation]
  BY DEF SearchInv, Typed
<1>7. /\ DOMAIN running' = DOMAIN running /\ running' \in [DOMAIN running' -> Evaluation]
      /\ \A m \in DOMAIN running : /\ running'[m].id = running[m].id
                                   /\ running'[m].worker = running[m].worker
                                   /\ running'[m].depth = running[m].depth
                                   /\ m # n => running'[m] = running[m]
      /\ running'[n].sent
  BY <1>1, <1>6 DEF Evaluation
<1>8. Phases'
  BY <1>2, <1>3 DEF SearchInv, Phases
<1>9. Typed'
  BY <1>2, <1>5, <1>7 DEF SearchInv, Typed
<1>10. Slots'
  <2>1. InFlight' = InFlight
    BY <1>7 DEF InFlight
  <2>2. {running'[m].worker : m \in DOMAIN running} = {running[m].worker : m \in DOMAIN running}
    BY <1>7
  <2>3. FreeWorkers' = FreeWorkers
    BY <1>2, <1>7, <2>2 DEF FreeWorkers
  <2> QED
    BY <1>2, <1>7, <2>1, <2>3 DEF SearchInv, Slots
<1>11. Channel'
  <2>1. \A k \in DOMAIN results : results[k].number # n /\ results[k].number \in DOMAIN running
    BY <1>1 DEF SearchInv, Channel
  <2>2. \A k \in DOMAIN results' : /\ results'[k].number \in DOMAIN running'
                                   /\ running'[results'[k].number].sent
    BY <1>4, <1>5, <1>7, <2>1 DEF SearchInv, Channel
  <2>3. \A k, l \in DOMAIN results' : results'[k].number = results'[l].number => k = l
    BY <1>4, <1>5, <2>1 DEF SearchInv, Channel
  <2> QED
    BY <2>2, <2>3 DEF Channel
<1>12. Disjoint'
  BY <1>2, <1>7 DEF SearchInv, Disjoint, Ids
<1>13. Barrier'
  BY <1>2, <1>7 DEF SearchInv, Barrier, DefaultsComplete
<1> QED
  BY <1>8, <1>9, <1>10, <1>11, <1>12, <1>13 DEF SearchInv

(* A result is judged: its trial is logged, its slot is free and its refinements wait. *)
LEMMA ReceiveStep == SearchInv /\ Receive => SearchInv'
<1> SUFFICES ASSUME SearchInv, Receive PROVE SearchInv'
  OBVIOUS
<1> USE DEF Searching
<1> DEFINE n == results[1].number
           score == results[1].score
           candidate == running[n]
           kept == score # NoScore /\ Improves(score)
           trial == [number |-> n, id |-> candidate.id, score |-> score,
                     status |-> IF kept THEN "kept" ELSE "rejected", path |-> PathOf(candidate)]
           trials == Append(ledger.trials, trial)
           children == IF score = NoScore THEN {} ELSE New(Refine(candidate))
           nextPhase == IF candidate.depth = 0 /\ DefaultsComplete(trials)
                        THEN "parameter_search" ELSE phase
           best == IF kept THEN score ELSE ledger.score
           reached == nextPhase = "parameter_search" /\ TargetReached(best)
           stop == IF reached THEN "target_score_reached" ELSE ledger.stop
<1>1. /\ pc = "receive" /\ pc' = "loop" /\ results # <<>> /\ task = "run"
      /\ UNCHANGED <<spec, task, published, campaign, dispatched, launch>>
  BY DEF Receive, SearchVars, SearchInv, Phases
<1>2. /\ results' = Tail(results)
      /\ running' = Restrict(running, DOMAIN running \ {n})
      /\ queue' = queue \cup children /\ seen' = seen \cup Ids(children)
      /\ phase' = nextPhase
      /\ ledger' = [ledger EXCEPT !.trials = trials, !.completed = @ + 1, !.score = best,
                        !.best = IF kept THEN candidate.id ELSE @, !.stop = stop]
  BY DEF Receive
<1>3. /\ results' \in Seq(Result) /\ Len(results) \in Nat \ {0} /\ results[1] \in Result
      /\ DOMAIN results = 1..Len(results) /\ DOMAIN results' = 1..(Len(results) - 1)
      /\ \A i \in 1..(Len(results) - 1) : results'[i] = results[i + 1] /\ i + 1 \in 1..Len(results)
  BY <1>1, <1>2, TailShape DEF SearchInv, Typed
<1>4. /\ 1 \in DOMAIN results /\ n \in DOMAIN running /\ n \in Nat /\ score \in Outcome
      /\ \A i \in DOMAIN results : results[i].number = n => i = 1
  <2>1. 1 \in DOMAIN results
    BY <1>3
  <2>2. n \in Nat /\ score \in Outcome
    BY <1>3 DEF Result
  <2> QED
    BY <2>1, <2>2 DEF SearchInv, Channel
<1>5. candidate \in Evaluation /\ candidate.id \in Identity /\ candidate.depth \in Nat
  BY <1>4 DEF SearchInv, Typed, Evaluation
<1>6. ledger \in Ledger /\ ledger.trials \in Seq(Trial)
  BY DEF SearchInv, Typed, Ledger
<1>7. trial \in Trial /\ trial.id = candidate.id /\ trial.number = n /\ trial.score = score
  <2>1. PathOf(candidate) \subseteq Identity
    <3>1. \A t \in Logged : t \in Trial
      BY <1>6 DEF Logged
    <3>2. \A t \in Logged : t.path \subseteq Identity
      BY <3>1 DEF Trial
    <3> QED
      BY <1>5, <3>2 DEF PathOf
  <2> HIDE DEF candidate, score, n, kept
  <2> QED
    BY <1>4, <1>5, <2>1 DEF Trial
<1> HIDE DEF trial
<1>8. /\ trials \in Seq(Trial) /\ Len(ledger.trials) \in Nat
      /\ DOMAIN ledger.trials = 1..Len(ledger.trials)
      /\ DOMAIN trials = 1..(Len(ledger.trials) + 1)
      /\ \A i \in 1..Len(ledger.trials) : trials[i] = ledger.trials[i]
      /\ trials[Len(ledger.trials) + 1] = trial
  BY <1>6, <1>7, AppendShape
<1>9. /\ children \subseteq Waiting /\ IsFiniteSet(children)
      /\ \A c \in children : c.id \in Identity /\ c.id \notin seen
      /\ \A c, d \in children : c.id = d.id => c = d
  <2>1. \A c \in Refine(candidate) : /\ c \in Waiting
                                     /\ \A d \in Refine(candidate) : c.id = d.id => c = d
    BY <1>5, RefineShape
  <2>2. IsFiniteSet(Refine(candidate)) /\ IsFiniteSet({})
    BY RefineIsFinite, FS_EmptySet
  <2>3. children \subseteq Refine(candidate) /\ \A c \in children : c.id \notin seen
    BY DEF New
  <2> HIDE DEF children, candidate
  <2> QED
    BY <2>1, <2>2, <2>3, FS_Subset DEF Waiting
<1>10. /\ ledger' \in Ledger /\ ledger'.trials = trials
       /\ ledger'.completed = ledger.completed + 1 /\ ledger.completed \in Nat
       /\ ledger'.best = IF kept THEN candidate.id ELSE ledger.best
  <2>1. best \in Int
    BY <1>4, <1>6, ScoreAssumption DEF Ledger, Outcome
  <2>2. stop \in StopReason
    <3> HIDE DEF reached
    <3>1. ledger.stop \in StopReason
      BY <1>6 DEF Ledger
    <3>2. "target_score_reached" \in StopReason
      BY DEF StopReason
    <3> QED
      BY <3>1, <3>2
  <2> DEFINE incumbent == IF kept THEN candidate.id ELSE ledger.best
  <2>3. incumbent \in Identity \cup {NoCandidate} /\ trials \in Seq(Trial)
    BY <1>5, <1>6, <1>8 DEF Ledger
  <2> HIDE DEF best, stop, trials, candidate, kept, incumbent
  <2>4. ledger' = [campaign |-> ledger.campaign, trials |-> trials, best |-> incumbent, score |-> best,
                   completed |-> ledger.completed + 1, stop |-> stop]
    BY <1>2, <1>6 DEF Ledger, incumbent
  <2>5. ledger.campaign \in Nat /\ ledger.completed \in Nat
    BY <1>6 DEF Ledger
  <2>6. ledger' \in Ledger
    BY <2>1, <2>2, <2>3, <2>4, <2>5 DEF Ledger
  <2> QED
    BY <2>4, <2>5, <2>6 DEF incumbent
<1>11. /\ DOMAIN running' = DOMAIN running \ {n}
       /\ running' \in [DOMAIN running' -> Evaluation]
       /\ \A m \in DOMAIN running' : running'[m] = running[m]
  BY <1>2 DEF Restrict, SearchInv, Typed
<1>12. nextPhase \in {"model_defaults", "parameter_search"} /\ (phase = "parameter_search" => nextPhase = phase)
       /\ (nextPhase = "parameter_search" /\ phase # nextPhase => DefaultsComplete(trials))
  BY DEF SearchInv, Phases
<1> HIDE DEF trials, children, nextPhase, best, stop, reached, kept, score, n
<1>13. Phases'
  BY <1>1, <1>2, <1>12 DEF SearchInv, Phases
<1>14. Typed'
  <2>1. queue' \subseteq Waiting /\ IsFiniteSet(queue') /\ seen' \subseteq Identity
    BY <1>2, <1>9, FS_Union DEF SearchInv, Typed, Ids
  <2> QED
    BY <1>1, <1>3, <1>10, <1>11, <2>1 DEF SearchInv, Typed
<1>15. Slots'
  <2>1. InFlight' = InFlight - 1 /\ InFlight \in Nat
    <3>1. IsFiniteSet(DOMAIN running) /\ InFlight \in Nat
      BY <1>1, WorkersAreCounted DEF SearchInv
    <3> QED
      BY <1>4, <1>11, <3>1, FS_RemoveElement DEF InFlight
  <2>2. ledger'.best \in Identity
    BY <1>1, <1>5, <1>10 DEF SearchInv, Slots
  <2>3. dispatched \in Nat
    BY DEF SearchInv, Typed
  <2>4. ledger'.completed + InFlight' = dispatched'
    BY <1>1, <1>10, <2>1, <2>3 DEF SearchInv, Slots
  <2>5. /\ DOMAIN running' \subseteq 1..dispatched
        /\ \A m \in DOMAIN running' : running'[m].worker \in 1..spec.workers
        /\ \A m, k \in DOMAIN running' : running'[m].worker = running'[k].worker => m = k
        /\ dispatched <= spec.maxTrials
    BY <1>1, <1>11 DEF SearchInv, Slots
  <2> QED
    BY <1>1, <2>2, <2>4, <2>5 DEF Slots
<1>16. Channel'
  <2>1. \A k \in DOMAIN results' : /\ k + 1 \in DOMAIN results /\ k + 1 # 1
                                   /\ results'[k] = results[k + 1]
    BY <1>3
  <2>2. \A k \in DOMAIN results' : /\ results'[k].number \in DOMAIN running'
                                   /\ running'[results'[k].number].sent
    BY <1>4, <1>11, <2>1 DEF SearchInv, Channel
  <2>3. \A k, l \in DOMAIN results' : results'[k].number = results'[l].number => k = l
    BY <1>3, <2>1 DEF SearchInv, Channel
  <2> QED
    BY <2>2, <2>3 DEF Channel
<1>17. Disjoint'
  <2> DEFINE len == Len(ledger.trials)
  <2>0. candidate.id \in seen
    BY <1>4 DEF SearchInv, Disjoint
  <2>1. \A i \in DOMAIN trials : \/ i \in DOMAIN ledger.trials /\ trials[i] = ledger.trials[i]
                                 \/ i = len + 1 /\ trials[i].id = candidate.id
    BY <1>7, <1>8
  <2>2. \A i \in DOMAIN ledger.trials : ledger.trials[i].id # candidate.id /\ ledger.trials[i].id \in seen
    BY <1>4 DEF SearchInv, Disjoint
  <2>3. \A i, j \in DOMAIN trials : trials[i].id = trials[j].id => i = j
    BY <2>1, <2>2 DEF SearchInv, Disjoint
  <2>4. \A m, k \in DOMAIN running' : running'[m].id = running'[k].id => m = k
    BY <1>11 DEF SearchInv, Disjoint
  <2>5. \A m \in DOMAIN running' : /\ running'[m].id # candidate.id /\ running'[m].id \in seen
                                   /\ \A i \in DOMAIN ledger.trials : ledger.trials[i].id # running'[m].id
    BY <1>4, <1>11 DEF SearchInv, Disjoint
  <2>6. \A m \in DOMAIN running', i \in DOMAIN trials : trials[i].id # running'[m].id
    BY <2>1, <2>5
  <2>7. \A c \in queue' : c \in queue \/ c \in children
    BY <1>2
  <2>8. \A c \in queue : c.id \in seen /\ c.id # candidate.id
    BY <1>4 DEF SearchInv, Disjoint, Ids
  <2>9. \A c, d \in queue' : c.id = d.id => c = d
    BY <1>9, <2>7, <2>8 DEF SearchInv, Disjoint
  <2>10. \A c \in queue', i \in DOMAIN trials : trials[i].id # c.id
    BY <1>9, <2>0, <2>1, <2>2, <2>7, <2>8 DEF SearchInv, Disjoint
  <2>11. \A c \in queue', m \in DOMAIN running' : running'[m].id # c.id
    BY <1>9, <1>11, <2>5, <2>7 DEF SearchInv, Disjoint
  <2>12. /\ \A i \in DOMAIN trials : trials[i].id \in seen'
         /\ \A m \in DOMAIN running' : running'[m].id \in seen'
         /\ Ids(queue') \subseteq seen'
    BY <1>2, <2>0, <2>1, <2>2, <2>5, <2>7, <2>8 DEF Ids
  <2> QED
    BY <1>10, <2>3, <2>4, <2>6, <2>9, <2>10, <2>11, <2>12 DEF Disjoint, Ids
<1>18. Barrier'
  <2>1. DefaultsComplete(ledger.trials) => DefaultsComplete(trials)
    BY <1>8 DEF DefaultsComplete
  <2>2. phase' = "parameter_search" => DefaultsComplete(trials)
    BY <1>1, <1>2, <1>12, <2>1 DEF SearchInv, Barrier
  <2>3. \A m \in DOMAIN running' : running'[m].depth > 0 => phase' = "parameter_search"
    BY <1>2, <1>11, <1>12 DEF SearchInv, Barrier
  <2> QED
    BY <1>1, <1>10, <2>2, <2>3 DEF Barrier, DefaultsComplete
<1> QED
  BY <1>13, <1>14, <1>15, <1>16, <1>17, <1>18 DEF SearchInv

(* The search hands its ledger over. *)
LEMMA FinishStep == SearchInv /\ Finish => SearchInv'
<1> SUFFICES ASSUME SearchInv, Finish PROVE SearchInv'
  OBVIOUS
<1> DEFINE exhausted == IF dispatched < spec.maxTrials /\ queue = {}
                        THEN "candidate_space_exhausted" ELSE "trial_budget_exhausted"
           stop == IF ledger.stop # "" THEN ledger.stop ELSE exhausted
<1>1. /\ published' = [ledger EXCEPT !.campaign = campaign, !.stop = stop]
      /\ pc = "finish" /\ task' = "validate" /\ pc' = "idle" /\ Reset /\ UNCHANGED <<spec, campaign>>
  BY DEF Finish
<1>2. task = "run" /\ ledger \in Ledger /\ campaign \in Nat
  BY <1>1 DEF SearchInv, Phases, Typed, Searching
<1>3. stop \in StopReason
  <2>1. exhausted \in StopReason
    BY DEF StopReason
  <2>2. ledger.stop \in StopReason
    BY <1>2 DEF Ledger
  <2> HIDE DEF exhausted
  <2> QED
    BY <2>1, <2>2
<1> HIDE DEF stop
<1>4. published' \in Ledger
  BY <1>1, <1>2, <1>3 DEF Ledger
<1> QED
  BY <1>1, <1>2, <1>4, ResetStep

(* Every step of the search, the validation, the service and the clock. *)
LEMMA SearchStep == SearchInv /\ [Next]_vars => SearchInv'
<1> SUFFICES ASSUME SearchInv, [Next]_vars PROVE SearchInv'
  OBVIOUS
<1> USE DEF Searching
<1>1. CASE MeasureBaseline
  BY <1>1, MeasureBaselineStep
<1>2. CASE LoopHead
  BY <1>2, LoopHeadStep
<1>3. CASE Launch
  BY <1>3, LaunchStep
<1>4. CASE Evaluate
  BY <1>4, EvaluateStep
<1>5. CASE Receive
  BY <1>5, ReceiveStep
<1>6. CASE Finish
  BY <1>6, FinishStep
<1>7. CASE Freeze
  BY <1>7, QuietStep DEF Freeze
<1>8. CASE BeginValidation
  BY <1>8, QuietStep DEF BeginValidation, ValidationVars
<1>9. CASE ValidateRun
  BY <1>9, QuietStep DEF ValidateRun, ValidationVars
<1>10. CASE Report
  <2>1. pc = "validate" /\ pc' = "reported" /\ UNCHANGED ValidationVars
    BY <1>10 DEF Report
  <2> QED
    BY <2>1, QuietStep DEF ValidationVars, SearchInv, Phases
<1>11. CASE EndValidation
  <2>1. pc = "reported" /\ pc' \in {"failed", "done"} /\ UNCHANGED ValidationVars
    BY <1>11 DEF EndValidation
  <2> QED
    BY <2>1, QuietStep DEF ValidationVars, SearchInv, Phases
<1>12. CASE Serve
  BY <1>12, QuietStep DEF Serve, coordinator
<1>13. CASE Expire
  BY <1>13, QuietStep DEF Expire, SearchVars
<1>14. CASE Interrupt
  <2>1. published \in Ledger /\ campaign \in Nat
    BY DEF SearchInv, Typed
  <2> QED
    BY <1>14, <2>1, ResetStep DEF Interrupt
<1>15. CASE Repeat
  <2>1. published \in Ledger /\ campaign \in Nat
    BY DEF SearchInv, Typed
  <2> QED
    BY <1>15, <2>1, ResetStep DEF Repeat
<1>16. CASE UNCHANGED vars
  BY <1>16, QuietStep DEF vars, coordinator
<1> QED
  BY <1>1, <1>2, <1>3, <1>4, <1>5, <1>6, <1>7, <1>8, <1>9, <1>10, <1>11, <1>12, <1>13, <1>14, <1>15,
     <1>16 DEF Next, Step

(* Where the search is, at every moment. *)
THEOREM SearchIsOrderly == Spec => []SearchInv
<1>1. Init => SearchInv
  BY InitSearch
<1>2. SearchInv /\ [Next]_vars => SearchInv'
  BY SearchStep
<1> QED
  BY <1>1, <1>2, PTL DEF Spec

(* The states are those the code can be in; every evaluation has a worker of its own,
   and neither the workers nor the budget of the specification are exceeded. *)
THEOREM SearchStaysTyped == Spec => []TypeOK
<1>1. SearchInv => TypeOK
  <2> SUFFICES ASSUME SearchInv PROVE TypeOK
    OBVIOUS
  <2> USE DEF Searching
  <2>1. task \in {"spec", "run", "validate"} /\ phase \in {"model_defaults", "parameter_search"}
    BY DEF SearchInv, Phases
  <2>2. pc \in {"idle", "loop", "launch", "receive", "finish", "validate", "reported", "failed", "done"}
    BY DEF SearchInv, Phases
  <2>3. seen \subseteq Strategy \X Point /\ Ids(queue) \subseteq seen
    BY DEF SearchInv, Typed, Disjoint, Identity
  <2>4. CASE pc \in Searching
    <3>1. dispatched <= spec.maxTrials /\ DOMAIN running \subseteq 1..dispatched
          /\ \A n, m \in DOMAIN running : running[n].worker = running[m].worker => n = m
      BY <2>4 DEF SearchInv, Slots
    <3>2. InFlight <= spec.workers
      BY <2>4, WorkersAreCounted DEF SearchInv
    <3> QED
      BY <2>1, <2>2, <2>3, <3>1, <3>2 DEF TypeOK
  <2>5. CASE pc \notin Searching
    <3>1. DOMAIN running = {}
      BY <2>5 DEF SearchInv, Phases
    <3> QED
      BY <2>1, <2>2, <2>3, <2>5, <3>1 DEF TypeOK
  <2> QED
    BY <2>4, <2>5
<1> QED
  BY <1>1, SearchIsOrderly, PTL

(* No candidate is evaluated twice in a campaign, and no parameter trial starts before
   every route's default was measured. *)
THEOREM SearchStaysOrderly == Spec => []OrderlySearch
<1>1. SearchInv => OrderlySearch
  <2> SUFFICES ASSUME SearchInv PROVE OrderlySearch
    OBVIOUS
  <2>1. /\ \A i, j \in DOMAIN ledger.trials : ledger.trials[i].id = ledger.trials[j].id => i = j
        /\ \A n, m \in DOMAIN running : running[n].id = running[m].id => n = m
        /\ \A n \in DOMAIN running, i \in DOMAIN ledger.trials : ledger.trials[i].id # running[n].id
    BY DEF SearchInv, Disjoint
  <2>2. ASSUME NEW n \in DOMAIN running, running[n].depth > 0, NEW strategy \in spec.others
        PROVE  \E i \in DOMAIN ledger.trials : ledger.trials[i].id = Id(strategy, DefaultPoint)
    <3>1. pc \in Searching /\ phase = "parameter_search"
      BY <2>2 DEF SearchInv, Phases, Barrier
    <3>2. DefaultsComplete(ledger.trials)
      BY <3>1 DEF SearchInv, Barrier
    <3> QED
      BY <3>2 DEF DefaultsComplete, DefaultCandidate
  <2> QED
    BY <2>1, <2>2 DEF OrderlySearch
<1> QED
  BY <1>1, SearchIsOrderly, PTL

-----------------------------------------------------------------------------
(* What the service learns from                                              *)

StaysMeasured ==
    /\ \A key, candidate, score : Measured(key, candidate, score) => Measured(key, candidate, score)'
    /\ \A c, score : HandedOver(c, score) => HandedOver(c, score)'
    /\ (task = "validate" => published.campaign = campaign)'

(* One request changes one entry, and none that is there. *)
LEMMA AppliedShape ==
    ASSUME DOMAIN store = {"decisions", "outcomes", "validations"},
           NEW r, r.kind \in {"decision", "outcome", "validation"},
           NEW s, s = Applied(store, r)
    PROVE  /\ DOMAIN s = {"decisions", "outcomes", "validations"}
           /\ \A k \in DOMAIN store.decisions : k \in DOMAIN s.decisions /\ s.decisions[k] = store.decisions[k]
           /\ \A k \in DOMAIN s.outcomes :
                 \/ k \in DOMAIN store.outcomes /\ s.outcomes[k] = store.outcomes[k]
                 \/ /\ r.kind = "outcome" /\ k = r.key /\ k \in DOMAIN store.decisions
                    /\ store.decisions[k] = r.candidate
                    /\ s.outcomes[k] = [candidate |-> r.candidate, score |-> r.score]
           /\ \A c \in DOMAIN s.validations :
                 \/ c \in DOMAIN store.validations /\ s.validations[c] = store.validations[c]
                 \/ r.kind = "validation" /\ c = r.key /\ s.validations[c].score = r.score
<1>1. CASE r.kind = "decision"
  BY <1>1 DEF Applied, Decided, Put
<1>2. CASE r.kind = "outcome"
  BY <1>2 DEF Applied, Reported, OutcomeFits, Put
<1>3. CASE r.kind = "validation"
  BY <1>3 DEF Applied, Validated, Put
<1> QED
  BY <1>1, <1>2, <1>3

(* The service acts on a request, or keeps it, or it is lost. *)
LEMMA RequestStep ==
    ASSUME ServiceInv, StaysMeasured, NEW r, r.kind \in {"decision", "outcome", "validation"},
           r.kind = "outcome" => Measured(r.key, r.candidate, r.score)',
           r.kind = "validation" => HandedOver(r.key, r.score)',
           store' \in {store, Applied(store, r)}, requests' \subseteq requests \cup {r}
    PROVE  ServiceInv'
<1>1. /\ DOMAIN store' = {"decisions", "outcomes", "validations"}
      /\ \A k \in DOMAIN store.decisions : k \in DOMAIN store'.decisions /\ store'.decisions[k] = store.decisions[k]
      /\ \A k \in DOMAIN store'.outcomes :
            \/ k \in DOMAIN store.outcomes /\ store'.outcomes[k] = store.outcomes[k]
            \/ /\ r.kind = "outcome" /\ k = r.key /\ k \in DOMAIN store.decisions
               /\ store.decisions[k] = r.candidate
               /\ store'.outcomes[k] = [candidate |-> r.candidate, score |-> r.score]
      /\ \A c \in DOMAIN store'.validations :
            \/ c \in DOMAIN store.validations /\ store'.validations[c] = store.validations[c]
            \/ r.kind = "validation" /\ c = r.key /\ store'.validations[c].score = r.score
  <2>1. DOMAIN store = {"decisions", "outcomes", "validations"}
    BY DEF ServiceInv
  <2>2. CASE store' = store
    BY <2>1, <2>2
  <2>3. CASE store' = Applied(store, r)
    BY <2>1, <2>3, AppliedShape
  <2> QED
    BY <2>2, <2>3
<1>2. ASSUME NEW k \in DOMAIN store'.outcomes
      PROVE  /\ k \in DOMAIN store'.decisions /\ store'.decisions[k] = store'.outcomes[k].candidate
             /\ \A candidate, score :
                   candidate = store'.outcomes[k].candidate /\ score = store'.outcomes[k].score
                   => Measured(k, candidate, score)'
  <2>1. CASE k \in DOMAIN store.outcomes /\ store'.outcomes[k] = store.outcomes[k]
    <3>1. k \in DOMAIN store.decisions /\ store.decisions[k] = store.outcomes[k].candidate
          /\ Measured(k, store.outcomes[k].candidate, store.outcomes[k].score)
      BY <2>1 DEF ServiceInv
    <3>2. \A candidate, score :
             candidate = store.outcomes[k].candidate /\ score = store.outcomes[k].score
             => Measured(k, candidate, score)
      BY <3>1
    <3> QED
      BY <1>1, <2>1, <3>1, <3>2 DEF StaysMeasured
  <2>2. CASE /\ r.kind = "outcome" /\ k = r.key /\ k \in DOMAIN store.decisions
             /\ store.decisions[k] = r.candidate
             /\ store'.outcomes[k] = [candidate |-> r.candidate, score |-> r.score]
    <3>1. store'.outcomes[k].candidate = r.candidate /\ store'.outcomes[k].score = r.score
      BY <2>2
    <3>2. Measured(k, r.candidate, r.score)'
      BY <2>2
    <3> QED
      BY <1>1, <2>2, <3>1, <3>2
  <2> QED
    BY <1>1, <1>2, <2>1, <2>2
<1>3. ASSUME NEW c \in DOMAIN store'.validations, NEW score, score = store'.validations[c].score
      PROVE  HandedOver(c, score)'
  <2>1. CASE c \in DOMAIN store.validations /\ store'.validations[c] = store.validations[c]
    <3>1. HandedOver(c, score)
      BY <1>3, <2>1 DEF ServiceInv
    <3> QED
      BY <3>1 DEF StaysMeasured
  <2>2. CASE r.kind = "validation" /\ c = r.key /\ store'.validations[c].score = r.score
    BY <1>3, <2>2
  <2> QED
    BY <1>1, <1>3, <2>1, <2>2
<1>4. ASSUME NEW q \in requests'
      PROVE  /\ q.kind \in {"decision", "outcome", "validation"}
             /\ q.kind = "outcome" => Measured(q.key, q.candidate, q.score)'
             /\ q.kind = "validation" => HandedOver(q.key, q.score)'
  BY <1>4 DEF ServiceInv, StaysMeasured
<1>5. \A k \in DOMAIN store'.outcomes :
         Measured(k, store.outcomes[k].candidate, store.outcomes[k].score)'
  BY <1>2 DEF Measured
<1>6. \A c \in DOMAIN store'.validations : HandedOver(c, store.validations[c].score)'
  BY <1>3 DEF HandedOver
<1> QED
  BY <1>1, <1>2, <1>4, <1>5, <1>6 DEF ServiceInv, StaysMeasured

(* The trial that a result becomes. *)
LEMMA AppendAny ==
    ASSUME NEW S, NEW s \in Seq(S), NEW e
    PROVE  /\ \A i \in DOMAIN s : i \in DOMAIN Append(s, e) /\ Append(s, e)[i] = s[i]
           /\ \E i \in DOMAIN Append(s, e) : Append(s, e)[i] = e
<1>1. Len(s) \in Nat /\ DOMAIN s = 1..Len(s) /\ DOMAIN Append(s, e) = 1..(Len(s) + 1)
      /\ Len(s) + 1 \in 1..(Len(s) + 1) /\ Append(s, e)[Len(s) + 1] = e
  OBVIOUS
<1>2. \A i \in 1..Len(s) : Append(s, e)[i] = s[i]
  OBVIOUS
<1> QED
  BY <1>1, <1>2

LEMMA ReceivedTrial ==
    ASSUME SearchInv, Receive
    PROVE  /\ \A i \in DOMAIN ledger.trials : i \in DOMAIN ledger'.trials /\ ledger'.trials[i] = ledger.trials[i]
           /\ \E i \in DOMAIN ledger'.trials :
                 /\ ledger'.trials[i].number = results[1].number
                 /\ ledger'.trials[i].id = running[results[1].number].id
                 /\ ledger'.trials[i].score = results[1].score
<1>1. ledger \in Ledger /\ ledger.trials \in Seq(Trial)
  BY DEF SearchInv, Typed, Ledger
<1>2. PICK trial : /\ ledger' = [ledger EXCEPT !.trials = Append(@, trial), !.completed = @ + 1,
                                    !.score = ledger'.score, !.best = ledger'.best, !.stop = ledger'.stop]
                   /\ trial.number = results[1].number
                   /\ trial.id = running[results[1].number].id
                   /\ trial.score = results[1].score
  <2> DEFINE score == results[1].score
             kept == score # NoScore /\ Improves(score)
             trial == [number |-> results[1].number, id |-> running[results[1].number].id,
                       score |-> score, status |-> IF kept THEN "kept" ELSE "rejected",
                       path |-> PathOf(running[results[1].number])]
  <2>1. \E best, score1, stop :
          ledger' = [ledger EXCEPT !.trials = Append(@, trial), !.completed = @ + 1,
                        !.score = score1, !.best = best, !.stop = stop]
    BY DEF Receive
  <2>2. ledger' = [ledger EXCEPT !.trials = Append(@, trial), !.completed = @ + 1,
                     !.score = ledger'.score, !.best = ledger'.best, !.stop = ledger'.stop]
    <3> HIDE DEF trial
    <3> QED
      BY <1>1, <2>1 DEF Ledger
  <2>3. trial.number = results[1].number /\ trial.id = running[results[1].number].id
        /\ trial.score = results[1].score
    OBVIOUS
  <2> HIDE DEF trial
  <2> QED
    BY <2>2, <2>3
<1>3. ledger'.trials = Append(ledger.trials, trial)
  BY <1>1, <1>2 DEF Ledger
<1>4. /\ \A i \in DOMAIN ledger.trials :
            i \in DOMAIN Append(ledger.trials, trial) /\ Append(ledger.trials, trial)[i] = ledger.trials[i]
      /\ \E i \in DOMAIN Append(ledger.trials, trial) : Append(ledger.trials, trial)[i] = trial
  BY <1>1, AppendAny
<1> QED
  BY <1>2, <1>3, <1>4

(* What a search or a validation has measured stays so for as long as it matters. *)
LEMMA MeasuredStays == SearchInv /\ ServiceInv /\ [Next]_vars => StaysMeasured
<1> SUFFICES ASSUME SearchInv, ServiceInv, [Next]_vars PROVE StaysMeasured
  OBVIOUS
<1> USE DEF Searching
<1>0. /\ campaign \in Nat /\ (pc \in Searching => task = "run")
      /\ (task = "validate" => published.campaign = campaign)
  BY DEF SearchInv, Typed, Phases, ServiceInv
<1>1. CASE /\ UNCHANGED <<campaign, task, published>>
           /\ pc' \notin Searching \/ (pc \in Searching /\ UNCHANGED ledger)
  BY <1>0, <1>1 DEF StaysMeasured, Measured, HandedOver, IsTrial
<1>2. CASE MeasureBaseline
  <2>1. campaign' = campaign + 1 /\ task = "run" /\ UNCHANGED <<task, published>>
    BY <1>2 DEF MeasureBaseline
  <2> QED
    BY <1>0, <2>1 DEF StaysMeasured, Measured, HandedOver
<1>3. CASE LoopHead
  <2>1. /\ UNCHANGED <<campaign, task, published>> /\ pc \in Searching
        /\ ledger'.trials = ledger.trials
    <3>1. ledger \in Ledger
      BY DEF SearchInv, Typed
    <3>2. pc = "loop" /\ ledger' = [ledger EXCEPT !.stop = ledger'.stop]
          /\ UNCHANGED <<campaign, task, published>>
      BY <1>3, <3>1 DEF LoopHead, SearchVars, Ledger
    <3> QED
      BY <3>1, <3>2 DEF Ledger
  <2> QED
    BY <1>0, <2>1 DEF StaysMeasured, Measured, HandedOver, IsTrial
<1>4. CASE Receive
  <2>1. /\ UNCHANGED <<campaign, task, published>> /\ pc \in Searching
        /\ \A i \in DOMAIN ledger.trials : i \in DOMAIN ledger'.trials /\ ledger'.trials[i] = ledger.trials[i]
    BY <1>4, ReceivedTrial DEF Receive, SearchVars
  <2>2. \A key, candidate, score : IsTrial(ledger, key, candidate, score) => IsTrial(ledger', key, candidate, score)
    BY <2>1 DEF IsTrial
  <2> QED
    BY <1>0, <2>1, <2>2 DEF StaysMeasured, Measured, HandedOver, IsTrial
<1>5. CASE Finish
  <2>1. /\ pc = "finish" /\ task' = "validate" /\ pc' = "idle" /\ campaign' = campaign
        /\ published' = [ledger EXCEPT !.campaign = campaign, !.stop = published'.stop]
    <3>1. ledger \in Ledger
      BY <1>5 DEF SearchInv, Typed
    <3> QED
      BY <1>5, <3>1 DEF Finish, Ledger
  <2>2. published'.trials = ledger.trials /\ published'.campaign = campaign /\ task = "run"
    <3>1. ledger \in Ledger
      BY DEF SearchInv, Typed
    <3> QED
      BY <1>0, <2>1, <3>1 DEF Ledger
  <2> QED
    BY <1>0, <2>1, <2>2 DEF StaysMeasured, Measured, HandedOver, IsTrial
<1>6. CASE Freeze
  <2>1. task = "spec" /\ task' # "validate" /\ UNCHANGED <<campaign, published, ledger>> /\ pc' \notin Searching
    BY <1>6 DEF Freeze
  <2> QED
    BY <1>0, <2>1 DEF StaysMeasured, Measured, HandedOver, IsTrial
<1>7. CASE Launch \/ Evaluate
  <2>1. pc \in Searching
    BY <1>7 DEF Launch, Evaluate, SearchInv, Phases
  <2> QED
    BY <1>1, <1>7, <2>1 DEF Launch, Evaluate, SearchVars
<1>8. CASE BeginValidation \/ ValidateRun \/ Report \/ EndValidation
  <2>1. pc' \notin Searching /\ UNCHANGED ValidationVars
    BY <1>8 DEF BeginValidation, ValidateRun, Report, EndValidation
  <2> QED
    BY <1>1, <2>1 DEF ValidationVars
<1>9. CASE Serve \/ Expire \/ UNCHANGED vars
  <2>1. UNCHANGED <<campaign, task, published, pc, ledger>>
    BY <1>9 DEF Serve, Expire, SearchVars, vars, coordinator
  <2> QED
    BY <1>1, <2>1
<1>10. CASE Interrupt \/ Repeat
  BY <1>1, <1>10 DEF Interrupt, Repeat
<1> QED
  BY <1>2, <1>3, <1>4, <1>5, <1>6, <1>7, <1>8, <1>9, <1>10 DEF Next, Step

LEMMA ServiceStep == SearchInv /\ SearchInv' /\ ServiceInv /\ [Next]_vars => ServiceInv'
<1> SUFFICES ASSUME SearchInv, SearchInv', ServiceInv, [Next]_vars PROVE ServiceInv'
  OBVIOUS
<1> USE DEF Searching
<1>0. StaysMeasured
  BY MeasuredStays
<1>1. CASE UNCHANGED <<store, requests>>
  BY <1>0, <1>1 DEF ServiceInv, StaysMeasured
<1>2. CASE Launch
  <2>1. PICK frontier \in Frontiers : \E candidate \in frontier :
          LET Choice(c) == [kind |-> "decision", key |-> <<campaign, dispatched + 1>>, candidate |-> c.id]
          IN  \/ Answered(Choice(candidate)) \/ Lost
              \/ \E chosen \in frontier : Late(Choice(chosen))
    BY <1>2 DEF Launch
  <2> DEFINE Choice(c) == [kind |-> "decision", key |-> <<campaign, dispatched + 1>>, candidate |-> c.id]
  <2>2. PICK c : Answered(Choice(c)) \/ Lost \/ Late(Choice(c))
    BY <2>1
  <2>3. PICK r : r.kind = "decision" /\ (Answered(r) \/ Lost \/ Late(r))
    BY <2>2
  <2>4. store' \in {store, Applied(store, r)} /\ requests' \subseteq requests \cup {r}
    BY <2>3 DEF Answered, Lost, Late
  <2> QED
    BY <1>0, <2>3, <2>4, RequestStep
<1>3. CASE Receive
  <2> DEFINE n == results[1].number
             report == [kind |-> "outcome", key |-> <<campaign, n>>, candidate |-> running[n].id,
                        score |-> results[1].score]
  <2>1. (Answered(report) \/ Lost \/ Late(report)) /\ UNCHANGED <<campaign, task>> /\ pc = "receive"
    BY <1>3 DEF Receive, SearchVars
  <2>2. PICK r : /\ r.kind = "outcome" /\ r.key[1] = campaign /\ r.key[2] = n
                 /\ r.candidate = running[n].id /\ r.score = results[1].score
                 /\ Answered(r) \/ Lost \/ Late(r)
    <3>1. /\ report.kind = "outcome" /\ report.key[1] = campaign /\ report.key[2] = n
          /\ report.candidate = running[n].id /\ report.score = results[1].score
      OBVIOUS
    <3> HIDE DEF report
    <3> QED
      BY <2>1, <3>1
  <2>3. IsTrial(ledger', r.key, r.candidate, r.score)
    <3>1. PICK i \in DOMAIN ledger'.trials :
            /\ ledger'.trials[i].number = n
            /\ ledger'.trials[i].id = running[n].id
            /\ ledger'.trials[i].score = results[1].score
      BY <1>3, ReceivedTrial
    <3> QED
      BY <2>2, <3>1 DEF IsTrial
  <2>4. campaign \in Nat /\ task = "run"
    BY <2>1 DEF SearchInv, Typed, Phases
  <2>5. Measured(r.key, r.candidate, r.score)'
    BY <2>1, <2>2, <2>3, <2>4 DEF Measured
  <2>6. store' \in {store, Applied(store, r)} /\ requests' \subseteq requests \cup {r}
    BY <2>2 DEF Answered, Lost, Late
  <2> QED
    BY <1>0, <2>2, <2>5, <2>6, RequestStep
<1>4. CASE Report
  <2>1. PICK intact \in BOOLEAN :
          LET report == [kind |-> "validation", key |-> published.campaign,
                         score |-> published.score, status |-> Status(intact)]
          IN  Answered(report) \/ Lost \/ Late(report)
    BY <1>4 DEF Report
  <2> DEFINE report == [kind |-> "validation", key |-> published.campaign,
                        score |-> published.score, status |-> Status(intact)]
  <2>2. PICK r : /\ r.kind = "validation" /\ r.key = published.campaign /\ r.score = published.score
                 /\ Answered(r) \/ Lost \/ Late(r)
    <3>1. report.kind = "validation" /\ report.key = published.campaign /\ report.score = published.score
      OBVIOUS
    <3>2. Answered(report) \/ Lost \/ Late(report)
      BY <2>1
    <3> HIDE DEF report
    <3> QED
      BY <3>1, <3>2
  <2>3. pc = "validate" /\ UNCHANGED <<task, published, campaign>>
    BY <1>4 DEF Report, ValidationVars
  <2>4. task = "validate" /\ published.campaign = campaign
    BY <2>3 DEF SearchInv, Phases, ServiceInv
  <2>5. HandedOver(r.key, r.score)'
    BY <2>2, <2>3, <2>4 DEF HandedOver
  <2>6. store' \in {store, Applied(store, r)} /\ requests' \subseteq requests \cup {r}
    BY <2>2 DEF Answered, Lost, Late
  <2> QED
    BY <1>0, <2>2, <2>5, <2>6, RequestStep
<1>5. CASE Serve
  <2>1. PICK r \in requests : store' = Applied(store, r) /\ requests' = requests \ {r}
    BY <1>5 DEF Serve
  <2>2. /\ r.kind \in {"decision", "outcome", "validation"}
        /\ r.kind = "outcome" => Measured(r.key, r.candidate, r.score)'
        /\ r.kind = "validation" => HandedOver(r.key, r.score)'
    BY <1>0 DEF ServiceInv, StaysMeasured
  <2> QED
    BY <1>0, <2>1, <2>2, RequestStep
<1>6. CASE Freeze \/ MeasureBaseline \/ LoopHead \/ Evaluate \/ Finish
  BY <1>1, <1>6 DEF Freeze, MeasureBaseline, LoopHead, Evaluate, Finish
<1>7. CASE BeginValidation \/ ValidateRun \/ EndValidation \/ Expire \/ Interrupt \/ Repeat
  BY <1>1, <1>7 DEF BeginValidation, ValidateRun, EndValidation, Expire, Interrupt, Repeat
<1>8. CASE UNCHANGED vars
  BY <1>1, <1>8 DEF vars
<1> QED
  BY <1>2, <1>3, <1>4, <1>5, <1>6, <1>7, <1>8 DEF Next, Step

(* What the service learns from is what was measured in the campaign that was published,
   however late, or often, it was told. *)
THEOREM ServiceLearnsWhatWasMeasured == Spec => []ExperienceIsSound
<1>1. Init => ServiceInv
  BY DEF Init, ServiceInv, EmptyStore
<1>2. SearchInv /\ SearchInv' /\ ServiceInv /\ [Next]_vars => ServiceInv'
  BY ServiceStep
<1>3. ServiceInv => ExperienceIsSound
  <2> SUFFICES ASSUME ServiceInv, NEW k \in Experiences
               PROVE  /\ k[1] = published.campaign
                      /\ store.validations[k[1]].score = published.score
                      /\ \E i \in DOMAIN published.trials :
                            /\ published.trials[i].number = k[2]
                            /\ published.trials[i].id = store.decisions[k]
                            /\ published.trials[i].score = store.outcomes[k].score
    BY DEF ExperienceIsSound
  <2>1. k \in DOMAIN store.decisions /\ k \in DOMAIN store.outcomes /\ k[1] \in DOMAIN store.validations
    BY DEF Experiences
  <2>2. task = "validate" /\ k[1] = campaign /\ store.validations[k[1]].score = published.score
        /\ published.campaign = campaign
    BY <2>1 DEF ServiceInv, HandedOver
  <2>3. store.decisions[k] = store.outcomes[k].candidate
        /\ IsTrial(published, k, store.outcomes[k].candidate, store.outcomes[k].score)
    BY <2>1, <2>2 DEF ServiceInv, Measured
  <2> QED
    BY <2>2, <2>3 DEF IsTrial
<1> QED
  BY <1>1, <1>2, <1>3, SearchIsOrderly, PTL DEF Spec

-----------------------------------------------------------------------------
(* The search is a budgeted one                                              *)

(* What a result does to the incumbent and the budget. *)
LEMMA ReceivedScore ==
    ASSUME SearchInv, Receive
    PROVE  /\ ledger'.completed = ledger.completed + 1
           /\ \/ ledger'.best = ledger.best /\ ledger'.score = ledger.score
              \/ Improvement(ledger'.score, ledger.score)
<1> DEFINE score == results[1].score
           n == results[1].number
           kept == score # NoScore /\ Improves(score)
           best == IF kept THEN score ELSE ledger.score
           incumbent == IF kept THEN running[n].id ELSE ledger.best
<1>1. ledger \in Ledger
  BY DEF SearchInv, Typed
<1>2. \E trials, stop : ledger' = [ledger EXCEPT !.trials = trials, !.completed = @ + 1, !.score = best,
                                     !.best = incumbent, !.stop = stop]
  BY DEF Receive
<1>3. kept => Improvement(score, ledger.score)
  BY DEF Improves
<1> HIDE DEF kept
<1>4. ledger'.completed = ledger.completed + 1 /\ ledger'.score = best /\ ledger'.best = incumbent
  BY <1>1, <1>2 DEF Ledger
<1> QED
  BY <1>3, <1>4

LEMMA SearchRefines ==
    SearchInv /\ SearchInv' /\ [Next]_vars => [Budgeted!SearchNext]_(Budgeted!searchVars)
<1> SUFFICES ASSUME SearchInv, SearchInv', [Next]_vars
             PROVE  Budgeted!SearchNext \/ UNCHANGED Budgeted!searchVars
  BY DEF Budgeted!SearchNext, Budgeted!searchVars
<1> USE DEF Searching
<1>1. CASE ledger' = NoLedger
  BY <1>1, NoLedgerShape DEF Budgeted!SearchNext, Budgeted!GiveUp
<1>2. CASE UNCHANGED <<ledger, spec, task>>
  BY <1>2 DEF Budgeted!searchVars
<1>3. CASE MeasureBaseline
  <2>1. pc = "idle" /\ (ledger' = NoLedger \/ pc' = "loop")
    BY <1>3 DEF MeasureBaseline, Reset
  <2>2. CASE pc' = "loop"
    <3>1. ledger = NoLedger /\ ledger'.best \in Identity
      BY <2>1, <2>2 DEF SearchInv, Phases, Slots
    <3> QED
      BY <3>1, NoLedgerShape DEF Budgeted!SearchNext, Budgeted!MeasureBaseline, Identity
  <2> QED
    BY <1>1, <2>1, <2>2
<1>4. CASE LoopHead
  <2>1. /\ ledger \in Ledger /\ ledger' = [ledger EXCEPT !.stop = ledger'.stop]
        /\ UNCHANGED <<spec, task>>
    <3>1. ledger \in Ledger
      BY DEF SearchInv, Typed
    <3> QED
      BY <1>4, <3>1 DEF LoopHead, SearchVars, Ledger
  <2>2. ledger'.best = ledger.best /\ ledger'.score = ledger.score /\ ledger'.completed = ledger.completed
    BY <2>1 DEF Ledger
  <2> QED
    BY <2>1, <2>2 DEF Budgeted!searchVars
<1>5. CASE Receive
  <2>1. /\ pc = "receive" /\ pc' = "loop" /\ task = "run" /\ results # <<>>
        /\ UNCHANGED <<spec, task>>
    BY <1>5 DEF Receive, SearchVars, SearchInv, Phases
  <2>2. ledger.best \in Identity /\ ledger'.best \in Identity /\ ledger.best # NoCandidate
    BY <2>1, CandidateAssumption DEF SearchInv, Slots, Identity
  <2>3. InFlight \in Nat \ {0}
    <3>1. DOMAIN running # {}
      BY <2>1, TailShape DEF SearchInv, Typed, Channel
    <3>2. IsFiniteSet(DOMAIN running) /\ InFlight \in Nat
      BY <2>1, WorkersAreCounted DEF SearchInv
    <3> QED
      BY <3>1, <3>2, FS_EmptySet DEF InFlight
  <2>4. ledger.completed \in Nat /\ spec.maxTrials \in Nat /\ dispatched \in Nat
    BY <2>1 DEF SearchInv, Typed, Ledger, Phases, Frozen
  <2>5. spec.maxTrials - ledger.completed > 0
    BY <2>1, <2>3, <2>4 DEF SearchInv, Slots
  <2>6. /\ ledger'.completed = ledger.completed + 1
        /\ \/ ledger'.best = ledger.best /\ ledger'.score = ledger.score
           \/ Improvement(ledger'.score, ledger.score)
    BY <1>5, ReceivedScore
  <2>7. spec'.maxTrials - ledger'.completed = spec.maxTrials - ledger.completed - 1
    BY <2>1, <2>4, <2>6
  <2>8. CASE ledger'.best = ledger.best /\ ledger'.score = ledger.score
    BY <2>1, <2>2, <2>5, <2>7, <2>8 DEF Budgeted!SearchNext, Budgeted!Discard
  <2>9. CASE Improvement(ledger'.score, ledger.score)
    BY <2>1, <2>2, <2>5, <2>7, <2>9 DEF Budgeted!SearchNext, Budgeted!Adopt, Identity
  <2> QED
    BY <2>6, <2>8, <2>9
<1>6. CASE Finish \/ Interrupt \/ Repeat
  BY <1>1, <1>6 DEF Finish, Interrupt, Repeat, Reset
<1>7. CASE Freeze
  <2>1. ledger = NoLedger /\ ledger' = ledger
    BY <1>7 DEF Freeze, SearchInv, Phases
  <2> QED
    BY <1>1, <2>1
<1>8. CASE Launch \/ Evaluate \/ Expire
  BY <1>2, <1>8 DEF Launch, Evaluate, Expire, SearchVars
<1>9. CASE BeginValidation \/ ValidateRun \/ Report \/ EndValidation
  BY <1>2, <1>9 DEF BeginValidation, ValidateRun, Report, EndValidation, ValidationVars
<1>10. CASE Serve \/ UNCHANGED vars
  BY <1>2, <1>10 DEF Serve, vars, coordinator
<1> QED
  BY <1>3, <1>4, <1>5, <1>6, <1>7, <1>8, <1>9, <1>10 DEF Next, Step

(* However evaluations interleave, the search tries at most the trials of its budget, and
   its incumbent is only replaced by a candidate that improves on it by MinDelta. *)
THEOREM CampaignsAreBudgetedSearches == Spec => ImplementsSearch
<1>1. Init => Budgeted!SearchInit
  BY NoLedgerShape DEF Init, Budgeted!SearchInit
<1>2. SearchInv /\ SearchInv' /\ [Next]_vars => [Budgeted!SearchNext]_(Budgeted!searchVars)
  BY SearchRefines
<1> QED
  BY <1>1, <1>2, SearchIsOrderly, PTL DEF Spec, ImplementsSearch, Budgeted!SearchSpec
=============================================================================
