-------------------------- MODULE ExperimentSearch --------------------------
(***************************************************************************)
(* The experiment tasks of the research coding agent                       *)
(* (agent/experiment_research.go, agent/research_optimizer_client.go) and  *)
(* the optimizer service's experience store (research-optimizer).          *)
(*                                                                         *)
(* A coordinator dispatches candidates to parallel evaluations and is the  *)
(* only one to touch the queue and the ledger; results come back on a      *)
(* channel in any order.  For every trial it asks the service which        *)
(* candidate to take and reports the outcome; an answer may be lost or     *)
(* come too late, and the service may act on a request its client has      *)
(* given up.  A task that fails or is interrupted may be repeated; a       *)
(* repeated search is a new campaign.                                      *)
(*                                                                         *)
(* A candidate is a strategy and a value for each parameter; scores are    *)
(* maximized; durations are left out, so that equal scores rank in any     *)
(* order.                                                                  *)
(***************************************************************************)
EXTENDS Integers, Sequences, FiniteSets, FiniteSetsExt, Functions

CONSTANTS Strategy,
          Param, Size,         \* the parameters and the number of values of each
          DefaultValue,
          Score, NoScore,      \* what an evaluator may print, or nothing
          MinDelta,
          Target,              \* target_score, or NoScore
          NoCandidate,
          Specs,               \* the specifications adapters build
          MaxTrialsLimit, WorkersLimit, BeamLimit, SlotsLimit, ValidationRunsLimit,
          DefaultBeamWidth, DefaultSlots,
          MaxFaults, MaxCampaigns     \* bounds: lost or late requests, crashes; searches

ASSUME DomainAssumption == IsFiniteSet(Param) /\ Size \in Nat /\ DefaultValue \in 1..Size
ASSUME ScoreAssumption == Score \subseteq Int /\ NoScore \notin Int /\ MinDelta \in Nat
                          /\ (Target \in Int \/ Target = NoScore)

ASSUME LimitsAssumption == {MaxTrialsLimit, WorkersLimit, BeamLimit, SlotsLimit,
                            ValidationRunsLimit, DefaultBeamWidth, DefaultSlots} \subseteq Nat

\* What an adapter writes into a specification, before it is validated; 0 and "" are
\* left to the defaults.
ASSUME SpecsAssumption == \A raw \in Specs :
    /\ IsFiniteSet(raw.others)
    /\ raw \in [wellFormed : BOOLEAN, baseline : Strategy, others : SUBSET Strategy,
                maxTrials : Nat, workers : Nat, beam : Nat, slots : Nat, runs : Nat,
                isolation : {"", "serial", "readonly"}]

VARIABLES spec,         \* the frozen specification
          task, pc,     \* which task, and where its agent is
          expired,      \* the wall time is over
          queue, seen,  \* candidates that wait; identities that ever did
          phase,
          running,      \* trial number -> candidate under evaluation and its worker
          results,      \* the channel the evaluations send to
          dispatched, launch,   \* trials so far; trials left in this wave
          ledger,
          published,    \* the artifacts of a completed search
          validation,   \* the verdicts of the validation's runs, and its status
          store,        \* the service: decisions, outcomes, validations
          requests,     \* what the service has not acted on yet
          campaign, faults

coordinator == <<spec, task, pc, expired, queue, seen, phase, running, results, dispatched,
                 launch, ledger, published, validation, campaign>>
vars == <<coordinator, store, requests, faults>>

-----------------------------------------------------------------------------
(* The specification.                                                      *)

OrDefault(value, default) == IF value = 0 THEN default ELSE value

\* normalizeExperimentSpecDefaults
Normalize(raw) ==
    [raw EXCEPT !.workers = OrDefault(@, 1), !.beam = OrDefault(@, DefaultBeamWidth),
                !.slots = OrDefault(@, DefaultSlots),
                !.isolation = IF @ = "" THEN "serial" ELSE @]

\* validateExperimentSpec, which also verifies that the frozen files are intact
SpecIsValid(s) ==
    /\ s.wellFormed                \* identity, metric, commands, domains, files
    /\ s.maxTrials \in 1..MaxTrialsLimit
    /\ s.runs \in 1..ValidationRunsLimit
    /\ s.workers \in 1..WorkersLimit /\ s.beam \in 1..BeamLimit /\ s.slots \in 1..SlotsLimit
    /\ s.isolation \in {"serial", "readonly"}
    /\ s.workers > 1 => s.isolation = "readonly"
    /\ s.others # {} => s.maxTrials >= Cardinality(s.others)
    /\ s.baseline \notin s.others

-----------------------------------------------------------------------------
(* Candidates.                                                             *)

Point == [Param -> 1..Size]

ASSUME CandidateAssumption == NoCandidate \notin Strategy \X Point
DefaultPoint == [p \in Param |-> DefaultValue]

\* experimentCandidateID identifies a candidate by its strategy and parameters.
Id(strategy, point) == <<strategy, point>>

DefaultCandidate(strategy) ==
    [id |-> Id(strategy, DefaultPoint), parent |-> NoCandidate, depth |-> 0]

Defaults(s) == {DefaultCandidate(strategy) : strategy \in s.others}

\* refineExperimentCandidate: one parameter moves to a neighbouring value.
Refine(candidate) ==
    LET point == candidate.id[2]
    IN  {[id |-> Id(candidate.id[1], [point EXCEPT ![pv[1]] = pv[2]]),
          parent |-> candidate.id, depth |-> candidate.depth + 1] :
            pv \in {pv \in Param \X (1..Size) : pv[2] - point[pv[1]] \in {-1, 1}}}

\* Mutant: a candidate that left the queue may come back.
WaitingOnly(candidates) == {c \in candidates : \A q \in queue : q.id # c.id}

\* experimentEnqueueCandidate: what has not been in the queue before.
New(candidates) == {c \in candidates : c.id \notin seen}

-----------------------------------------------------------------------------
(* The frontier.                                                           *)

Ids(candidates) == {c.id : c \in candidates}
Logged == {ledger.trials[i] : i \in DOMAIN ledger.trials}
Scored(strategy) == {t \in Logged : t.id[1] = strategy /\ t.score # NoScore}
Strategies(s) == s.others \cup {s.baseline}
Least(a, b) == IF a <= b THEN a ELSE b

\* experimentBeamParentRanks: the best candidates of a route; of equal ones the
\* faster, here any.
Beams(strategy) ==
    LET scored == Scored(strategy)
    IN  {beam \in SUBSET scored :
            /\ Cardinality(beam) = Least(spec.beam, Cardinality(scored))
            /\ \A t \in beam, u \in scored \ beam : t.score >= u.score}

\* experimentNodeVisitCounts
Visits(id) == Cardinality({t \in Logged : id \in t.path})

\* The order of the exploration lane; what is equal keeps the order of the queue,
\* here any.
NotAfter(c, d) ==
    \/ Visits(c.parent) < Visits(d.parent)
    \/ Visits(c.parent) = Visits(d.parent) /\ c.depth <= d.depth

Lanes(rest) ==
    {lane \in SUBSET rest : /\ Cardinality(lane) = Least(spec.slots, Cardinality(rest))
                            /\ \A c \in lane, d \in rest \ lane : NotAfter(c, d)}

RouteFrontiers(strategy) ==
    LET waiting == {c \in queue : c.depth > 0 /\ c.id[1] = strategy}
        InBeam(beam) == {c \in waiting : c.parent \in Ids(beam)}
    IN  UNION {{InBeam(beam) \cup lane : lane \in Lanes(waiting \ InBeam(beam))} :
                  beam \in Beams(strategy)}

\* experimentSelectionFrontier: only defaults until all of them are complete.
Frontiers ==
    IF phase = "model_defaults" THEN {{c \in queue : c.depth = 0}}
    ELSE {UNION Range(choice) :
             choice \in {f \in [Strategies(spec) -> SUBSET queue] :
                            \A strategy \in Strategies(spec) : f[strategy] \in RouteFrontiers(strategy)}}

-----------------------------------------------------------------------------
(* The optimizer service: each request is one transaction of the store.    *)

EmptyStore == [decisions |-> [k \in {} |-> 0], outcomes |-> [k \in {} |-> 0],
               validations |-> [k \in {} |-> 0]]

Put(f, key, value) == [k \in DOMAIN f \cup {key} |-> IF k = key THEN value ELSE f[k]]

\* record_decision: a second decision for the same trial is a conflict or a retry.
Decided(s, r) ==
    IF r.key \in DOMAIN s.decisions THEN s
    ELSE [s EXCEPT !.decisions = Put(@, r.key, r.candidate)]

\* Mutant: an outcome is taken without looking at the decision.
BelongsToTrial(s, r) == r.key \in DOMAIN s.decisions

OutcomeFits(s, r) == r.key \in DOMAIN s.decisions /\ s.decisions[r.key] = r.candidate

\* record_outcome
Reported(s, r) ==
    IF OutcomeFits(s, r) /\ r.key \notin DOMAIN s.outcomes
    THEN [s EXCEPT !.outcomes = Put(@, r.key, [candidate |-> r.candidate, score |-> r.score])]
    ELSE s

\* record_validation: the first report of a campaign stays.
Validated(s, r) ==
    IF r.key \in DOMAIN s.validations THEN s
    ELSE [s EXCEPT !.validations = Put(@, r.key, [status |-> r.status, score |-> r.score])]

Applied(s, r) ==
    CASE r.kind = "decision" -> Decided(s, r)
      [] r.kind = "outcome" -> Reported(s, r)
      [] r.kind = "validation" -> Validated(s, r)

Answered(r) == store' = Applied(store, r) /\ UNCHANGED <<requests, faults>>
Fault == faults < MaxFaults /\ faults' = faults + 1
Lost == UNCHANGED <<store, requests>> /\ Fault
Late(r) == requests' = requests \cup {r} /\ UNCHANGED store /\ Fault

\* The client has given the request up; a thread of the service goes on with it.
Serve ==
    /\ \E r \in requests : store' = Applied(store, r) /\ requests' = requests \ {r}
    /\ UNCHANGED <<coordinator, faults>>

\* validated_experiences: what later selections learn from.
Experiences ==
    {k \in DOMAIN store.decisions \cap DOMAIN store.outcomes :
        k[1] \in DOMAIN store.validations /\ store.validations[k[1]].status = "validated"}

-----------------------------------------------------------------------------
(* The search.                                                             *)

NoLedger == [campaign |-> 0, trials |-> <<>>, best |-> NoCandidate, score |-> 0,
             completed |-> 0, stop |-> ""]
NoValidation == [runs |-> <<>>, status |-> "running"]

Reset ==
    /\ queue' = {} /\ seen' = {} /\ phase' = "model_defaults"
    /\ running' = [n \in {} |-> 0] /\ results' = <<>> /\ dispatched' = 0 /\ launch' = 0
    /\ ledger' = NoLedger /\ expired' = FALSE /\ validation' = NoValidation

Freeze ==
    /\ task = "spec" /\ pc = "idle"
    /\ \E raw \in Specs :
          IF SpecIsValid(Normalize(raw))
          THEN spec' = Normalize(raw) /\ task' = "run" /\ UNCHANGED pc
          ELSE pc' = "failed" /\ UNCHANGED <<spec, task>>
    /\ UNCHANGED <<expired, queue, seen, phase, running, results, dispatched, launch, ledger,
                   published, validation, campaign, store, requests, faults>>

Outcomes == IF expired THEN {NoScore} ELSE Score \cup {NoScore}
TargetReached(score) == Target # NoScore /\ score >= Target

\* executeExperimentRun up to the loop: the baseline is the first strategy's default.
MeasureBaseline ==
    /\ task = "run" /\ pc = "idle" /\ campaign < MaxCampaigns
    /\ campaign' = campaign + 1
    /\ \E score \in Outcomes :
          LET baseline == DefaultCandidate(spec.baseline)
              first == {c \in Defaults(spec) \cup Refine(baseline) : c.id # baseline.id}
          IN  IF score = NoScore
              THEN pc' = "failed" /\ Reset
              ELSE /\ pc' = "loop"
                   /\ queue' = first /\ seen' = Ids(first) \cup {baseline.id}
                   /\ phase' = IF spec.others = {} THEN "parameter_search" ELSE "model_defaults"
                   /\ ledger' = [NoLedger EXCEPT
                        !.trials = <<[number |-> 0, id |-> baseline.id, status |-> "baseline",
                                      score |-> score, path |-> {baseline.id}]>>,
                        !.best = baseline.id, !.score = score,
                        !.stop = IF spec.others = {} /\ TargetReached(score)
                                 THEN "baseline_target_reached" ELSE ""]
                   /\ running' = [n \in {} |-> 0] /\ results' = <<>>
                   /\ dispatched' = 0 /\ launch' = 0 /\ expired' = FALSE /\ validation' = NoValidation
    /\ UNCHANGED <<spec, task, published, store, requests, faults>>

\* Mutant: the slot of a received result is not released.
NeverReleased == dispatched

InFlight == Cardinality(DOMAIN running)

\* Mutant: a busy worker is given another candidate.
AnyWorker == 1..spec.workers

FreeWorkers == (1..spec.workers) \ {running[n].worker : n \in DOMAIN running}
SearchVars == <<spec, task, published, validation, campaign>>

\* The head of the loop: the wall time, then how many trials to start.
LoopHead ==
    /\ pc = "loop"
    /\ LET stop == IF expired /\ ledger.stop = "" THEN "wall_time_budget_exhausted" ELSE ledger.stop
       IN  /\ ledger' = [ledger EXCEPT !.stop = stop]
           /\ \E frontier \in Frontiers :
                 LET free == Cardinality(FreeWorkers)
                     count == Least(Least(free, spec.maxTrials - dispatched), Cardinality(frontier))
                 IN  IF stop = "" /\ count > 0
                     THEN launch' = count /\ pc' = "launch"
                     ELSE UNCHANGED launch /\ pc' = IF InFlight = 0 THEN "finish" ELSE "receive"
    /\ UNCHANGED <<SearchVars, expired, queue, seen, phase, running, results, dispatched, store,
                   requests, faults>>

\* The coordinator takes a candidate of the frontier out of the queue and starts
\* its evaluation.
Start(candidate) ==
    /\ queue' = queue \ {candidate}
    /\ dispatched' = dispatched + 1
    /\ running' = Put(running, dispatched + 1,
                      [id |-> candidate.id, parent |-> candidate.parent, depth |-> candidate.depth,
                       worker |-> Min(FreeWorkers), sent |-> FALSE])
    /\ launch' = launch - 1
    /\ pc' = IF launch = 1 THEN "receive" ELSE "launch"

\* selectExperimentCandidate: the service's choice if it answers in time and well,
\* the fallback's otherwise.
Launch ==
    /\ pc = "launch"
    /\ \E frontier \in Frontiers : \E candidate \in frontier :
          LET Choice(c) == [kind |-> "decision", key |-> <<campaign, dispatched + 1>>,
                            candidate |-> c.id]
          IN  /\ Start(candidate)
              /\ \/ Answered(Choice(candidate))
                 \/ Lost
                 \/ \E chosen \in frontier : Late(Choice(chosen))
    /\ UNCHANGED <<SearchVars, expired, seen, phase, results, ledger>>

\* evaluateExperimentCandidate, in a goroutine of its own.
Evaluate ==
    /\ \E n \in DOMAIN running, score \in Outcomes :
          /\ ~running[n].sent
          /\ running' = [running EXCEPT ![n].sent = TRUE]
          /\ results' = Append(results, [number |-> n, score |-> score])
    /\ UNCHANGED <<SearchVars, pc, expired, queue, seen, phase, dispatched, launch, ledger,
                   store, requests, faults>>

PathOf(candidate) ==
    {candidate.id} \cup UNION {t.path : t \in {t \in Logged : t.id = candidate.parent}}

DefaultsComplete(trials) ==
    \A strategy \in spec.others :
        \E i \in DOMAIN trials : trials[i].id = DefaultCandidate(strategy).id

\* Mutant: a result replaces the best when it beats the baseline.
BeatsBaseline(score) == score - ledger.trials[1].score >= MinDelta

Improvement(score, incumbent) == score - incumbent >= MinDelta
Improves(score) == Improvement(score, ledger.score)

\* The result that was sent first is judged against the best so far.
Receive ==
    /\ pc = "receive" /\ results # <<>>
    /\ LET n == results[1].number
           score == results[1].score
           candidate == running[n]
           kept == score # NoScore /\ Improves(score)
           trials == Append(ledger.trials,
                        [number |-> n, id |-> candidate.id, score |-> score,
                         status |-> IF kept THEN "kept" ELSE "rejected", path |-> PathOf(candidate)])
           children == IF score = NoScore THEN {} ELSE New(Refine(candidate))
           nextPhase == IF candidate.depth = 0 /\ DefaultsComplete(trials)
                        THEN "parameter_search" ELSE phase
           best == IF kept THEN score ELSE ledger.score
           report == [kind |-> "outcome", key |-> <<campaign, n>>, candidate |-> candidate.id,
                      score |-> score]
       IN  /\ results' = Tail(results)
           /\ running' = Restrict(running, DOMAIN running \ {n})
           /\ queue' = queue \cup children /\ seen' = seen \cup Ids(children)
           /\ phase' = nextPhase
           /\ ledger' = [ledger EXCEPT !.trials = trials, !.completed = @ + 1, !.score = best,
                            !.best = IF kept THEN candidate.id ELSE @,
                            !.stop = IF nextPhase = "parameter_search" /\ TargetReached(best)
                                     THEN "target_score_reached" ELSE @]
           /\ Answered(report) \/ Lost \/ Late(report)
    /\ pc' = "loop"
    /\ UNCHANGED <<SearchVars, expired, dispatched, launch>>

\* Nothing is in flight and nothing may be started.
Finish ==
    /\ pc = "finish"
    /\ published' = [ledger EXCEPT
                        !.campaign = campaign,
                        !.stop = IF @ # "" THEN @
                                 ELSE IF dispatched < spec.maxTrials /\ queue = {}
                                 THEN "candidate_space_exhausted" ELSE "trial_budget_exhausted"]
    /\ task' = "validate" /\ pc' = "idle"
    /\ Reset
    /\ UNCHANGED <<spec, campaign, store, requests, faults>>

-----------------------------------------------------------------------------
(* The validation.                                                         *)

ValidationVars == <<spec, task, queue, seen, phase, running, results, dispatched, launch,
                    ledger, published, campaign>>

BeginValidation ==
    /\ task = "validate" /\ pc = "idle"
    /\ pc' = "validate"
    /\ UNCHANGED <<ValidationVars, expired, validation, store, requests, faults>>

\* One run: the baseline and the best candidate on the hidden data.
ValidateRun ==
    /\ pc = "validate" /\ Len(validation.runs) < spec.runs
    /\ \E verdict \in {"passed", "failed", "error"} :
          validation' = [validation EXCEPT !.runs = Append(@, verdict)]
    /\ UNCHANGED <<ValidationVars, pc, expired, store, requests, faults>>

\* Runs that could not be made, or frozen files that changed, fail the validation.
Status(intact) ==
    IF "error" \in Range(validation.runs) \/ ~intact THEN "failed"
    ELSE IF Range(validation.runs) = {"passed"} THEN "validated" ELSE "not_validated"

Report ==
    /\ pc = "validate" /\ Len(validation.runs) = spec.runs
    /\ \E intact \in BOOLEAN :
          LET report == [kind |-> "validation", key |-> published.campaign,
                         score |-> published.score, status |-> Status(intact)]
          IN  /\ Answered(report) \/ Lost \/ Late(report)
              /\ validation' = [validation EXCEPT !.status = report.status]
    /\ pc' = "reported"
    /\ UNCHANGED <<ValidationVars, expired>>

\* A candidate that is not validated completes the task all the same.
EndValidation ==
    /\ pc = "reported"
    /\ pc' = IF validation.status = "failed" THEN "failed" ELSE "done"
    /\ UNCHANGED <<ValidationVars, expired, validation, store, requests, faults>>

-----------------------------------------------------------------------------
(* Time, crashes and repeated attempts.                                    *)

Active == pc \notin {"idle", "failed", "done"}

Expire ==
    /\ Active /\ ~expired
    /\ expired' = TRUE
    /\ UNCHANGED <<SearchVars, pc, queue, seen, phase, running, results, dispatched, launch,
                   ledger, store, requests, faults>>

\* The backend dies; what the service has stays.
Interrupt ==
    /\ Active /\ Fault
    /\ pc' = "idle" /\ Reset
    /\ UNCHANGED <<spec, task, published, campaign, store, requests>>

Repeat ==
    /\ pc = "failed" /\ Fault
    /\ pc' = "idle" /\ Reset
    /\ UNCHANGED <<spec, task, published, campaign, store, requests>>

Init ==
    /\ spec = [wellFormed |-> FALSE] /\ task = "spec" /\ pc = "idle" /\ expired = FALSE
    /\ queue = {} /\ seen = {} /\ phase = "model_defaults"
    /\ running = [n \in {} |-> 0] /\ results = <<>> /\ dispatched = 0 /\ launch = 0
    /\ ledger = NoLedger
    /\ published = NoLedger
    /\ validation = NoValidation /\ store = EmptyStore /\ requests = {} /\ campaign = 0 /\ faults = 0

Step == Freeze \/ MeasureBaseline \/ LoopHead \/ Launch \/ Evaluate \/ Receive \/ Finish
        \/ BeginValidation \/ ValidateRun \/ Report \/ EndValidation

Next == Step \/ Serve \/ Expire \/ Interrupt \/ Repeat

Spec == Init /\ [][Next]_vars

\* The coordinator and the evaluations go on (an evaluation ends at the latest when
\* the wall time does).
FairSpec == Spec /\ WF_vars(Step) /\ WF_vars(Evaluate)

-----------------------------------------------------------------------------
(* Properties.                                                             *)

\* Type correctness, and the bookkeeping of the slots: every trial under evaluation
\* has a worker of its own and the budget is respected.
TypeOK ==
    /\ task \in {"spec", "run", "validate"}
    /\ pc \in {"idle", "loop", "launch", "receive", "finish", "validate", "reported", "failed", "done"}
    /\ phase \in {"model_defaults", "parameter_search"}
    /\ seen \subseteq Strategy \X Point /\ Ids(queue) \subseteq seen
    /\ DOMAIN running \subseteq 1..dispatched
    /\ \A n, m \in DOMAIN running : running[n].worker = running[m].worker => n = m
    /\ pc \in {"loop", "launch", "receive"} =>
          dispatched <= spec.maxTrials /\ InFlight <= spec.workers

\* No candidate is ever evaluated twice in a campaign, and every model's default has
\* been measured before the first parameter trial starts: the hard barrier of
\* docs/autoresearch/11_hierarchical_search_engine.md:28.
OrderlySearch ==
    /\ \A i, j \in DOMAIN ledger.trials : ledger.trials[i].id = ledger.trials[j].id => i = j
    /\ \A n, m \in DOMAIN running : running[n].id = running[m].id => n = m
    /\ \A n \in DOMAIN running :
          /\ \A i \in DOMAIN ledger.trials : ledger.trials[i].id # running[n].id
          /\ running[n].depth > 0 =>
                \A strategy \in spec.others :
                    \E i \in DOMAIN ledger.trials :
                        ledger.trials[i].id = Id(strategy, DefaultPoint)

\* What the service learns from is what was measured: every experience of a validated
\* campaign is a trial of its published ledger, with that trial's candidate and score,
\* however late or often requests were served.
ExperienceIsSound ==
    \A k \in Experiences :
        /\ k[1] = published.campaign
        /\ store.validations[k[1]].score = published.score
        /\ \E i \in DOMAIN published.trials :
              LET trial == published.trials[i]
              IN  /\ trial.number = k[2] /\ trial.id = store.decisions[k]
                  /\ trial.score = store.outcomes[k].score

\* Every search comes to an end, whatever the service does.
SearchEnds == (pc = "loop") ~> ~Active

\* The search is a budgeted one whose incumbent is only replaced by one that is
\* better by MinDelta (as good, when that is 0).
Budgeted == INSTANCE BudgetedSearch WITH
    Candidate   <- Strategy \X Point,
    NoCandidate <- NoCandidate,
    Better      <- Improvement,
    incumbent   <- ledger.best,
    score       <- ledger.score,
    left        <- IF task = "spec" THEN 0 ELSE spec.maxTrials - ledger.completed
ImplementsSearch == Budgeted!SearchSpec
=============================================================================
