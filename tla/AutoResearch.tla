---------------------------- MODULE AutoResearch ----------------------------
(***************************************************************************)
(* The AutoResearch tasks of the research coding agent                     *)
(* (agent/autoresearch.go): freeze a specification, run a bounded loop of  *)
(* candidate edits against a frozen evaluator (keep what improves, restore *)
(* the best files otherwise), and validate the result.                     *)
(*                                                                         *)
(* The model proposes, the evaluator measures, commands may damage the     *)
(* workspace, files may be impossible to restore, time may run out and the *)
(* process may die: all of these are free choices.  The scheduler repeats  *)
(* a task that failed or was interrupted, in the workspace as it is.       *)
(*                                                                         *)
(* A file's content is a member of Content; hashes are the contents they   *)
(* identify.  The protected files and the other sources are intact or not. *)
(* Scores are integers times SearchRuns, so that a mean is one as well.    *)
(***************************************************************************)
EXTENDS Integers, Sequences, FiniteSets, FiniteSetsExt, Functions

CONSTANTS File,                \* the editable files
          Content,             \* what a file may hold
          Original,            \* the content of the files of the repository
          Score,               \* what an evaluator may print
          Guards,              \* number of guard commands
          MinDelta,            \* improvement that is required, in scores
          Target,              \* target_score, or NoScore
          NoScore,
          RawSpecs,            \* the specifications users upload
          NoInput,             \* the planner gave no number
          DefaultTrials, MaxTrialsLimit, SearchRunsLimit, ValidationRunsLimit,
          MaxFaults            \* bound: damage, failing restores, crashes, repeats

ASSUME ContentAssumption == File # {} /\ Original \in [File -> Content]
ASSUME ScoreAssumption == Score \subseteq Int /\ NoScore \notin Int
                          /\ MinDelta \in Nat /\ Guards \in Nat
                          /\ (Target \in Int \/ Target = NoScore)
ASSUME LimitAssumption == MaxTrialsLimit \in Nat \ {0} /\ DefaultTrials \in 1..MaxTrialsLimit
                          /\ SearchRunsLimit \in Nat \ {0}
                          /\ ValidationRunsLimit \in Nat \ {0} /\ MaxFaults \in Nat
\* Uploads are JSON: numbers are integers, and an evaluator has a path.
ASSUME UploadAssumption == \A raw \in RawSpecs :
                              /\ {raw.maxTrials, raw.searchRuns, raw.validationRuns} \subseteq Int
                              /\ {raw.inputTrials, raw.inputRuns} \subseteq Int \cup {NoInput}
                              /\ raw.evaluator # "none"

VARIABLES spec,            \* the frozen specification
          files,           \* the editable files on disk
          protectedOK,     \* the protected files have their frozen hashes
          immutableOK,     \* the other sources have their frozen fingerprint
          pc,              \* where the agent is; "idle" and "failed" between attempts
          task,            \* which of the three tasks is next or under way
          expired,         \* the context of the attempt is over
          original, best, expected,   \* editableSnapshots, bestSnapshots, expectedCandidate
          pending,         \* the patches that are still to be written
          ev,              \* the evaluation under way
          ledger,          \* the ledger in memory
          published,       \* the artifacts research_trial_ledger and research_best_candidate
          report,          \* the validation report
          faults           \* faults so far

workspace == <<files, protectedOK, immutableOK>>
vars == <<spec, files, protectedOK, immutableOK, pc, task, expired, original, best,
          expected, pending, ev, ledger, published, report, faults>>

Tree == [File -> Content]
NoTree == [f \in {} |-> 0]
NoSpec == [maxTrials |-> 0]
Patches == UNION {[S -> Content] : S \in SUBSET File}
RunPhases == {"baseline", "holdout", "loop", "apply", "trial"}

-----------------------------------------------------------------------------
(* Freezing the specification.                                             *)

\* boundedAutoResearchInput: a number of the planner's input, within its limits.
Within(input, limit) == IF input < 1 THEN 1 ELSE IF input > limit THEN limit ELSE input

\* Mutant: the planner's input replaces the limit.
TrialBudgetByInput(value, input) ==
    LET top == IF input = NoInput THEN DefaultTrials ELSE input
    IN  IF value <= 0 \/ value > top THEN top ELSE value

\* An explicit budget is only ever tightened by the planner's input.
TrialBudget(value, input) ==
    LET top == IF input = NoInput THEN DefaultTrials ELSE Within(input, MaxTrialsLimit)
    IN  IF value <= 0 \/ value > top THEN top ELSE value

SearchRuns(value) == IF value <= 0 THEN 1 ELSE Within(value, SearchRunsLimit)

ValidationBudget(value, input) ==
    LET top == IF input = NoInput THEN ValidationRunsLimit ELSE Within(input, ValidationRunsLimit)
    IN  IF value <= 0 THEN IF input = NoInput THEN 1 ELSE top
        ELSE IF value > top THEN top ELSE value

Aggregations == {"mean", "median", "worst"}

\* The checks of normalizeAndFreezeAutoResearchSpec that reject an upload.
Acceptable(raw) ==
    /\ raw.wellFormed               \* names, commands, dependencies, paths
    /\ raw.aggregation \in Aggregations
    /\ raw.revision \in {"none", "matches"}
    /\ raw.editable # {} /\ raw.protected # {}
    /\ raw.editable \cap raw.protected = {}
    /\ raw.evaluator \notin raw.editable
    /\ raw.holdout # "none" =>
          /\ raw.holdout # raw.evaluator
          /\ raw.holdout \in raw.protected

Normalize(raw) ==
    [maxTrials      |-> TrialBudget(raw.maxTrials, raw.inputTrials),
     searchRuns     |-> SearchRuns(raw.searchRuns),
     validationRuns |-> ValidationBudget(raw.validationRuns, raw.inputRuns),
     aggregation    |-> raw.aggregation,
     editable       |-> raw.editable,
     protected      |-> raw.protected,
     evaluator      |-> raw.evaluator,
     holdout        |-> raw.holdout]

HasHoldout == spec.holdout # "none"

\* validateFrozenAutoResearchSpec, at the start of the run and of the validation.
FrozenSpecIsValid(s) ==
    /\ s.aggregation \in Aggregations
    /\ s.searchRuns \in 1..SearchRunsLimit
    /\ s.maxTrials \in 1..MaxTrialsLimit
    /\ s.validationRuns \in 0..ValidationRunsLimit
    /\ s.editable # {} /\ s.protected # {} /\ s.editable \cap s.protected = {}
    /\ s.holdout # s.evaluator
    /\ s.evaluator \notin s.editable
    /\ s.holdout # "none" => s.holdout \in s.protected

-----------------------------------------------------------------------------
(* Scores.                                                                 *)

Sum(samples) == FoldFunction(+, 0, samples)
Least(samples) == CHOOSE x \in Range(samples) : \A y \in Range(samples) : x <= y

\* The middle of the sorted samples, or the sum of the two middle ones, halved
\* by the scale: Nth is the k-th smallest sample.
Nth(samples, k) ==
    CHOOSE x \in Range(samples) :
        /\ Cardinality({i \in DOMAIN samples : samples[i] < x}) < k
        /\ Cardinality({i \in DOMAIN samples : samples[i] <= x}) >= k

\* The aggregated score, times 2 * the number of samples.
Aggregate(samples, how) ==
    LET n == Len(samples)
    IN  CASE how = "mean"   -> 2 * Sum(samples)
          [] how = "worst"  -> 2 * n * Least(samples)
          [] how = "median" -> n * (Nth(samples, (n + 1) \div 2) + Nth(samples, (n + 2) \div 2))

Scale == 2 * spec.searchRuns

\* Mutant: as good as the best is good enough.
AtLeastAsGood(candidate, incumbent, delta) == candidate >= incumbent

\* maximize; a search that minimizes is the same with scores negated
Improved(candidate, incumbent, delta) ==
    candidate - incumbent >= delta /\ candidate > incumbent

TargetReached(score) == Target # NoScore /\ score >= Target * Scale

-----------------------------------------------------------------------------
(* The ledger.                                                             *)

NewLedger == [status |-> "running", trials |-> <<>>, best |-> 0, completed |-> 0,
              accepted |-> 0, holdout |-> NoScore, stop |-> "none", files |-> NoTree]

\* A trial: its decision, whether it has a metric, which is that of its samples, and
\* the files it measured (by the hashes of its patches).
Trial(status, measured, samples, tree) ==
    [status |-> status, measured |-> measured,
     metric |-> IF measured THEN Aggregate(samples, spec.aggregation) ELSE NoScore,
     samples |-> samples, tree |-> tree]

Logged(trial) == [ledger EXCEPT !.trials = Append(@, trial), !.completed = @ + 1]

Last(seq) == seq[Len(seq)]

\* The best score after the first i trials, as the validator replays them.
BestAfter(trials, i) ==
    LET kept == {j \in 1..i : trials[j].status \in {"baseline", "kept"}}
    IN  trials[Max(kept)].metric

\* validateAutoResearchTrialMeasurement
MeasurementIsValid(trial) ==
    /\ Len(trial.samples) = spec.searchRuns
    /\ trial.metric = Aggregate(trial.samples, spec.aggregation)

\* The i-th trial was kept or rejected the way the frozen rule demands.
DecisionStands(trials, i) ==
    LET t == trials[i]
        improved == Improved(t.metric, BestAfter(trials, i - 1), MinDelta * Scale)
    IN  \/ /\ t.status = "kept" /\ t.measured /\ improved
           /\ TargetReached(t.metric) => i = Len(trials)
        \/ t.status = "rejected" /\ (t.measured => ~improved)

Kept(trials) == {i \in DOMAIN trials : trials[i].status = "kept"}

\* autoResearchLedgerFromTask and validateAutoResearchLedgerAgainstSpec
LedgerIsAccepted(l) ==
    /\ l.status = "completed"
    /\ l.completed \in 0..spec.maxTrials /\ l.accepted \in 0..l.completed
    /\ Len(l.trials) = l.completed + 1 /\ l.files # NoTree
    /\ HasHoldout <=> l.holdout # NoScore
    /\ l.trials[1].status = "baseline" /\ l.trials[1].measured
    /\ \A i \in DOMAIN l.trials : l.trials[i].measured => MeasurementIsValid(l.trials[i])
    /\ \A i \in 2..Len(l.trials) : DecisionStands(l.trials, i)
    /\ l.accepted = Cardinality(Kept(l.trials))
    /\ l.best = BestAfter(l.trials, Len(l.trials))
    /\ l.stop = "target_score_reached" <=>
          Last(l.trials).status = "kept" /\ TargetReached(l.best)

-----------------------------------------------------------------------------
(* Restoring the workspace.                                                *)

Snapshot == files                  \* snapshotAutoResearchFiles
FilesVerified == protectedOK       \* verifyAutoResearchSpecFiles
FingerprintVerified == immutableOK \* verifyAutoResearchImmutableFingerprint

NoFault == faults' = faults
Fault == faults < MaxFaults /\ faults' = faults + 1

\* What a restore of the files that stopped in the middle may leave.
Partly(target) == {[f \in File |-> IF f \in S THEN target[f] ELSE files[f]] : S \in SUBSET File}

\* restoreAutoResearchGroups: the editable files only.
RestoreFiles(target) == files' = target /\ UNCHANGED <<protectedOK, immutableOK>>
RestoreFilesFails(target) ==
    files' \in Partly(target) /\ UNCHANGED <<protectedOK, immutableOK>> /\ Fault

\* restoreAutoResearchWorkspace: the other sources, then the protected files,
\* then the editable ones.
RestoreWorkspace(target) == files' = target /\ protectedOK' = TRUE /\ immutableOK' = TRUE
RestoreWorkspaceFails(target) ==
    /\ \/ UNCHANGED workspace
       \/ immutableOK' = TRUE /\ UNCHANGED <<files, protectedOK>>
       \/ immutableOK' = TRUE /\ protectedOK' = TRUE /\ files' \in Partly(target)
    /\ Fault

\* failResearchCodingTask: the attempt is over, what it held in memory is gone.
Forget ==
    /\ original' = NoTree /\ best' = NoTree /\ expected' = NoTree
    /\ pending' = NoTree /\ ledger' = NewLedger /\ expired' = FALSE
    /\ ev' = [guards |-> 0, samples |-> <<>>, runs |-> 0, error |-> "none"]

FailTask == pc' = "failed" /\ Forget /\ UNCHANGED <<spec, task, published>>

\* The files cannot be read for a snapshot or a hash: nothing is restored.
Unreadable == FailTask /\ Fault /\ UNCHANGED <<workspace, report>>

-----------------------------------------------------------------------------
(* Evaluations: guard commands, then runs of an evaluator.                 *)

NewEvaluation(guards, runs) ==
    [guards |-> guards, samples |-> <<>>, runs |-> runs,
     error |-> IF FingerprintVerified \/ guards = 0 THEN "none" ELSE "integrity"]

\* Mutant: a failing command does not end the evaluation.
EvaluatedWholly == ev.guards = 0 /\ ev.runs = 0

Evaluated == ev.error # "none" \/ (ev.guards = 0 /\ ev.runs = 0)

\* What a command's last line may say; none when it fails, prints something that
\* is not a finite number under the metric's key, or is cut off.
Outcomes == IF expired THEN {NoScore} ELSE Score \cup {NoScore}

\* One command runs in the workspace, with whatever it does to the files; both
\* integrity checks follow, and come before the command's own error.
RunCommand ==
    /\ pc \in {"baseline", "holdout", "trial", "vrun"} /\ ~Evaluated
    /\ \/ UNCHANGED workspace /\ NoFault
       \/ /\ Fault
          /\ \/ \E f \in spec.editable, c \in Content :
                   files' = [files EXCEPT ![f] = c] /\ UNCHANGED <<protectedOK, immutableOK>>
             \/ protectedOK' = FALSE /\ UNCHANGED <<files, immutableOK>>
             \/ immutableOK' = FALSE /\ UNCHANGED <<files, protectedOK>>
    /\ \E outcome \in Outcomes :
             ev' = IF ~FilesVerified' \/ ~FingerprintVerified' THEN [ev EXCEPT !.error = "integrity"]
                   ELSE IF outcome = NoScore THEN [ev EXCEPT !.error = "failed"]
                   ELSE IF ev.guards > 0 THEN [ev EXCEPT !.guards = @ - 1]
                   ELSE [ev EXCEPT !.samples = Append(@, outcome), !.runs = @ - 1]
    /\ UNCHANGED <<spec, pc, task, expired, original, best, expected, pending, ledger,
                   published, report>>

-----------------------------------------------------------------------------
(* The tasks.                                                              *)

Freeze ==
    /\ task = "spec" /\ pc = "idle"
    /\ \E raw \in RawSpecs :
          IF Acceptable(raw)
          THEN spec' = Normalize(raw) /\ task' = "run" /\ pc' = "idle"
          ELSE pc' = "failed" /\ UNCHANGED <<spec, task>>
    /\ UNCHANGED <<files, protectedOK, immutableOK, expired, original, best, expected,
                   pending, ev, ledger, published, report, faults>>

\* executeAutoResearchRun up to the first command.
BeginRun ==
    /\ task = "run" /\ pc = "idle"
    /\ IF FrozenSpecIsValid(spec) /\ FilesVerified /\ FingerprintVerified
       THEN \/ /\ pc' = "baseline"
               /\ original' = Snapshot /\ best' = Snapshot
               /\ ev' = NewEvaluation(Guards, spec.searchRuns)
               /\ ledger' = NewLedger
               /\ UNCHANGED <<spec, task, expired, expected, pending, published>>
               /\ UNCHANGED <<workspace, report>> /\ NoFault
            \/ Unreadable
       ELSE FailTask /\ UNCHANGED <<workspace, report>> /\ NoFault

\* The baseline counts only if its measurement left every file alone.
DecideBaseline ==
    /\ pc = "baseline" /\ Evaluated
    /\ IF ev.error = "none" /\ files = original
       THEN LET score == Aggregate(ev.samples, spec.aggregation)
            IN  /\ ledger' = [ledger EXCEPT !.best = score,
                                !.trials = <<Trial("baseline", TRUE, ev.samples, files)>>]
                /\ IF HasHoldout
                   THEN pc' = "holdout" /\ ev' = NewEvaluation(0, 1)
                   ELSE pc' = "loop" /\ UNCHANGED ev
                /\ UNCHANGED <<spec, task, expired, original, best, expected, pending, published>>
                /\ UNCHANGED workspace /\ NoFault
       ELSE /\ FailTask
            /\ (RestoreWorkspace(original) /\ NoFault) \/ RestoreWorkspaceFails(original)
    /\ UNCHANGED report

\* The hidden evaluator measures the same files once, before any candidate.
DecideHoldout ==
    /\ pc = "holdout" /\ Evaluated
    /\ IF ev.error = "none" /\ files = original
       THEN /\ ledger' = [ledger EXCEPT !.holdout = ev.samples[1]]
            /\ pc' = "loop"
            /\ UNCHANGED <<spec, task, expired, original, best, expected, pending, published, ev>>
            /\ UNCHANGED workspace /\ NoFault
       ELSE /\ FailTask
            /\ (RestoreWorkspace(original) /\ NoFault) \/ RestoreWorkspaceFails(original)
    /\ UNCHANGED report

LoopVars == <<spec, task, original, published, report>>

\* The loop ends; its result, with the hashes of the files, becomes the task's artifacts.
Finish(reason) ==
    \/ /\ published' = [ledger EXCEPT !.status = "completed", !.stop = reason, !.files = files]
       /\ task' = "validate" /\ pc' = "idle"
       /\ Forget
       /\ UNCHANGED <<spec, workspace, report>> /\ NoFault
    \/ Unreadable

StopLoop ==
    /\ pc = "loop"
    /\ \/ ledger.stop # "none" /\ Finish(ledger.stop)
       \/ ledger.stop = "none" /\ ledger.completed = spec.maxTrials /\ Finish("trial_budget_exhausted")
       \/ ledger.stop = "none" /\ ledger.completed < spec.maxTrials
          /\ \/ expired /\ Finish("wall_time_budget_exhausted")
             \/ ~expired /\ \E reason \in {"stop", "unsupported"} : Finish(reason)

Proposing == pc = "loop" /\ ledger.stop = "none" /\ ledger.completed < spec.maxTrials /\ ~expired

\* The model's answer is unusable, or it wants to stop while the evaluator
\* still shows failing cases: a rejected trial that touches no file.
RejectAnswer ==
    /\ Proposing
    /\ ledger' = Logged(Trial("rejected", FALSE, <<>>, NoTree))
    /\ UNCHANGED <<LoopVars, workspace, pc, expired, best, expected, pending, ev, faults>>

\* applyAutoResearchCandidate refuses the patches (a path that is not editable,
\* no effective change, a policy), or writing one of them fails after others
\* have been written; the best files are restored.
RejectPatches ==
    /\ Proposing \/ pc = "apply"
    /\ \/ /\ RestoreFiles(best)
          /\ IF pc = "apply" THEN Fault ELSE NoFault
          /\ ledger' = Logged(Trial("rejected", FALSE, <<>>, NoTree))
          /\ pc' = "loop" /\ pending' = NoTree
          /\ UNCHANGED <<LoopVars, expired, best, expected, ev>>
       \/ FailTask /\ RestoreFilesFails(best) /\ UNCHANGED report

\* applyAutoResearchCandidate keeps the patches that change an editable file,
\* and needs at least one.
Effective ==
    {patches \in Patches : /\ DOMAIN patches # {} /\ DOMAIN patches \subseteq spec.editable
                           /\ \A f \in DOMAIN patches : patches[f] # best[f]}

Propose ==
    /\ Proposing
    /\ pending' \in Effective
    /\ pc' = "apply"
    /\ UNCHANGED <<LoopVars, workspace, expired, best, expected, ev, ledger, faults>>

WritePatch ==
    /\ pc = "apply" /\ DOMAIN pending # {}
    /\ \E f \in DOMAIN pending :
          /\ files' = [files EXCEPT ![f] = pending[f]]
          /\ pending' = Restrict(pending, DOMAIN pending \ {f})
    /\ UNCHANGED <<LoopVars, protectedOK, immutableOK, pc, expired, best, expected, ev,
                   ledger, faults>>

BeginTrial ==
    /\ pc = "apply" /\ DOMAIN pending = {}
    /\ expected' = files
    /\ ev' = NewEvaluation(Guards, spec.searchRuns)
    /\ pc' = "trial"
    /\ UNCHANGED <<LoopVars, workspace, expired, best, pending, ledger, faults>>

\* The evaluator or another source was changed: the whole run is compromised.
Compromised ==
    /\ pc = "trial" /\ Evaluated /\ (ev.error = "integrity" \/ ~FilesVerified)
    /\ FailTask
    /\ (RestoreWorkspace(best) /\ NoFault) \/ RestoreWorkspaceFails(best)
    /\ UNCHANGED report

TrialScore == Aggregate(ev.samples, spec.aggregation)
\* Mutant: nobody looks whether the evaluation changed the candidate.
TrialRan == ev.error = "none"

TrialIsClean == ev.error = "none" /\ files = expected
TrialImproves == TrialIsClean /\ Improved(TrialScore, ledger.best, MinDelta * Scale)

\* The snapshot of the new best files may fail: the task does, and the candidate stays.
KeepTrial ==
    /\ pc = "trial" /\ Evaluated /\ FilesVerified /\ TrialImproves
    /\ \/ /\ ledger' = [Logged(Trial("kept", TRUE, ev.samples, expected)) EXCEPT
                           !.best = TrialScore, !.accepted = @ + 1,
                           !.stop = IF TargetReached(TrialScore)
                                    THEN "target_score_reached" ELSE "none"]
          /\ best' = Snapshot
          /\ pc' = "loop"
          /\ UNCHANGED <<LoopVars, workspace, expired, expected, pending, ev, faults>>
       \/ Unreadable

RejectTrial ==
    /\ pc = "trial" /\ Evaluated /\ FilesVerified /\ ev.error # "integrity" /\ ~TrialImproves
    /\ \/ /\ RestoreFiles(best) /\ NoFault
          /\ ledger' = Logged(IF TrialIsClean
                              THEN Trial("rejected", TRUE, ev.samples, expected)
                              ELSE Trial("rejected", FALSE, ev.samples, NoTree))
          /\ pc' = "loop"
          /\ UNCHANGED <<LoopVars, expired, best, expected, pending, ev>>
       \/ FailTask /\ RestoreFilesFails(best) /\ UNCHANGED report

-----------------------------------------------------------------------------
(* The validation.                                                         *)

NoReport == [status |-> "none", completed |-> 0, passed |-> 0, intact |-> TRUE]

\* Mutant: the candidate's own files are not compared.
SurroundingsIntact == protectedOK /\ immutableOK

CandidateIntact == FilesVerified /\ FingerprintVerified /\ files = published.files
RequestedRuns == IF spec.validationRuns <= 0 THEN 1 ELSE spec.validationRuns

ValidationVars == <<spec, task, original, best, expected, pending, ledger, published>>

\* An intact candidate is snapshotted for the runs, which may fail.
BeginValidation ==
    /\ task = "validate" /\ pc = "idle"
    /\ IF FrozenSpecIsValid(spec) /\ LedgerIsAccepted(published)
       THEN \/ /\ pc' = IF CandidateIntact THEN "validate" ELSE "report"
               /\ report' = [NoReport EXCEPT !.status = "running", !.intact = CandidateIntact]
               /\ UNCHANGED <<ValidationVars, expired, ev>>
               /\ UNCHANGED workspace /\ NoFault
            \/ CandidateIntact /\ Unreadable
       ELSE FailTask /\ UNCHANGED <<workspace, report>> /\ NoFault

\* Every run starts from the restored candidate; one that cannot is a failed run.
BeginValidationRun ==
    /\ pc = "validate" /\ ~expired /\ report.completed < RequestedRuns
    /\ \/ /\ RestoreWorkspace(published.files) /\ NoFault
          /\ ev' = [NewEvaluation(Guards, 1) EXCEPT !.error = "none"]
          /\ pc' = "vrun" /\ UNCHANGED report
       \/ /\ RestoreWorkspaceFails(published.files)
          /\ report' = [report EXCEPT !.completed = @ + 1]
          /\ pc' = "report" /\ UNCHANGED ev
    /\ UNCHANGED <<ValidationVars, expired>>

ScoreMatches(observed) ==
    IF HasHoldout THEN Improved(observed, published.holdout, MinDelta)
    ELSE observed * Scale = published.best

DecideValidationRun ==
    /\ pc = "vrun" /\ Evaluated
    /\ LET passed == ev.error = "none" /\ CandidateIntact /\ ScoreMatches(ev.samples[1])
       IN  report' = [report EXCEPT !.completed = @ + 1,
                        !.passed = IF passed THEN @ + 1 ELSE @,
                        !.intact = @ /\ CandidateIntact]
    /\ IF CandidateIntact THEN UNCHANGED workspace /\ NoFault
       ELSE (RestoreWorkspace(published.files) /\ NoFault) \/ RestoreWorkspaceFails(published.files)
    /\ pc' = IF CandidateIntact /\ ~expired THEN "validate" ELSE "report"
    /\ UNCHANGED <<ValidationVars, expired, ev>>

\* A wrong score completes the task with a failed report; damage or an
\* unfinished validation fails the task.
WriteReport ==
    /\ \/ pc = "report"
       \/ pc = "validate" /\ (expired \/ report.completed = RequestedRuns)
    /\ LET validated == report.intact /\ report.passed = RequestedRuns
       IN  report' = [report EXCEPT !.status = IF validated THEN "validated" ELSE "failed"]
    /\ pc' = IF report.intact /\ report.completed = RequestedRuns THEN "done" ELSE "failed"
    /\ Forget
    /\ UNCHANGED <<spec, task, published, workspace, faults>>

-----------------------------------------------------------------------------
(* The surroundings: time, crashes, and the scheduler's next attempts.     *)

Active == pc \notin {"idle", "failed", "done"}

Expire ==
    /\ Active /\ ~expired
    /\ expired' = TRUE
    /\ UNCHANGED <<spec, workspace, pc, task, original, best, expected, pending, ev,
                   ledger, published, report, faults>>

\* The process dies; recovery makes the task ready again.
Interrupt ==
    /\ Active /\ Fault
    /\ pc' = "idle" /\ report' = NoReport
    /\ Forget
    /\ UNCHANGED <<spec, workspace, task, published>>

\* The task failed and is tried again, automatically or by the user.
Repeat ==
    /\ pc = "failed" /\ Fault
    /\ pc' = "idle" /\ report' = NoReport
    /\ UNCHANGED <<spec, workspace, task, expired, original, best, expected, pending, ev,
                   ledger, published>>

Init ==
    /\ spec = NoSpec /\ task = "spec" /\ pc = "idle"
    /\ files = Original /\ protectedOK = TRUE /\ immutableOK = TRUE
    /\ original = NoTree /\ best = NoTree /\ expected = NoTree /\ pending = NoTree
    /\ ev = [guards |-> 0, samples |-> <<>>, runs |-> 0, error |-> "none"]
    /\ ledger = NewLedger /\ published = NewLedger /\ report = NoReport
    /\ expired = FALSE /\ faults = 0

Step ==
    \/ Freeze \/ BeginRun \/ RunCommand \/ DecideBaseline \/ DecideHoldout
    \/ StopLoop \/ RejectAnswer \/ RejectPatches \/ Propose \/ WritePatch \/ BeginTrial
    \/ Compromised \/ KeepTrial \/ RejectTrial
    \/ BeginValidation \/ BeginValidationRun \/ DecideValidationRun \/ WriteReport

Next == Step \/ Expire \/ Interrupt \/ Repeat

Spec == Init /\ [][Next]_vars

\* The agent goes on once it has a task; nobody has to repeat one that failed.
FairSpec == Spec /\ WF_vars(Step)

-----------------------------------------------------------------------------
(* Properties.                                                             *)

\* Type correctness of the parts the other properties compare.
TypeOK ==
    /\ files \in Tree /\ protectedOK \in BOOLEAN /\ immutableOK \in BOOLEAN
    /\ original \in Tree \cup {NoTree} /\ best \in Tree \cup {NoTree}
    /\ expected \in Tree \cup {NoTree} /\ pending \in Patches
    /\ pc \in RunPhases \cup {"idle", "validate", "vrun", "report", "failed", "done"}
    /\ task \in {"spec", "run", "validate"} /\ expired \in BOOLEAN /\ faults \in 0..MaxFaults

\* Keep or restore: between two trials the files on disk are the best candidate,
\* which is the one the last kept trial measured, with the score it measured.
BestIsOnDisk ==
    pc = "loop" =>
        LET keeps == {i \in DOMAIN ledger.trials : ledger.trials[i].status \in {"baseline", "kept"}}
        IN  /\ keeps # {}
            /\ files = best /\ protectedOK /\ immutableOK
            /\ best = ledger.trials[Max(keeps)].tree
            /\ ledger.best = ledger.trials[Max(keeps)].metric

\* The two sides of the hand-over agree: what freezing accepts is valid for the
\* later tasks, and a ledger the loop completes passes every check of the validation.
HandOversAgree ==
    /\ task # "spec" => FrozenSpecIsValid(spec)
    /\ task = "validate" => LedgerIsAccepted(published)

\* A validation that completes leaves the candidate of the ledger on disk, intact;
\* a validated one has repeated its score in every requested run.
ValidationIsOfCandidate ==
    pc = "done" => /\ files = published.files /\ protectedOK /\ immutableOK
                   /\ report.completed = RequestedRuns
                   /\ report.status = "validated" <=> report.passed = RequestedRuns

\* An attempt always comes to an end, whatever the model and the commands do.
RunSettles == Active ~> ~Active

\* The run is a budgeted search whose incumbent only improves.
StrictlyBetter(new, old) == new > old
Search == INSTANCE BudgetedSearch WITH
    Candidate   <- Tree,
    NoCandidate <- NoTree,
    Better      <- StrictlyBetter,
    incumbent   <- IF ledger.trials = <<>> THEN NoTree ELSE best,
    score       <- ledger.best,
    left        <- IF spec = NoSpec THEN 0 ELSE spec.maxTrials - ledger.completed
ImplementsSearch == Search!SearchSpec
=============================================================================
