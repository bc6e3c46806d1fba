----------------------------- MODULE Benchmark ------------------------------
(***************************************************************************)
(* The trusted benchmark pipeline: the benchmark agent's tasks             *)
(* (agent/benchmark_contract_agent.go, agent/benchmark_metric_contract.go) *)
(* and the adapter tasks of the research coding agent                      *)
(* (agent/benchmark_adapter.go, agent/benchmark_harness.go).               *)
(*                                                                         *)
(* A plan audits its dataset, splits it, freezes the contract, generates   *)
(* an adapter, repairs it in a bounded preflight, runs it and validates    *)
(* its hidden predictions.  Each plan has a workspace of its own; the      *)
(* private directory with the hidden labels is named after the dataset and *)
(* the split's specification, so that two plans on the same data share it. *)
(* The steps of plans interleave; a failed task may be retried; a crash    *)
(* repeats the running tasks and leaves their processes running in the     *)
(* containers.                                                             *)
(***************************************************************************)
EXTENDS BenchmarkSplit

CONSTANTS Plan,
          Dataset,           \* the datasets, by name
          Workloads,         \* functions from some of the plans to [dataset, adaptable, touches]:
                             \* a name, whether a model can adapt the plan's repository, and
                             \* the files beside its output that running it may change
          Code, NoCode,      \* adapters a model may write
          MaxAttempts,       \* benchmark_max_preflight_attempts
          MaxRetries, MaxCrashes   \* bounds

ASSUME AttemptsAssumption == MaxAttempts \in 1..3
ASSUME DataAssumption == /\ \A name \in DOMAIN Dataset : IsDataset(Dataset[name])
                         /\ \A work \in Workloads :
                               /\ DOMAIN work \subseteq Plan
                               /\ \A p \in DOMAIN work : work[p].dataset \in DOMAIN Dataset

VARIABLES data,        \* the workload: what each active plan is about
          stage, pc,   \* the task a plan has come to, and where its agent is in it
          cause,       \* why the task failed, or "none"
          artifacts,   \* what the completed tasks handed over
          workspace,   \* the plan's files: public splits, adapter, sources, predictions
          private,     \* the private directory of each dataset
          draft,       \* the running agent's own variables
          orphan,      \* a hidden run whose backend is gone
          retries, crashes

vars == <<data, stage, pc, cause, artifacts, workspace, private, draft, orphan, retries, crashes>>

Active == DOMAIN data
Of(p) == Dataset[data[p].dataset]

\* The private directory is named after what is split and how.
PrivateId(p) == data[p].dataset

\* The ways each dataset may be divided, and whether the result is accepted.
DivisionTable ==
    UNION {LET d == Dataset[name]
           IN  IF Unsplittable(d) THEN {}
               ELSE {[dataset |-> name, part |-> part, accepted |-> Accepted(d, part)] :
                        part \in Divisions(d)} : name \in DOMAIN Dataset}

Stages == <<"audit", "split", "freeze", "generate", "preflight", "execute", "validate", "report">>

\* The processes of the preflight and of the execution, two each, and the split they read.
Processes == {"labeled", "unlabeled", "public", "hidden"}
\* What a process may change in the workspace: a public split, or the public evaluator.
Protected == Parts \cup {"evaluator"}
Reads(process) == IF process = "hidden" THEN "test" ELSE "validation"

TestRows(part) == {i \in DOMAIN part : part[i] = "test"}

NoArtifacts == [manifest |-> None, contract |-> None, code |-> NoCode, validated |-> NoCode,
                primary |-> FALSE, sound |-> FALSE, report |-> None]
CleanWorkspace == [adapter |-> NoCode, original |-> TRUE, changed |-> Protected,
                   predictions |-> None, numeric |-> TRUE]
EmptyDirectory == [labels |-> None, evaluator |-> FALSE]
NoDraft == [part |-> None, code |-> NoCode, attempt |-> 0]

Init == /\ data \in Workloads
        /\ stage = [p \in Active |-> "audit"] /\ pc = [p \in Active |-> "idle"]
        /\ cause = [p \in Active |-> "none"]
        /\ artifacts = [p \in Active |-> NoArtifacts]
        /\ workspace = [p \in Active |-> CleanWorkspace]
        /\ private = [d \in {PrivateId(p) : p \in Active} |-> EmptyDirectory]
        /\ draft = [p \in Active |-> NoDraft]
        /\ orphan = [p \in Active |-> "none"]
        /\ retries = 0 /\ crashes = 0

-----------------------------------------------------------------------------

StageAfter(s) == LET at == CHOOSE i \in DOMAIN Stages : Stages[i] = s IN Stages[at + 1]

Reaches(p, step) == pc' = [pc EXCEPT ![p] = step] /\ UNCHANGED <<stage, cause>>

\* failBenchmarkTask, failResearchCodingTask
Fails(p, why) ==
    /\ pc' = [pc EXCEPT ![p] = "failed"] /\ cause' = [cause EXCEPT ![p] = why]
    /\ UNCHANGED stage

Completes(p) ==
    /\ stage' = [stage EXCEPT ![p] = StageAfter(@)] /\ pc' = [pc EXCEPT ![p] = "idle"]
    /\ UNCHANGED cause

At(p, task, step) == p \in Active /\ stage[p] = task /\ pc[p] = step

Elsewhere == UNCHANGED <<data, orphan, retries, crashes>>

\* Anything an agent reads, writes or asks for between its processes may be missing, out of
\* reach or refused: the task fails where it is.
Breaks(p) ==
    /\ p \in Active /\ stage[p] # "report" /\ pc[p] \notin Processes \cup {"failed"}
    /\ Fails(p, "io") /\ draft' = [draft EXCEPT ![p] = NoDraft]
    /\ UNCHANGED <<artifacts, workspace, private>> /\ Elsewhere

\* executeDatasetAudit reports issues, and the split refuses a dataset that has some; a
\* dataset no task type or no configured column fits fails at once.
Audit(p) ==
    /\ At(p, "audit", "idle") /\ (Completes(p) \/ Fails(p, "data"))
    /\ UNCHANGED <<artifacts, workspace, private, draft>> /\ Elsewhere

-----------------------------------------------------------------------------
(* Splitting.                                                              *)

\* executeSplitMaterialization up to the removal of the public splits
Divide(p) ==
    /\ At(p, "split", "idle")
    /\ \/ /\ \A division \in DivisionTable : division.dataset # data[p].dataset   \* unsplittable
          /\ Fails(p, "data") /\ UNCHANGED <<draft, workspace>>
       \/ \E division \in {x \in DivisionTable : x.dataset = data[p].dataset} :
            \/ /\ ~division.accepted /\ Fails(p, "guard") /\ UNCHANGED <<draft, workspace>>
            \/ /\ division.accepted /\ Reaches(p, "reset")
               /\ draft' = [draft EXCEPT ![p].part = division.part]
               /\ workspace' = [workspace EXCEPT ![p].changed = @ \cup Parts]
    /\ UNCHANGED <<artifacts, private>> /\ Elsewhere

\* benchmarkPrivateStateDirectory with reset
ResetPrivate(p) ==
    /\ At(p, "split", "reset") /\ Reaches(p, "write")
    /\ private' = [private EXCEPT ![PrivateId(p)] = EmptyDirectory]
    /\ UNCHANGED <<artifacts, workspace, draft>> /\ Elsewhere

\* materializeBenchmarkSplits writes the public files and the hidden labels ...
WriteSplits(p) ==
    /\ At(p, "split", "write") /\ Reaches(p, "hash")
    /\ workspace' = [workspace EXCEPT ![p].changed = @ \ Parts]
    /\ private' = IF RequiresTarget(Of(p).task)
                  THEN [private EXCEPT ![PrivateId(p)].labels = TestRows(draft[p].part)] ELSE private
    /\ UNCHANGED <<artifacts, draft>> /\ Elsewhere

\* Mutant: the manifest is hashed over the labels of every part.
HashAllLabels(p) ==
    /\ At(p, "split", "hash") /\ Completes(p)
    /\ artifacts' = [artifacts EXCEPT ![p].manifest =
                        [part |-> draft[p].part, labels |-> DOMAIN draft[p].part]]
    /\ draft' = [draft EXCEPT ![p] = NoDraft]
    /\ UNCHANGED <<workspace, private>> /\ Elsewhere

\* ... and then reads the labels back for the hash in the manifest.
HashLabels(p) ==
    /\ At(p, "split", "hash")
    /\ IF RequiresTarget(Of(p).task) /\ private[PrivateId(p)].labels = None
       THEN Fails(p, "labels") /\ UNCHANGED artifacts
       ELSE /\ Completes(p)
            /\ artifacts' = [artifacts EXCEPT ![p].manifest =
                                [part |-> draft[p].part, labels |-> private[PrivateId(p)].labels]]
    /\ draft' = [draft EXCEPT ![p] = NoDraft]
    /\ UNCHANGED <<workspace, private>> /\ Elsewhere

\* executeContractFreeze checks the public splits and writes the two evaluators.
Freeze(p) ==
    /\ At(p, "freeze", "idle")
    /\ IF workspace[p].changed \cap Parts # {}
       THEN Fails(p, "frozen") /\ UNCHANGED <<workspace, private, artifacts>>
       ELSE /\ workspace' = [workspace EXCEPT ![p].changed = @ \ {"evaluator"}]
            /\ private' = IF RequiresTarget(Of(p).task)
                          THEN [private EXCEPT ![PrivateId(p)].evaluator = TRUE] ELSE private
            /\ artifacts' = [artifacts EXCEPT ![p].contract = artifacts[p].manifest]
            /\ Completes(p)
    /\ UNCHANGED draft /\ Elsewhere

-----------------------------------------------------------------------------
(* The adapter.                                                            *)

\* executeAdapterGeneration: the model may also answer that there is no way.
Generate(p) ==
    /\ At(p, "generate", "idle")
    /\ \/ \E code \in Code :
            /\ data[p].adaptable /\ Completes(p)
            /\ artifacts' = [artifacts EXCEPT ![p].code = code]
            /\ workspace' = [workspace EXCEPT ![p].adapter = code]
       \/ Fails(p, "model") /\ UNCHANGED <<artifacts, workspace>>
    /\ UNCHANGED <<private, draft>> /\ Elsewhere

\* Mutant: rounds are not counted.
AttemptUncounted(p) ==
    /\ p \in Active /\ stage[p] = "preflight" /\ pc[p] \in {"idle", "repaired"}
    /\ LET code == IF pc[p] = "idle" THEN artifacts[p].code ELSE draft[p].code
       IN  /\ draft' = [draft EXCEPT ![p].code = code]
           /\ workspace' = [workspace EXCEPT ![p].adapter = code]
    /\ Reaches(p, "labeled") /\ UNCHANGED <<artifacts, private>> /\ Elsewhere

\* The start of a round of executeAdapterPreflight: the adapter is written and run.
Attempt(p) ==
    /\ p \in Active /\ stage[p] = "preflight" /\ pc[p] \in {"idle", "repaired"}
    /\ LET code == IF pc[p] = "idle" THEN artifacts[p].code ELSE draft[p].code
       IN  /\ draft' = [draft EXCEPT ![p].code = code, ![p].attempt = @ + 1]
           /\ workspace' = [workspace EXCEPT ![p].adapter = code]
    /\ Reaches(p, "labeled") /\ UNCHANGED <<artifacts, private>> /\ Elsewhere

\* executeBenchmark: the adapter on disk is run.
Execute(p) ==
    /\ At(p, "execute", "idle") /\ Reaches(p, "public")
    /\ UNCHANGED <<artifacts, workspace, private, draft>> /\ Elsewhere

\* What a process may do to the files beside its output: nothing, or change the repository,
\* a split, the public evaluator or the adapter.
Effects(p) ==
    LET touches == data[p].touches
    IN  {workspace[p]}
          \cup {[workspace[p] EXCEPT !.original = FALSE] : file \in touches \cap {"repository"}}
          \cup {[workspace[p] EXCEPT !.changed = @ \cup {file}] : file \in touches \cap Protected}
          \cup {[workspace[p] EXCEPT !.adapter = code] :
                    file \in touches \cap {"adapter"}, code \in Code}

\* repairBenchmarkAdapter after a failed round, if there is another round and the
\* model has an answer; a round that changed the repository is the last.
Repair(p) ==
    \/ /\ draft[p].attempt < MaxAttempts
       /\ \E code \in Code \ {draft[p].code} : draft' = [draft EXCEPT ![p].code = code]
       /\ Reaches(p, "repaired")
    \/ Fails(p, "adapter") /\ draft' = [draft EXCEPT ![p] = NoDraft]

RunFails(p) ==
    IF stage[p] = "preflight" /\ workspace'[p].original = workspace[p].original
    THEN Repair(p)
    ELSE Fails(p, "adapter") /\ draft' = [draft EXCEPT ![p] = NoDraft]

\* What is found of a hidden run's manifest, which is read again after the harness checked it.
Rereads(p) == IF orphan[p] \in {"running", "writing"} THEN BOOLEAN ELSE {TRUE}

\* The next process of the task, or its end: the metrics of the public run, which need not
\* have the frozen primary one, and the manifest of the hidden run are handed over.
RunPasses(p) ==
    CASE pc[p] = "labeled" -> Reaches(p, "unlabeled") /\ UNCHANGED <<draft, artifacts>>
      [] pc[p] = "unlabeled" -> /\ Completes(p)
                                /\ artifacts' = [artifacts EXCEPT ![p].validated = draft[p].code]
                                /\ draft' = [draft EXCEPT ![p] = NoDraft]
      [] pc[p] = "public" -> Reaches(p, "hidden") /\ UNCHANGED <<draft, artifacts>>
      [] pc[p] = "hidden" -> /\ Completes(p)
                             /\ \E primary \in BOOLEAN, sound \in Rereads(p) :
                                    artifacts' = [artifacts EXCEPT ![p].primary = primary,
                                                                   ![p].sound = sound]
                             /\ UNCHANGED draft

\* The repository, the dataset of the run and the adapter are what they were.
Undisturbed(p, after) ==
    /\ after.original = workspace[p].original /\ after.adapter = workspace[p].adapter
    /\ Reads(pc[p]) \notin after.changed

\* The workspace once a hidden run has written its predictions.  Those of a regression need
\* not be numbers, and neither need the targets they will be compared with.
Written(p, files) ==
    {[files EXCEPT !.predictions = TestRows(artifacts[p].manifest.part), !.numeric = numeric] :
        numeric \in IF Of(p).task = "regression" THEN BOOLEAN ELSE {TRUE}}

(***************************************************************************)
(* runBenchmarkHarness and runBenchmarkPredictionHarness: the output       *)
(* directory is cleared, the process runs on an unchanged dataset, the     *)
(* files are compared with what they were, and the output is checked       *)
(* against the manifest.  A stream that is cut fails the run and leaves    *)
(* the process behind.                                                     *)
(***************************************************************************)
Run(p) ==
    /\ p \in Active /\ pc[p] \in Processes
    /\ LET starts == Reads(pc[p]) \notin workspace[p].changed
           hidden == pc[p] = "hidden"
       IN  \E after \in IF starts THEN Effects(p) ELSE {workspace[p]} :
            \/ /\ workspace' = [workspace EXCEPT ![p] =
                    IF hidden THEN [after EXCEPT !.predictions = None, !.numeric = TRUE] ELSE after]
               /\ \E left \in {orphan[p]} \cup (IF starts /\ hidden THEN {"running"} ELSE {}) :
                    orphan' = [orphan EXCEPT ![p] = left]
               /\ RunFails(p) /\ UNCHANGED artifacts
            \/ /\ Undisturbed(p, after)
               /\ \E files \in IF hidden THEN Written(p, after) ELSE {after} :
                    workspace' = [workspace EXCEPT ![p] = files]
               /\ RunPasses(p) /\ UNCHANGED orphan
    /\ UNCHANGED <<data, private, retries, crashes>>

-----------------------------------------------------------------------------
(* Hidden validation.                                                      *)

\* executeHiddenValidation: the hashes of what was frozen, the metrics of the public run and
\* the manifest of the hidden one ...
CheckFrozen(p) ==
    /\ At(p, "validate", "idle")
    /\ LET intact == workspace[p].changed = {} /\ artifacts[p].manifest = artifacts[p].contract
           hidden == /\ private[PrivateId(p)].labels = artifacts[p].manifest.labels
                     /\ private[PrivateId(p)].evaluator
                     /\ artifacts[p].sound
       IN  \/ ~intact /\ Fails(p, "frozen") /\ UNCHANGED artifacts
           \/ intact /\ ~artifacts[p].primary /\ Fails(p, "metrics") /\ UNCHANGED artifacts
           \/ /\ intact /\ artifacts[p].primary /\ ~RequiresTarget(Of(p).task)
              /\ artifacts' = [artifacts EXCEPT ![p].report = [rows |-> {}, labels |-> {}]]
              /\ Completes(p)
           \/ /\ intact /\ artifacts[p].primary /\ RequiresTarget(Of(p).task)
              /\ IF hidden THEN Reaches(p, "join") ELSE Fails(p, "frozen")
              /\ UNCHANGED artifacts
    /\ UNCHANGED <<workspace, private, draft>> /\ Elsewhere

\* Mutant: predictions without a label are counted as misses.
JoinsLoosely(predictions, labels, count) ==
    Cardinality(predictions) = count /\ Cardinality(labels) = count

\* joinBenchmarkHiddenPairs, and the counts that precede it
Joins(predictions, labels, count) ==
    /\ Cardinality(predictions) = count /\ Cardinality(labels) = count
    /\ predictions \subseteq labels

\* recomputeBenchmarkContractMetrics has no evaluator for retrieval, and compares numbers
\* for a regression.
Measurable(p) ==
    /\ Of(p).task # "retrieval"
    /\ Of(p).task = "regression" => workspace[p].numeric

\* ... and then the files themselves are read again, joined and scored.
Score(p) ==
    /\ At(p, "validate", "join")
    /\ LET predictions == workspace[p].predictions
           labels == private[PrivateId(p)].labels
           joined == /\ predictions # None /\ labels # None
                     /\ Joins(predictions, labels,
                              Cardinality(TestRows(artifacts[p].manifest.part)))
       IN  \/ ~joined /\ Fails(p, "join") /\ UNCHANGED artifacts
           \/ joined /\ ~Measurable(p) /\ Fails(p, "metrics") /\ UNCHANGED artifacts
           \/ /\ joined /\ Measurable(p) /\ Completes(p)
              /\ artifacts' = [artifacts EXCEPT ![p].report =
                                  [rows |-> predictions, labels |-> labels]]
    /\ UNCHANGED <<workspace, private, draft>> /\ Elsewhere

-----------------------------------------------------------------------------
(* Retries and crashes.                                                    *)

\* RetryTask of the scheduler.
Retry(p) ==
    /\ p \in Active /\ pc[p] = "failed" /\ retries < MaxRetries
    /\ pc' = [pc EXCEPT ![p] = "idle"] /\ cause' = [cause EXCEPT ![p] = "none"]
    /\ retries' = retries + 1
    /\ UNCHANGED <<data, stage, artifacts, workspace, private, draft, orphan, crashes>>

\* The backend goes down: running tasks will be repeated, their processes go on.  Only
\* a hidden run still writes what a later task reads.
Crash ==
    /\ crashes < MaxCrashes /\ crashes' = crashes + 1
    /\ orphan' = [p \in Active |-> IF pc[p] = "hidden" THEN "running" ELSE orphan[p]]
    /\ pc' = [p \in Active |-> IF pc[p] = "failed" THEN "failed" ELSE "idle"]
    /\ draft' = [p \in Active |-> NoDraft]
    /\ UNCHANGED <<data, stage, cause, artifacts, workspace, private, retries>>

\* The orphan reopens the predictions, and later has written all of them; like any process
\* it may change other files.
OrphanWrites(p) ==
    /\ p \in Active /\ orphan[p] \in {"running", "writing"}
    /\ \/ /\ orphan[p] = "running" /\ orphan' = [orphan EXCEPT ![p] = "writing"]
          /\ \E after \in Effects(p) :
                workspace' = [workspace EXCEPT ![p] = [after EXCEPT !.predictions = {}]]
       \/ /\ orphan[p] = "writing" /\ orphan' = [orphan EXCEPT ![p] = "gone"]
          /\ \E files \in Written(p, workspace[p]) : workspace' = [workspace EXCEPT ![p] = files]
    /\ UNCHANGED <<data, stage, pc, cause, artifacts, private, draft, retries, crashes>>

-----------------------------------------------------------------------------

Step(p) ==
    \/ Audit(p) \/ Divide(p) \/ ResetPrivate(p) \/ WriteSplits(p) \/ HashLabels(p) \/ Freeze(p)
    \/ Generate(p) \/ Attempt(p) \/ Execute(p) \/ Run(p) \/ CheckFrozen(p) \/ Score(p)
    \/ Breaks(p)

Next == \/ \E p \in Plan : Step(p) \/ Retry(p) \/ OrphanWrites(p)
        \/ Crash

Spec == Init /\ [][Next]_vars

\* Agents run in goroutines of their own.
FairSpec == Spec /\ \A p \in Plan : WF_vars(Step(p))

-----------------------------------------------------------------------------

(***************************************************************************)
(* A split by input, stratified or not, is never refused once its units    *)
(* are assigned: the shares, the strata, the rebalancing and the units'    *)
(* isolation always fill the three parts without leakage.  Only a group or *)
(* a time column can lead to a split the guard must refuse.                *)
(***************************************************************************)
InputSplitsPass ==
    \A p \in Active : cause[p] = "guard" => Of(p).grouped \/ Of(p).timed

(***************************************************************************)
(* A stratified split shows every class that has a unit for each part in   *)
(* each part.                                                              *)
(***************************************************************************)
ClassesInEveryPart ==
    \A p \in Active :
        artifacts[p].manifest # None /\ Method(Of(p)) = "stratified_hash" =>
            LET d == Of(p)
                part == artifacts[p].manifest.part
            IN  \A label \in Targets(d) :
                    LET rows == {i \in DOMAIN part : d.rows[i].target = label}
                    IN  Cardinality({d.rows[i].input : i \in rows}) >= 3
                            => {part[i] : i \in rows} = Parts

(***************************************************************************)
(* A score is that of the plan's own frozen test rows, each with a         *)
(* prediction and its own label, whatever the other plans on the same data *)
(* do to the private directory between the hash check and the scoring.     *)
(***************************************************************************)
ScoresAreOfTheFrozenTest ==
    \A p \in Active :
        artifacts[p].report # None /\ RequiresTarget(Of(p).task) =>
            /\ artifacts[p].report.rows = TestRows(artifacts[p].contract.part)
            /\ artifacts[p].report.labels = artifacts[p].report.rows

(***************************************************************************)
(* Validation refuses a plan for a reason.  What was frozen is not found   *)
(* again, or does not join the predictions: another plan on the same data, *)
(* an orphaned run, or protected files a run changed.  The metrics are     *)
(* wanting: the public run left out the primary one, the task has no       *)
(* evaluator, or a regression's values are not numbers.  Left alone, and   *)
(* with complete metrics, whatever was frozen is found again as it was.    *)
(***************************************************************************)
RefusedForACause ==
    \A p \in Active :
        /\ cause[p] \in {"labels", "frozen", "join"} =>
              \/ \E q \in Active \ {p} : PrivateId(q) = PrivateId(p)
              \/ orphan[p] # "none"
              \/ workspace[p].changed \cap data[p].touches # {}
        /\ cause[p] = "metrics" =>
              \/ orphan[p] # "none"
              \/ ~artifacts[p].primary
              \/ ~Measurable(p)

\* Every plan comes to its report or to a failed task that nobody retries.
PipelinesEnd ==
    \A p \in Plan : <>[](p \in Active => stage[p] = "report" \/ pc[p] = "failed")
=============================================================================
