------------------------- MODULE AutoResearchProofs -------------------------
(***************************************************************************)
(* Proofs about AutoResearch, for any files, contents, scores, limits and  *)
(* uploads: what the loop keeps is on disk, a validation leaves the        *)
(* candidate in place, frozen specifications are valid, a ledger the loop  *)
(* completes passes the replay of the validation, and the run implements   *)
(* the budgeted search.                                                    *)
(***************************************************************************)
EXTENDS AutoResearch, FiniteSetTheorems, WellFoundedInduction, TLAPS

Bests == {"baseline", "kept"}

\* Trial k is the last one kept, and what it measured is the best.
HeldBy(k) ==
    /\ k \in DOMAIN ledger.trials /\ ledger.trials[k].status \in Bests
    /\ \A j \in DOMAIN ledger.trials : j > k => ledger.trials[j].status \notin Bests
    /\ best = ledger.trials[k].tree /\ ledger.best = ledger.trials[k].metric

\* Where the tasks are.
PlaceOK ==
    /\ pc \in RunPhases => task = "run"
    /\ pc \in {"validate", "vrun", "report", "done"} => task = "validate"
    /\ task # "spec" => FrozenSpecIsValid(spec)
    /\ task = "validate" => published.files \in Tree

\* The ledger of a run counts its trials; without a run there is none.
LedgerOK ==
    /\ DOMAIN ledger = DOMAIN NewLedger
    /\ ledger.trials \in Seq(Range(ledger.trials))
    /\ ledger.completed \in Nat
    /\ pc \notin RunPhases \ {"baseline"} => ledger.trials = <<>>
    /\ pc \in RunPhases \ {"baseline"} => ledger.trials # <<>> /\ \E k \in Nat : HeldBy(k)
    /\ pc \in {"apply", "trial"} => ledger.completed < spec.maxTrials

\* What the run knows of the files it may have to restore, and of those on disk.
FilesOK ==
    /\ pc \in RunPhases => original \in Tree /\ best \in Tree
    /\ pc \in {"baseline", "holdout"} => best = original
    /\ pc = "loop" => files = best
    /\ pc \in {"loop", "apply"} => protectedOK /\ immutableOK
    /\ DOMAIN ev = {"guards", "samples", "runs", "error"}
    /\ pc \in {"baseline", "holdout", "trial"} /\ ev.error # "integrity"
            => protectedOK /\ immutableOK

Reports == [status : {"none", "running", "validated", "failed"},
            completed : Nat, passed : Nat, intact : BOOLEAN]

\* What a validation has left in the workspace.
ReportOK ==
    /\ report \in Reports
    /\ pc = "validate" => CandidateIntact
    /\ pc = "report" /\ report.intact => CandidateIntact
    /\ pc = "done" => /\ CandidateIntact /\ report.completed = RequestedRuns
                      /\ report.status = "validated" <=> report.passed = RequestedRuns

SearchInv == TypeOK /\ PlaceOK /\ LedgerOK /\ FilesOK /\ ReportOK

-----------------------------------------------------------------------------
(* Facts about the operators *)

(* A tree of files is not the absence of one. *)
LEMMA TreesExist == NoTree \notin Tree /\ NoTree \in Patches
  <1>1. ASSUME NoTree \in Tree PROVE FALSE
    <2>1. DOMAIN NoTree = File
      BY <1>1 DEF Tree
    <2>2. DOMAIN NoTree = {}
      BY DEF NoTree
    <2> QED BY <2>1, <2>2, ContentAssumption
  <1>2. NoTree \in [{} -> Content]
    BY DEF NoTree
  <1>3. {} \in SUBSET File
    OBVIOUS
  <1>4. [{} -> Content] \in {[S -> Content] : S \in SUBSET File}
    BY <1>3
  <1> QED BY <1>1, <1>2, <1>4 DEF Patches

(* Appending keeps what was there, whatever the entries are. *)
LEMMA AppendShape ==
  ASSUME NEW S, NEW s \in Seq(S), NEW e
  PROVE  /\ Append(s, e) \in Seq(S \cup {e})
         /\ Len(s) \in Nat
         /\ Len(Append(s, e)) = Len(s) + 1
         /\ DOMAIN Append(s, e) = 1..(Len(s) + 1)
         /\ DOMAIN s = 1..Len(s)
         /\ \A i \in 1..Len(s) : Append(s, e)[i] = s[i]
         /\ Append(s, e)[Len(s) + 1] = e
  <1>1. s \in Seq(S \cup {e})
    OBVIOUS
  <1> QED BY <1>1

(* A sequence is one over its own entries. *)
LEMMA SeqOfRange ==
  ASSUME NEW S, NEW s \in Seq(S)
  PROVE  s \in Seq(Range(s))
  <1>1. \A i \in 1..Len(s) : s[i] \in Range(s)
    BY DEF Range
  <1>2. Len(s) \in Nat /\ DOMAIN s = 1..Len(s) /\ s = [i \in 1..Len(s) |-> s[i]]
    OBVIOUS
  <1>3. s \in [1..Len(s) -> Range(s)]
    BY <1>1, <1>2
  <1> QED BY <1>2, <1>3

(* The greatest element of a set is its maximum. *)
LEMMA MaxIs ==
  ASSUME NEW S \in SUBSET Int, NEW k \in S, \A j \in S : j <= k
  PROVE  Max(S) = k
  <1>1. \A x, y \in S : x >= y /\ y >= x => x = y
    OBVIOUS
  <1>2. \A y \in S : k >= y
    OBVIOUS
  <1>3. Max(S) \in S /\ \A y \in S : Max(S) >= y
    BY <1>2 DEF Max
  <1> QED BY <1>1, <1>2, <1>3

(* A trial is added to the ledger and counted; the rest of the ledger stays. *)
LEMMA LoggedShape ==
  ASSUME DOMAIN ledger = DOMAIN NewLedger, NEW trial
  PROVE  /\ DOMAIN Logged(trial) = DOMAIN NewLedger
         /\ Logged(trial).trials = Append(ledger.trials, trial)
         /\ Logged(trial).completed = ledger.completed + 1
         /\ Logged(trial).best = ledger.best
         /\ Logged(trial).accepted = ledger.accepted
         /\ Logged(trial).stop = ledger.stop
         /\ Logged(trial).holdout = ledger.holdout
  BY DEF Logged, NewLedger

(* What freezing accepts passes the checks at the start of the later tasks
   (normalizeAndFreezeAutoResearchSpec, validateFrozenAutoResearchSpec).     *)
THEOREM FrozenSpecsAreValid ==
  ASSUME NEW raw \in RawSpecs, Acceptable(raw)
  PROVE  FrozenSpecIsValid(Normalize(raw))
  <1> DEFINE s == Normalize(raw)
  <1>1. /\ raw.maxTrials \in Int /\ raw.searchRuns \in Int /\ raw.validationRuns \in Int
        /\ raw.inputTrials \in Int \cup {NoInput} /\ raw.inputRuns \in Int \cup {NoInput}
        /\ raw.evaluator # "none"
    BY UploadAssumption
  <1>2. \A input \in Int, limit \in Nat \ {0} : Within(input, limit) \in 1..limit
    BY DEF Within
  <1>3. TrialBudget(raw.maxTrials, raw.inputTrials) \in 1..MaxTrialsLimit
    <2> DEFINE top == IF raw.inputTrials = NoInput THEN DefaultTrials
                      ELSE Within(raw.inputTrials, MaxTrialsLimit)
    <2>1. top \in 1..MaxTrialsLimit
      BY <1>1, <1>2, LimitAssumption
    <2>2. TrialBudget(raw.maxTrials, raw.inputTrials)
            = IF raw.maxTrials <= 0 \/ raw.maxTrials > top THEN top ELSE raw.maxTrials
      BY DEF TrialBudget
    <2> HIDE DEF top
    <2> QED BY <1>1, <2>1, <2>2, LimitAssumption
  <1>4. SearchRuns(raw.searchRuns) \in 1..SearchRunsLimit
    BY <1>1, <1>2, LimitAssumption DEF SearchRuns
  <1>5. ValidationBudget(raw.validationRuns, raw.inputRuns) \in 0..ValidationRunsLimit
    <2> DEFINE top == IF raw.inputRuns = NoInput THEN ValidationRunsLimit
                      ELSE Within(raw.inputRuns, ValidationRunsLimit)
    <2>1. top \in 1..ValidationRunsLimit
      BY <1>1, <1>2, LimitAssumption
    <2>2. ValidationBudget(raw.validationRuns, raw.inputRuns)
            = IF raw.validationRuns <= 0 THEN IF raw.inputRuns = NoInput THEN 1 ELSE top
              ELSE IF raw.validationRuns > top THEN top ELSE raw.validationRuns
      BY DEF ValidationBudget
    <2> HIDE DEF top
    <2> QED BY <1>1, <2>1, <2>2, LimitAssumption
  <1>6. /\ s.maxTrials = TrialBudget(raw.maxTrials, raw.inputTrials)
        /\ s.searchRuns = SearchRuns(raw.searchRuns)
        /\ s.validationRuns = ValidationBudget(raw.validationRuns, raw.inputRuns)
        /\ s.aggregation = raw.aggregation /\ s.editable = raw.editable
        /\ s.protected = raw.protected /\ s.evaluator = raw.evaluator
        /\ s.holdout = raw.holdout
    BY DEF Normalize
  <1> HIDE DEF s
  <1> QED BY <1>1, <1>3, <1>4, <1>5, <1>6 DEF FrozenSpecIsValid, Acceptable, s

-----------------------------------------------------------------------------
(* What steps leave behind *)

WorkspaceOK == files \in Tree /\ protectedOK \in BOOLEAN /\ immutableOK \in BOOLEAN
               /\ faults \in 0..MaxFaults

LEMMA FaultsAreBounded ==
  ASSUME faults \in 0..MaxFaults, NoFault \/ Fault
  PROVE  faults' \in 0..MaxFaults
  BY LimitAssumption DEF NoFault, Fault

(* A restore that stops in the middle leaves a tree of files. *)
LEMMA PartlyIsATree ==
  ASSUME files \in Tree, NEW target \in Tree
  PROVE  Partly(target) \subseteq Tree
  BY DEF Partly, Tree

(* Whatever a restore achieves, the workspace is one. *)
LEMMA RestoresKeepTheWorkspace ==
  ASSUME WorkspaceOK, NEW target \in Tree,
         \/ RestoreWorkspace(target) /\ NoFault
         \/ RestoreWorkspaceFails(target)
         \/ RestoreFiles(target) /\ (NoFault \/ Fault)
         \/ RestoreFilesFails(target)
  PROVE  WorkspaceOK'
  <1>1. faults' \in 0..MaxFaults
    BY FaultsAreBounded
    DEF WorkspaceOK, RestoreWorkspaceFails, RestoreFilesFails
  <1>2. files' \in Tree
    BY PartlyIsATree
    DEF WorkspaceOK, RestoreWorkspace, RestoreWorkspaceFails, RestoreFiles,
        RestoreFilesFails, workspace
  <1>3. protectedOK' \in BOOLEAN /\ immutableOK' \in BOOLEAN
    BY DEF WorkspaceOK, RestoreWorkspace, RestoreWorkspaceFails, RestoreFiles,
           RestoreFilesFails, workspace
  <1> QED BY <1>1, <1>2, <1>3 DEF WorkspaceOK

LEMMA WorkspaceIsTyped ==
  ASSUME SearchInv
  PROVE  WorkspaceOK
  BY DEF SearchInv, TypeOK, WorkspaceOK

(* An attempt that is over, in whatever state it leaves the workspace. *)
LEMMA ForgottenAttempt ==
  ASSUME SearchInv, WorkspaceOK', Forget, UNCHANGED <<spec, task>>,
         pc' \in {"failed", "idle"},
         report' \in Reports,
         published' = published
  PROVE  SearchInv'
  <1>1. TypeOK'
    BY TreesExist DEF SearchInv, TypeOK, WorkspaceOK, Forget
  <1>2. PlaceOK'
    BY DEF SearchInv, PlaceOK, FrozenSpecIsValid, RunPhases
  <1>3. LedgerOK'
    <2>1. ledger' = NewLedger
      BY DEF Forget
    <2>2. NewLedger.trials = <<>> /\ NewLedger.completed = 0
      BY DEF NewLedger
    <2>3. <<>> \in Seq(Range(<<>>))
      OBVIOUS
    <2> QED BY <2>1, <2>2, <2>3 DEF LedgerOK, RunPhases, NewLedger
  <1>4. FilesOK'
    BY DEF FilesOK, Forget, RunPhases
  <1>5. ReportOK'
    BY DEF ReportOK
  <1> QED BY <1>1, <1>2, <1>3, <1>4, <1>5 DEF SearchInv

LEMMA FailedAttempt ==
  ASSUME SearchInv, WorkspaceOK', FailTask, UNCHANGED report
  PROVE  SearchInv'
  BY ForgottenAttempt DEF FailTask, SearchInv, ReportOK

LEMMA UnreadableStep ==
  ASSUME SearchInv, Unreadable
  PROVE  SearchInv'
  <1>1. WorkspaceOK'
    BY WorkspaceIsTyped, FaultsAreBounded DEF WorkspaceOK, Unreadable, workspace
  <1> QED BY <1>1, FailedAttempt DEF Unreadable

LEMMA NoReportIsAReport ==
  NoReport \in Reports
  BY DEF NoReport, Reports

LEMMA Initially == Init => SearchInv
  <1> SUFFICES ASSUME Init PROVE SearchInv
    OBVIOUS
  <1>1. TypeOK
    <2>1. Original \in Tree /\ 0 \in 0..MaxFaults
      BY ContentAssumption, LimitAssumption DEF Tree
    <2>2. files \in Tree /\ pending \in Patches /\ faults \in 0..MaxFaults
      BY <2>1, TreesExist DEF Init
    <2> QED BY <2>2 DEF Init, TypeOK
  <1>2. PlaceOK
    BY DEF Init, PlaceOK, RunPhases
  <1>3. LedgerOK
    <2>1. <<>> \in Seq(Range(<<>>))
      OBVIOUS
    <2> QED BY <2>1 DEF Init, LedgerOK, NewLedger, RunPhases
  <1>4. FilesOK
    BY DEF Init, FilesOK, RunPhases
  <1>5. ReportOK
    BY NoReportIsAReport DEF Init, ReportOK
  <1> QED BY <1>1, <1>2, <1>3, <1>4, <1>5 DEF SearchInv

-----------------------------------------------------------------------------
(* The steps before the loop *)

LEMMA FreezeStep ==
  ASSUME SearchInv, Freeze
  PROVE  SearchInv'
  <1>1. TypeOK'
    BY DEF SearchInv, TypeOK, Freeze, RunPhases
  <1>2. PlaceOK'
    <2>1. CASE \E raw \in RawSpecs : Acceptable(raw) /\ spec' = Normalize(raw)
                                    /\ task' = "run" /\ pc' = "idle"
      <3>1. FrozenSpecIsValid(spec)'
        BY <2>1, FrozenSpecsAreValid DEF FrozenSpecIsValid
      <3> QED BY <2>1, <3>1 DEF PlaceOK, RunPhases
    <2>2. CASE pc' = "failed" /\ UNCHANGED <<spec, task>>
      BY <2>2 DEF PlaceOK, Freeze, RunPhases
    <2> QED BY <2>1, <2>2 DEF Freeze
  <1>3. pc' \notin RunPhases /\ pc' \notin {"validate", "report", "done"}
    BY DEF Freeze, RunPhases
  <1>4. pc \notin RunPhases /\ ledger' = ledger /\ ev' = ev /\ report' = report
    BY DEF Freeze, RunPhases
  <1>5. LedgerOK'
    BY <1>3, <1>4 DEF SearchInv, LedgerOK, RunPhases
  <1>6. FilesOK' /\ ReportOK'
    BY <1>3, <1>4 DEF SearchInv, FilesOK, ReportOK, RunPhases
  <1> QED BY <1>1, <1>2, <1>5, <1>6 DEF SearchInv

LEMMA BeginRunStep ==
  ASSUME SearchInv, BeginRun
  PROVE  SearchInv'
  <1>1. CASE Unreadable
    BY <1>1, UnreadableStep
  <1>2. CASE ~Unreadable
    <2>0. WorkspaceOK'
      BY <1>2, WorkspaceIsTyped DEF WorkspaceOK, BeginRun, NoFault, workspace
    <2>1. CASE FailTask
      BY <1>2, <2>0, <2>1, FailedAttempt DEF BeginRun
    <2>2. CASE ~FailTask
      <3>1. /\ task' = task /\ spec' = spec /\ task = "run" /\ pc' = "baseline"
            /\ original' = files /\ best' = files /\ ledger' = NewLedger
            /\ ev' = NewEvaluation(Guards, spec.searchRuns)
            /\ protectedOK /\ immutableOK
            /\ UNCHANGED <<files, protectedOK, immutableOK, faults, expired, expected, pending,
                           published, report>>
        BY <1>2, <2>2
        DEF BeginRun, Snapshot, FilesVerified, FingerprintVerified, NoFault, workspace
      <3>2. TypeOK'
        BY <3>1 DEF SearchInv, TypeOK, RunPhases
      <3>3. PlaceOK'
        BY <3>1 DEF SearchInv, PlaceOK, FrozenSpecIsValid
      <3>4. LedgerOK'
        <4>1. <<>> \in Seq(Range(<<>>))
          OBVIOUS
        <4>2. NewLedger.trials = <<>> /\ NewLedger.completed = 0
          BY DEF NewLedger
        <4> QED BY <3>1, <4>1, <4>2 DEF LedgerOK, RunPhases, NewLedger
      <3>5. FilesOK'
        BY <3>1 DEF SearchInv, TypeOK, FilesOK, NewEvaluation, RunPhases
      <3>6. ReportOK'
        BY <3>1 DEF SearchInv, ReportOK
      <3> QED BY <3>2, <3>3, <3>4, <3>5, <3>6 DEF SearchInv
    <2> QED BY <2>1, <2>2
  <1> QED BY <1>1, <1>2

(* A command changes the workspace and the evaluation, nothing else. *)
LEMMA RunCommandStep ==
  ASSUME SearchInv, RunCommand
  PROVE  SearchInv'
  <1>1. WorkspaceOK'
    <2>1. faults' \in 0..MaxFaults
      BY FaultsAreBounded DEF SearchInv, TypeOK, RunCommand
    <2>2. files' \in Tree /\ protectedOK' \in BOOLEAN /\ immutableOK' \in BOOLEAN
      BY DEF SearchInv, TypeOK, RunCommand, workspace, Tree
    <2> QED BY <2>1, <2>2 DEF WorkspaceOK
  <1>2. /\ pc \in {"baseline", "holdout", "trial", "vrun"} /\ pc' = pc
        /\ UNCHANGED <<spec, task, expired, original, best, expected, pending, ledger,
                       published, report>>
    BY DEF RunCommand
  <1>3. TypeOK'
    BY <1>1, <1>2 DEF SearchInv, TypeOK, WorkspaceOK
  <1>4. PlaceOK'
    BY <1>2 DEF SearchInv, PlaceOK, FrozenSpecIsValid
  <1>5. LedgerOK'
    BY <1>2 DEF SearchInv, LedgerOK, HeldBy
  <1>6. /\ DOMAIN ev' = {"guards", "samples", "runs", "error"}
        /\ ~protectedOK' \/ ~immutableOK' => ev'.error = "integrity"
    BY <1>1 DEF SearchInv, FilesOK, RunCommand, FilesVerified, FingerprintVerified
  <1>7. FilesOK'
    BY <1>1, <1>2, <1>6 DEF SearchInv, FilesOK, WorkspaceOK, RunPhases
  <1>8. ReportOK'
    BY <1>2 DEF SearchInv, ReportOK
  <1> QED BY <1>3, <1>4, <1>5, <1>7, <1>8 DEF SearchInv

-----------------------------------------------------------------------------
(* The ledger grows *)

LEMMA AddedTrial ==
  ASSUME LedgerOK, NEW trial, ledger'.trials = Append(ledger.trials, trial)
  PROVE  /\ ledger'.trials \in Seq(Range(ledger'.trials)) /\ ledger'.trials # <<>>
         /\ Len(ledger.trials) \in Nat
         /\ DOMAIN ledger.trials = 1..Len(ledger.trials)
         /\ DOMAIN ledger'.trials = 1..(Len(ledger.trials) + 1)
         /\ ledger'.trials[Len(ledger.trials) + 1] = trial
         /\ \A i \in 1..Len(ledger.trials) : ledger'.trials[i] = ledger.trials[i]
  <1> DEFINE old == ledger.trials
             new == Append(old, trial)
  <1>1. old \in Seq(Range(old))
    BY DEF LedgerOK
  <1> HIDE DEF old
  <1>2. /\ new \in Seq(Range(old) \cup {trial}) /\ Len(old) \in Nat
        /\ Len(new) = Len(old) + 1 /\ DOMAIN new = 1..(Len(old) + 1)
        /\ DOMAIN old = 1..Len(old)
        /\ \A i \in 1..Len(old) : new[i] = old[i]
        /\ new[Len(old) + 1] = trial
    BY <1>1, AppendShape
  <1>3. ledger'.trials = new
    BY DEF old
  <1> HIDE DEF new
  <1>4. new \in Seq(Range(new))
    BY <1>2, SeqOfRange
  <1>5. new # <<>>
    BY <1>2
  <1> QED BY <1>2, <1>3, <1>4, <1>5 DEF old

(* A rejected trial leaves the last kept one in its place. *)
LEMMA RejectedTrialKeepsBest ==
  ASSUME LedgerOK, NEW trial, trial.status = "rejected",
         ledger'.trials = Append(ledger.trials, trial),
         best' = best, ledger'.best = ledger.best,
         NEW k \in Nat, HeldBy(k)
  PROVE  HeldBy(k)'
  <1> DEFINE n == Len(ledger.trials)
  <1>1. /\ n \in Nat /\ DOMAIN ledger.trials = 1..n /\ DOMAIN ledger'.trials = 1..(n + 1)
        /\ ledger'.trials[n + 1].status = "rejected"
        /\ \A i \in 1..n : ledger'.trials[i] = ledger.trials[i]
    BY AddedTrial
  <1> HIDE DEF n
  <1>2. k \in 1..n /\ k \in 1..(n + 1)
    BY <1>1 DEF HeldBy
  <1>3. ASSUME NEW j \in 1..(n + 1), j > k
        PROVE  ledger'.trials[j].status \notin Bests
    BY <1>1, <1>2, <1>3 DEF HeldBy, Bests
  <1> QED BY <1>1, <1>2, <1>3 DEF HeldBy

(* A kept trial becomes the last kept one. *)
LEMMA KeptTrialHolds ==
  ASSUME LedgerOK, NEW trial, trial.status \in Bests,
         ledger'.trials = Append(ledger.trials, trial),
         best' = trial.tree, ledger'.best = trial.metric,
         NEW k \in Nat, k = Len(ledger.trials) + 1
  PROVE  HeldBy(k)'
  <1> DEFINE n == Len(ledger.trials)
  <1>1. /\ n \in Nat /\ DOMAIN ledger'.trials = 1..(n + 1)
        /\ ledger'.trials[n + 1] = trial
    BY AddedTrial
  <1>2. k = n + 1
    OBVIOUS
  <1> HIDE DEF n
  <1>3. k \in 1..(n + 1) /\ \A j \in 1..(n + 1) : ~(j > k)
    BY <1>1, <1>2
  <1> QED BY <1>1, <1>2, <1>3 DEF HeldBy

(* In the run, between the baseline and its end. *)
LEMMA InTheLoop ==
  ASSUME SearchInv, pc \in RunPhases
  PROVE  /\ task = "run" /\ FrozenSpecIsValid(spec) /\ original \in Tree /\ best \in Tree
         /\ DOMAIN ledger = DOMAIN NewLedger /\ ledger.completed \in Nat
         /\ pc # "baseline" => ledger.trials # <<>> /\ \E k \in Nat : HeldBy(k)
  BY DEF SearchInv, PlaceOK, FilesOK, LedgerOK

(* A trial that is recorded while the workspace holds the best files again. *)
LEMMA BackToTheLoop ==
  ASSUME SearchInv, WorkspaceOK', NEW trial,
         pc \in {"loop", "apply", "trial"}, pc' = "loop",
         DOMAIN ledger' = DOMAIN NewLedger,
         ledger'.trials = Append(ledger.trials, trial),
         ledger'.completed = ledger.completed + 1,
         \/ trial.status = "rejected" /\ best' = best /\ ledger'.best = ledger.best
         \/ trial.status = "kept" /\ best' = trial.tree /\ ledger'.best = trial.metric,
         best' \in Tree, files' = best', protectedOK', immutableOK',
         expected' \in Tree \cup {NoTree}, pending' \in Patches, expired' \in BOOLEAN,
         DOMAIN ev' = {"guards", "samples", "runs", "error"},
         UNCHANGED <<spec, task, original, published, report>>
  PROVE  SearchInv'
  <1>0. /\ task = "run" /\ FrozenSpecIsValid(spec) /\ original \in Tree
        /\ ledger.completed \in Nat /\ LedgerOK /\ \E k \in Nat : HeldBy(k)
    BY InTheLoop DEF SearchInv, RunPhases
  <1>1. TypeOK'
    BY <1>0 DEF SearchInv, TypeOK, WorkspaceOK, RunPhases
  <1>2. PlaceOK'
    BY <1>0 DEF SearchInv, PlaceOK, FrozenSpecIsValid, RunPhases
  <1>3. \E k \in Nat : HeldBy(k)'
    <2>1. CASE trial.status = "rejected" /\ best' = best /\ ledger'.best = ledger.best
      <3>1. PICK k \in Nat : HeldBy(k)
        BY <1>0
      <3> QED BY <1>0, <2>1, <3>1, RejectedTrialKeepsBest
    <2>2. CASE trial.status = "kept" /\ best' = trial.tree /\ ledger'.best = trial.metric
      <3>1. PICK k \in Nat : k = Len(ledger.trials) + 1
        BY <1>0, AddedTrial
      <3> QED BY <1>0, <2>2, <3>1, KeptTrialHolds DEF Bests
    <2> QED BY <2>1, <2>2
  <1>4. ledger'.trials \in Seq(Range(ledger'.trials)) /\ ledger'.trials # <<>>
    BY <1>0, AddedTrial
  <1>5. LedgerOK'
    <2>1. ledger'.completed \in Nat
      BY <1>0
    <2> QED BY <1>3, <1>4, <2>1 DEF LedgerOK, RunPhases, NewLedger
  <1>6. FilesOK'
    BY <1>0 DEF FilesOK, RunPhases
  <1>7. ReportOK'
    BY DEF SearchInv, ReportOK
  <1> QED BY <1>1, <1>2, <1>5, <1>6, <1>7 DEF SearchInv

-----------------------------------------------------------------------------
(* The steps of the run *)

LEMMA DecideBaselineStep ==
  ASSUME SearchInv, DecideBaseline
  PROVE  SearchInv'
  <1>0. /\ pc = "baseline" /\ task = "run" /\ FrozenSpecIsValid(spec)
        /\ original \in Tree /\ best = original
        /\ DOMAIN ledger = DOMAIN NewLedger /\ ledger.completed \in Nat
    BY InTheLoop DEF DecideBaseline, RunPhases, SearchInv, FilesOK
  <1>1. CASE ev.error = "none" /\ files = original
    <2> DEFINE score == Aggregate(ev.samples, spec.aggregation)
               trial == Trial("baseline", TRUE, ev.samples, files)
    <2>1. /\ ledger' = [ledger EXCEPT !.best = score, !.trials = <<trial>>]
          /\ \/ pc' = "holdout" /\ ev' = NewEvaluation(0, 1)
             \/ pc' = "loop" /\ UNCHANGED ev
          /\ UNCHANGED <<spec, task, expired, original, best, expected, pending, published,
                         files, protectedOK, immutableOK, faults, report>>
      BY <1>1 DEF DecideBaseline, workspace, NoFault
    <2>2. trial.status = "baseline" /\ trial.tree = files /\ trial.metric = score
      BY DEF Trial
    <2> HIDE DEF score, trial
    <2>3. /\ DOMAIN ledger' = DOMAIN NewLedger /\ ledger'.trials = <<trial>>
          /\ ledger'.best = score /\ ledger'.completed = ledger.completed
      BY <1>0, <2>1 DEF NewLedger
    <2>4. /\ DOMAIN <<trial>> = {1} /\ <<trial>>[1] = trial /\ <<trial>> # <<>>
      OBVIOUS
    <2>5. <<trial>> \in Seq(Range(<<trial>>))
      <3>1. <<trial>> \in Seq({trial})
        OBVIOUS
      <3> QED BY <3>1, SeqOfRange
    <2>6. HeldBy(1)'
      <3>1. ~(1 > 1)
        OBVIOUS
      <3> QED BY <1>0, <1>1, <2>1, <2>2, <2>3, <2>4, <3>1 DEF HeldBy, Bests
    <2>7. protectedOK /\ immutableOK
      BY <1>0, <1>1 DEF SearchInv, FilesOK
    <2>8. TypeOK'
      BY <2>1 DEF SearchInv, TypeOK, RunPhases
    <2>9. PlaceOK'
      BY <1>0, <2>1 DEF SearchInv, PlaceOK, FrozenSpecIsValid
    <2>10. LedgerOK'
      BY <1>0, <2>1, <2>3, <2>4, <2>5, <2>6 DEF LedgerOK, RunPhases, NewLedger
    <2>11. FilesOK'
      <3>1. DOMAIN ev' = {"guards", "samples", "runs", "error"}
        BY <2>1 DEF SearchInv, FilesOK, NewEvaluation
      <3> QED BY <1>0, <1>1, <2>1, <2>7, <3>1 DEF FilesOK, RunPhases
    <2>12. ReportOK'
      BY <2>1 DEF SearchInv, ReportOK
    <2> QED BY <2>8, <2>9, <2>10, <2>11, <2>12 DEF SearchInv
  <1>2. CASE ~(ev.error = "none" /\ files = original)
    <2>1. WorkspaceOK'
      BY <1>0, <1>2, WorkspaceIsTyped, RestoresKeepTheWorkspace DEF DecideBaseline
    <2> QED BY <1>2, <2>1, FailedAttempt DEF DecideBaseline
  <1> QED BY <1>1, <1>2

LEMMA DecideHoldoutStep ==
  ASSUME SearchInv, DecideHoldout
  PROVE  SearchInv'
  <1>0. /\ pc = "holdout" /\ task = "run" /\ FrozenSpecIsValid(spec)
        /\ original \in Tree /\ best = original /\ LedgerOK
        /\ DOMAIN ledger = DOMAIN NewLedger /\ ledger.completed \in Nat
        /\ ledger.trials # <<>> /\ \E k \in Nat : HeldBy(k)
    BY InTheLoop DEF DecideHoldout, RunPhases, SearchInv, FilesOK
  <1>1. CASE ev.error = "none" /\ files = original
    <2>1. /\ ledger' = [ledger EXCEPT !.holdout = ev.samples[1]]
          /\ pc' = "loop"
          /\ UNCHANGED <<spec, task, expired, original, best, expected, pending, published,
                         files, protectedOK, immutableOK, faults, report, ev>>
      BY <1>1 DEF DecideHoldout, workspace, NoFault
    <2>2. /\ DOMAIN ledger' = DOMAIN NewLedger /\ ledger'.trials = ledger.trials
          /\ ledger'.best = ledger.best /\ ledger'.completed = ledger.completed
      BY <1>0, <2>1 DEF NewLedger
    <2>3. \E k \in Nat : HeldBy(k)'
      BY <1>0, <2>1, <2>2 DEF HeldBy
    <2>4. protectedOK /\ immutableOK
      BY <1>0, <1>1 DEF SearchInv, FilesOK
    <2>5. TypeOK'
      BY <2>1 DEF SearchInv, TypeOK, RunPhases
    <2>6. PlaceOK'
      BY <1>0, <2>1 DEF SearchInv, PlaceOK, FrozenSpecIsValid
    <2>7. LedgerOK'
      BY <1>0, <2>1, <2>2, <2>3 DEF LedgerOK, RunPhases, NewLedger
    <2>8. FilesOK'
      BY <1>0, <1>1, <2>1, <2>4 DEF SearchInv, FilesOK, RunPhases
    <2>9. ReportOK'
      BY <2>1 DEF SearchInv, ReportOK
    <2> QED BY <2>5, <2>6, <2>7, <2>8, <2>9 DEF SearchInv
  <1>2. CASE ~(ev.error = "none" /\ files = original)
    <2>1. WorkspaceOK'
      BY <1>0, <1>2, WorkspaceIsTyped, RestoresKeepTheWorkspace DEF DecideHoldout
    <2> QED BY <1>2, <2>1, FailedAttempt DEF DecideHoldout
  <1> QED BY <1>1, <1>2

LEMMA StopLoopStep ==
  ASSUME SearchInv, StopLoop
  PROVE  SearchInv'
  <1>1. CASE Unreadable
    BY <1>1, UnreadableStep
  <1>2. CASE ~Unreadable
    <2>1. PICK reason : Finish(reason)
      BY DEF StopLoop
    <2>2. /\ pc = "loop" /\ FrozenSpecIsValid(spec) /\ files \in Tree
          /\ DOMAIN ledger = DOMAIN NewLedger
      BY InTheLoop DEF StopLoop, RunPhases, SearchInv, TypeOK
    <2>3. /\ task' = "validate" /\ pc' = "idle" /\ ledger' = NewLedger
          /\ published' = [ledger EXCEPT !.status = "completed", !.stop = reason, !.files = files]
          /\ original' = NoTree /\ best' = NoTree /\ expected' = NoTree /\ pending' = NoTree
          /\ expired' = FALSE /\ DOMAIN ev' = {"guards", "samples", "runs", "error"}
          /\ UNCHANGED <<spec, files, protectedOK, immutableOK, report, faults>>
      BY <1>2, <2>1 DEF Finish, Forget, NoFault, workspace
    <2>4. published'.files = files
      BY <2>2, <2>3 DEF NewLedger
    <2>5. TypeOK'
      BY <2>3, TreesExist DEF SearchInv, TypeOK
    <2>6. PlaceOK'
      BY <2>2, <2>3, <2>4 DEF PlaceOK, FrozenSpecIsValid, RunPhases, Tree
    <2>7. LedgerOK'
      <3>1. NewLedger.trials = <<>> /\ NewLedger.completed = 0 /\ <<>> \in Seq(Range(<<>>))
        BY DEF NewLedger
      <3> QED BY <2>3, <3>1 DEF LedgerOK, RunPhases, NewLedger
    <2>8. FilesOK'
      BY <2>3 DEF FilesOK, RunPhases
    <2>9. ReportOK'
      BY <2>3 DEF SearchInv, ReportOK
    <2> QED BY <2>5, <2>6, <2>7, <2>8, <2>9 DEF SearchInv
  <1> QED BY <1>1, <1>2

LEMMA RejectAnswerStep ==
  ASSUME SearchInv, RejectAnswer
  PROVE  SearchInv'
  <1> DEFINE trial == Trial("rejected", FALSE, <<>>, NoTree)
  <1>1. /\ pc = "loop" /\ pc' = "loop" /\ ledger' = Logged(trial)
        /\ UNCHANGED <<LoopVars, files, protectedOK, immutableOK, expired, best, expected,
                       pending, ev, faults>>
    BY DEF RejectAnswer, Proposing, workspace
  <1>2. trial.status = "rejected"
    BY DEF Trial
  <1> HIDE DEF trial
  <1>3. /\ best \in Tree /\ files = best /\ protectedOK /\ immutableOK
        /\ DOMAIN ledger = DOMAIN NewLedger
        /\ DOMAIN ev = {"guards", "samples", "runs", "error"}
    BY <1>1, InTheLoop DEF RunPhases, SearchInv, FilesOK
  <1>4. WorkspaceOK'
    BY <1>1, WorkspaceIsTyped DEF WorkspaceOK
  <1>5. /\ DOMAIN ledger' = DOMAIN NewLedger /\ ledger'.best = ledger.best
        /\ ledger'.trials = Append(ledger.trials, trial)
        /\ ledger'.completed = ledger.completed + 1
    BY <1>1, <1>3, LoggedShape
  <1>6. /\ expected' \in Tree \cup {NoTree} /\ pending' \in Patches /\ expired' \in BOOLEAN
    BY <1>1 DEF SearchInv, TypeOK
  <1>7. UNCHANGED <<spec, task, original, published, report>>
    BY <1>1 DEF LoopVars
  <1>8. best' \in Tree /\ files' = best' /\ protectedOK' /\ immutableOK' /\ best' = best
    BY <1>1, <1>3 DEF Tree
  <1> QED BY <1>1, <1>2, <1>3, <1>4, <1>5, <1>6, <1>7, <1>8, BackToTheLoop

LEMMA RejectPatchesStep ==
  ASSUME SearchInv, RejectPatches
  PROVE  SearchInv'
  <1>0. /\ pc \in {"loop", "apply"} /\ best \in Tree /\ protectedOK /\ immutableOK
        /\ DOMAIN ledger = DOMAIN NewLedger
        /\ DOMAIN ev = {"guards", "samples", "runs", "error"}
    BY InTheLoop DEF RejectPatches, Proposing, RunPhases, SearchInv, FilesOK
  <1>1. CASE FailTask /\ RestoreFilesFails(best) /\ UNCHANGED report
    BY <1>0, <1>1, WorkspaceIsTyped, RestoresKeepTheWorkspace, FailedAttempt
  <1>2. CASE ~(FailTask /\ RestoreFilesFails(best) /\ UNCHANGED report)
    <2> DEFINE trial == Trial("rejected", FALSE, <<>>, NoTree)
    <2>1. /\ RestoreFiles(best) /\ (NoFault \/ Fault)
          /\ ledger' = Logged(trial) /\ pc' = "loop" /\ pending' = NoTree
          /\ UNCHANGED <<LoopVars, expired, best, expected, ev>>
      BY <1>2 DEF RejectPatches
    <2>2. trial.status = "rejected"
      BY DEF Trial
    <2> HIDE DEF trial
    <2>3. WorkspaceOK'
      BY <1>0, <2>1, WorkspaceIsTyped, RestoresKeepTheWorkspace
    <2>4. /\ DOMAIN ledger' = DOMAIN NewLedger /\ ledger'.best = ledger.best
          /\ ledger'.trials = Append(ledger.trials, trial)
          /\ ledger'.completed = ledger.completed + 1
      BY <1>0, <2>1, LoggedShape
    <2>5. /\ expected' \in Tree \cup {NoTree} /\ pending' \in Patches /\ expired' \in BOOLEAN
      BY <2>1, TreesExist DEF SearchInv, TypeOK
    <2>6. UNCHANGED <<spec, task, original, published, report>>
      BY <2>1 DEF LoopVars
    <2>7. best' \in Tree /\ files' = best' /\ protectedOK' /\ immutableOK' /\ best' = best
      BY <1>0, <2>1 DEF RestoreFiles, Tree
    <2> QED BY <1>0, <2>1, <2>2, <2>3, <2>4, <2>5, <2>6, <2>7, BackToTheLoop
  <1> QED BY <1>1, <1>2

(* The loop goes on with the same ledger: a proposal, a file of it, its trial. *)
LEMMA LoopGoesOn ==
  ASSUME SearchInv, pc \in {"loop", "apply"}, pc' \in {"apply", "trial"},
         ledger.completed < spec.maxTrials,
         files' \in Tree, pending' \in Patches, expected' \in Tree \cup {NoTree},
         DOMAIN ev' = {"guards", "samples", "runs", "error"},
         UNCHANGED <<LoopVars, protectedOK, immutableOK, expired, best, ledger, faults>>
  PROVE  SearchInv'
  <1>0. /\ task = "run" /\ FrozenSpecIsValid(spec) /\ original \in Tree /\ best \in Tree
        /\ protectedOK /\ immutableOK /\ LedgerOK
        /\ ledger.trials # <<>> /\ \E k \in Nat : HeldBy(k)
    BY InTheLoop DEF RunPhases, SearchInv, FilesOK
  <1>1. UNCHANGED <<spec, task, original, published, report>>
    BY DEF LoopVars
  <1>2. TypeOK'
    BY <1>0, <1>1 DEF SearchInv, TypeOK, RunPhases
  <1>3. PlaceOK'
    BY <1>0, <1>1 DEF SearchInv, PlaceOK, FrozenSpecIsValid, RunPhases
  <1>4. \E k \in Nat : HeldBy(k)'
    BY <1>0 DEF HeldBy
  <1>5. LedgerOK'
    BY <1>0, <1>1, <1>4 DEF LedgerOK, RunPhases
  <1>6. FilesOK'
    BY <1>0, <1>1 DEF FilesOK, RunPhases
  <1>7. ReportOK'
    BY <1>1 DEF SearchInv, ReportOK
  <1> QED BY <1>2, <1>3, <1>5, <1>6, <1>7 DEF SearchInv

LEMMA ProposeStep ==
  ASSUME SearchInv, Propose
  PROVE  SearchInv'
  <1>1. /\ pc = "loop" /\ pc' = "apply" /\ ledger.completed < spec.maxTrials
        /\ pending' \in Patches
        /\ UNCHANGED <<LoopVars, files, protectedOK, immutableOK, expired, best, expected, ev,
                       ledger, faults>>
    BY DEF Propose, Proposing, Effective, workspace
  <1>2. /\ files' \in Tree /\ expected' \in Tree \cup {NoTree}
        /\ DOMAIN ev' = {"guards", "samples", "runs", "error"}
    BY <1>1 DEF SearchInv, TypeOK, FilesOK
  <1> QED BY <1>1, <1>2, LoopGoesOn

LEMMA WritePatchStep ==
  ASSUME SearchInv, WritePatch
  PROVE  SearchInv'
  <1>1. PICK f \in DOMAIN pending :
          /\ files' = [files EXCEPT ![f] = pending[f]]
          /\ pending' = Restrict(pending, DOMAIN pending \ {f})
    BY DEF WritePatch
  <1>2. /\ pc = "apply" /\ pc' = "apply"
        /\ UNCHANGED <<LoopVars, protectedOK, immutableOK, expired, best, expected, ev,
                       ledger, faults>>
    BY DEF WritePatch
  <1>3. PICK S \in SUBSET File : pending \in [S -> Content]
    BY DEF SearchInv, TypeOK, Patches
  <1>4. files' \in Tree
    BY <1>1, <1>3 DEF SearchInv, TypeOK, Tree
  <1>5. pending' \in [S \ {f} -> Content] /\ S \ {f} \in SUBSET File
    BY <1>1, <1>3 DEF Restrict
  <1>6. pending' \in Patches
    BY <1>5 DEF Patches
  <1>7. /\ ledger.completed < spec.maxTrials /\ expected' \in Tree \cup {NoTree}
        /\ DOMAIN ev' = {"guards", "samples", "runs", "error"}
    BY <1>2 DEF SearchInv, TypeOK, FilesOK, LedgerOK
  <1> QED BY <1>2, <1>4, <1>6, <1>7, LoopGoesOn

LEMMA BeginTrialStep ==
  ASSUME SearchInv, BeginTrial
  PROVE  SearchInv'
  <1>1. /\ pc = "apply" /\ pc' = "trial" /\ expected' = files
        /\ ev' = NewEvaluation(Guards, spec.searchRuns)
        /\ UNCHANGED <<LoopVars, files, protectedOK, immutableOK, expired, best, pending,
                       ledger, faults>>
    BY DEF BeginTrial, workspace
  <1>2. /\ ledger.completed < spec.maxTrials
        /\ files' \in Tree /\ expected' \in Tree \cup {NoTree} /\ pending' \in Patches
    BY <1>1 DEF SearchInv, TypeOK, LedgerOK
  <1>3. DOMAIN ev' = {"guards", "samples", "runs", "error"}
    BY <1>1 DEF NewEvaluation
  <1> QED BY <1>1, <1>2, <1>3, LoopGoesOn

LEMMA CompromisedStep ==
  ASSUME SearchInv, Compromised
  PROVE  SearchInv'
  <1>1. best \in Tree
    BY InTheLoop DEF Compromised, RunPhases
  <1>2. WorkspaceOK'
    BY <1>1, WorkspaceIsTyped, RestoresKeepTheWorkspace DEF Compromised
  <1> QED BY <1>2, FailedAttempt DEF Compromised

LEMMA KeepTrialStep ==
  ASSUME SearchInv, KeepTrial
  PROVE  SearchInv'
  <1>1. CASE Unreadable
    BY <1>1, UnreadableStep
  <1>2. CASE ~Unreadable
    <2> DEFINE trial == Trial("kept", TRUE, ev.samples, expected)
    <2>1. /\ pc = "trial" /\ pc' = "loop" /\ ev.error = "none" /\ files = expected
          /\ best' = files
          /\ ledger' = [Logged(trial) EXCEPT
                          !.best = TrialScore, !.accepted = @ + 1,
                          !.stop = IF TargetReached(TrialScore) THEN "target_score_reached"
                                   ELSE "none"]
          /\ UNCHANGED <<LoopVars, files, protectedOK, immutableOK, expired, expected, pending,
                         ev, faults>>
      BY <1>2 DEF KeepTrial, TrialImproves, TrialIsClean, Snapshot, workspace
    <2>2. trial.status = "kept" /\ trial.tree = expected /\ trial.metric = TrialScore
      BY DEF Trial, TrialScore
    <2> HIDE DEF trial
    <2>3. /\ files \in Tree /\ protectedOK /\ immutableOK
          /\ DOMAIN ledger = DOMAIN NewLedger
          /\ DOMAIN ev = {"guards", "samples", "runs", "error"}
      BY <2>1, InTheLoop DEF RunPhases, SearchInv, FilesOK, TypeOK
    <2>4. WorkspaceOK'
      BY <2>1, WorkspaceIsTyped DEF WorkspaceOK
    <2>5. /\ DOMAIN Logged(trial) = DOMAIN NewLedger
          /\ Logged(trial).trials = Append(ledger.trials, trial)
          /\ Logged(trial).completed = ledger.completed + 1
      BY <2>3, LoggedShape
    <2>6. /\ DOMAIN ledger' = DOMAIN NewLedger /\ ledger'.best = TrialScore
          /\ ledger'.trials = Append(ledger.trials, trial)
          /\ ledger'.completed = ledger.completed + 1
      BY <2>1, <2>5 DEF NewLedger
    <2>7. /\ expected' \in Tree \cup {NoTree} /\ pending' \in Patches /\ expired' \in BOOLEAN
      BY <2>1 DEF SearchInv, TypeOK
    <2>8. UNCHANGED <<spec, task, original, published, report>>
      BY <2>1 DEF LoopVars
    <2>9. /\ best' \in Tree /\ files' = best' /\ protectedOK' /\ immutableOK'
          /\ best' = trial.tree /\ ledger'.best = trial.metric
      BY <2>1, <2>2, <2>3, <2>6 DEF Tree
    <2> QED BY <2>1, <2>2, <2>3, <2>4, <2>6, <2>7, <2>8, <2>9, BackToTheLoop
  <1> QED BY <1>1, <1>2

LEMMA RejectTrialStep ==
  ASSUME SearchInv, RejectTrial
  PROVE  SearchInv'
  <1>0. /\ pc = "trial" /\ best \in Tree /\ protectedOK /\ immutableOK
        /\ DOMAIN ledger = DOMAIN NewLedger
        /\ DOMAIN ev = {"guards", "samples", "runs", "error"}
    BY InTheLoop DEF RejectTrial, RunPhases, SearchInv, FilesOK
  <1>1. CASE FailTask /\ RestoreFilesFails(best) /\ UNCHANGED report
    BY <1>0, <1>1, WorkspaceIsTyped, RestoresKeepTheWorkspace, FailedAttempt
  <1>2. CASE ~(FailTask /\ RestoreFilesFails(best) /\ UNCHANGED report)
    <2> DEFINE trial == IF TrialIsClean
                        THEN Trial("rejected", TRUE, ev.samples, expected)
                        ELSE Trial("rejected", FALSE, ev.samples, NoTree)
    <2>1. /\ RestoreFiles(best) /\ NoFault
          /\ ledger' = Logged(trial) /\ pc' = "loop"
          /\ UNCHANGED <<LoopVars, expired, best, expected, pending, ev>>
      BY <1>2 DEF RejectTrial
    <2>2. trial.status = "rejected"
      BY DEF Trial
    <2> HIDE DEF trial
    <2>3. WorkspaceOK'
      BY <1>0, <2>1, WorkspaceIsTyped, RestoresKeepTheWorkspace
    <2>4. /\ DOMAIN ledger' = DOMAIN NewLedger /\ ledger'.best = ledger.best
          /\ ledger'.trials = Append(ledger.trials, trial)
          /\ ledger'.completed = ledger.completed + 1
      BY <1>0, <2>1, LoggedShape
    <2>5. /\ expected' \in Tree \cup {NoTree} /\ pending' \in Patches /\ expired' \in BOOLEAN
      BY <2>1 DEF SearchInv, TypeOK
    <2>6. UNCHANGED <<spec, task, original, published, report>>
      BY <2>1 DEF LoopVars
    <2>7. best' \in Tree /\ files' = best' /\ protectedOK' /\ immutableOK' /\ best' = best
      BY <1>0, <2>1 DEF RestoreFiles, Tree
    <2> QED BY <1>0, <2>1, <2>2, <2>3, <2>4, <2>5, <2>6, <2>7, BackToTheLoop
  <1> QED BY <1>1, <1>2

-----------------------------------------------------------------------------
(* The steps of the validation *)

(* The validation changes the workspace, the evaluation and its report. *)
LEMMA ValidationGoesOn ==
  ASSUME SearchInv, WorkspaceOK', task = "validate", pc \notin RunPhases,
         pc' \in {"validate", "vrun", "report"}, expired' = expired,
         DOMAIN ev' = {"guards", "samples", "runs", "error"},
         report' \in Reports,
         pc' = "validate" => CandidateIntact',
         pc' = "report" /\ report'.intact => CandidateIntact',
         UNCHANGED ValidationVars
  PROVE  SearchInv'
  <1>1. UNCHANGED <<spec, task, original, best, expected, pending, ledger, published>>
    BY DEF ValidationVars
  <1>2. TypeOK'
    BY <1>1 DEF SearchInv, TypeOK, WorkspaceOK
  <1>3. PlaceOK'
    BY <1>1 DEF SearchInv, PlaceOK, FrozenSpecIsValid, RunPhases, Tree
  <1>4. LedgerOK'
    BY <1>1 DEF SearchInv, LedgerOK, RunPhases
  <1>5. FilesOK'
    BY DEF FilesOK, RunPhases
  <1>6. ReportOK'
    BY DEF ReportOK
  <1> QED BY <1>2, <1>3, <1>4, <1>5, <1>6 DEF SearchInv

LEMMA BeginValidationStep ==
  ASSUME SearchInv, BeginValidation
  PROVE  SearchInv'
  <1>1. CASE Unreadable
    BY <1>1, UnreadableStep
  <1>2. CASE ~Unreadable
    <2>1. /\ task = "validate" /\ pc \notin RunPhases
          /\ UNCHANGED <<files, protectedOK, immutableOK, faults>>
      BY <1>2 DEF BeginValidation, RunPhases, NoFault, workspace
    <2>2. WorkspaceOK'
      BY <2>1, WorkspaceIsTyped DEF WorkspaceOK
    <2>3. CASE FailTask /\ UNCHANGED report
      BY <2>2, <2>3, FailedAttempt
    <2>4. CASE ~(FailTask /\ UNCHANGED report)
      <3>1. /\ pc' = IF CandidateIntact THEN "validate" ELSE "report"
            /\ report' = [NoReport EXCEPT !.status = "running", !.intact = CandidateIntact]
            /\ UNCHANGED <<ValidationVars, expired, ev>>
        BY <1>2, <2>4 DEF BeginValidation
      <3>2. CandidateIntact \in BOOLEAN
        BY DEF CandidateIntact
      <3>3. CandidateIntact' <=> CandidateIntact
        BY <2>1, <3>1 DEF CandidateIntact, FilesVerified, FingerprintVerified, ValidationVars
      <3>4. report' \in Reports /\ report'.intact = CandidateIntact
        BY <3>1, <3>2 DEF NoReport, Reports
      <3>5. DOMAIN ev' = {"guards", "samples", "runs", "error"}
        BY <3>1 DEF SearchInv, FilesOK
      <3>6. pc' \in {"validate", "vrun", "report"}
        BY <3>1
      <3>7. /\ pc' = "validate" => CandidateIntact'
            /\ pc' = "report" /\ report'.intact => CandidateIntact'
        BY <3>1, <3>3, <3>4
      <3> QED BY <2>1, <2>2, <3>1, <3>4, <3>5, <3>6, <3>7, ValidationGoesOn
    <2> QED BY <2>3, <2>4
  <1> QED BY <1>1, <1>2

(* A failed restore of files that are in place leaves them in place. *)
LEMMA RestoringWhatIsThere ==
  ASSUME WorkspaceOK, files = published.files, protectedOK, immutableOK,
         RestoreWorkspaceFails(published.files)
  PROVE  files' = files /\ protectedOK' /\ immutableOK'
  <1>1. ASSUME NEW t \in Partly(files) PROVE t = files
    <2>1. PICK S \in SUBSET File : t = [f \in File |-> IF f \in S THEN files[f] ELSE files[f]]
      BY <1>1 DEF Partly
    <2> QED BY <2>1 DEF WorkspaceOK, Tree
  <1> QED BY <1>1 DEF RestoreWorkspaceFails, workspace

LEMMA BeginValidationRunStep ==
  ASSUME SearchInv, BeginValidationRun
  PROVE  SearchInv'
  <1>0. /\ task = "validate" /\ pc = "validate" /\ pc \notin RunPhases
        /\ published.files \in Tree /\ CandidateIntact
        /\ UNCHANGED ValidationVars /\ expired' = expired
        /\ report \in Reports /\ WorkspaceOK
        /\ DOMAIN ev = {"guards", "samples", "runs", "error"}
    BY WorkspaceIsTyped
    DEF BeginValidationRun, SearchInv, PlaceOK, ReportOK, FilesOK, RunPhases
  <1>1. CASE /\ RestoreWorkspace(published.files) /\ NoFault
             /\ ev' = [NewEvaluation(Guards, 1) EXCEPT !.error = "none"]
             /\ pc' = "vrun" /\ UNCHANGED report
    <2>1. WorkspaceOK'
      BY <1>0, <1>1, RestoresKeepTheWorkspace
    <2>2. DOMAIN ev' = {"guards", "samples", "runs", "error"}
      BY <1>1 DEF NewEvaluation
    <2>3. report' \in Reports
      BY <1>0, <1>1
    <2> QED BY <1>0, <1>1, <2>1, <2>2, <2>3, ValidationGoesOn
  <1>2. CASE /\ RestoreWorkspaceFails(published.files)
             /\ report' = [report EXCEPT !.completed = @ + 1]
             /\ pc' = "report" /\ UNCHANGED ev
    <2>1. WorkspaceOK'
      BY <1>0, <1>2, RestoresKeepTheWorkspace
    <2>2. report' \in Reports
      BY <1>0, <1>2 DEF Reports
    <2>3. CandidateIntact'
      <3>1. files' = files /\ protectedOK' /\ immutableOK'
        BY <1>0, <1>2, RestoringWhatIsThere
        DEF CandidateIntact, FilesVerified, FingerprintVerified
      <3>2. published' = published
        BY <1>0 DEF ValidationVars
      <3> QED BY <1>0, <3>1, <3>2 DEF CandidateIntact, FilesVerified, FingerprintVerified
    <2>4. DOMAIN ev' = {"guards", "samples", "runs", "error"}
      BY <1>0, <1>2
    <2> QED BY <1>0, <1>2, <2>1, <2>2, <2>3, <2>4, ValidationGoesOn
  <1> QED BY <1>1, <1>2 DEF BeginValidationRun

LEMMA DecideValidationRunStep ==
  ASSUME SearchInv, DecideValidationRun
  PROVE  SearchInv'
  <1> DEFINE passed == ev.error = "none" /\ CandidateIntact /\ ScoreMatches(ev.samples[1])
  <1>0. /\ task = "validate" /\ pc = "vrun" /\ pc \notin RunPhases
        /\ published.files \in Tree
        /\ UNCHANGED ValidationVars /\ expired' = expired
        /\ report \in Reports /\ WorkspaceOK
        /\ ev' = ev /\ DOMAIN ev = {"guards", "samples", "runs", "error"}
        /\ report' = [report EXCEPT !.completed = @ + 1,
                        !.passed = IF passed THEN @ + 1 ELSE @,
                        !.intact = @ /\ CandidateIntact]
        /\ pc' = IF CandidateIntact /\ ~expired THEN "validate" ELSE "report"
    BY WorkspaceIsTyped
    DEF DecideValidationRun, SearchInv, PlaceOK, ReportOK, FilesOK, RunPhases
  <1> HIDE DEF passed
  <1>1. /\ report'.completed = report.completed + 1
        /\ report'.passed = IF passed THEN report.passed + 1 ELSE report.passed
        /\ report'.intact = (report.intact /\ CandidateIntact)
        /\ report'.status = report.status
        /\ DOMAIN report' = DOMAIN report
    BY <1>0 DEF Reports
  <1>2. report' \in Reports
    <2>1. (report.intact /\ CandidateIntact) \in BOOLEAN
      OBVIOUS
    <2>2. (IF passed THEN report.passed + 1 ELSE report.passed) \in Nat
          /\ report.completed + 1 \in Nat
      BY <1>0 DEF Reports
    <2> QED BY <1>0, <2>1, <2>2 DEF Reports
  <1>3. published' = published
    BY <1>0 DEF ValidationVars
  <1>4. CASE CandidateIntact
    <2>1. UNCHANGED <<files, protectedOK, immutableOK, faults>>
      BY <1>4 DEF DecideValidationRun, workspace, NoFault
    <2>2. WorkspaceOK' /\ CandidateIntact'
      BY <1>0, <1>3, <1>4, <2>1
      DEF WorkspaceOK, CandidateIntact, FilesVerified, FingerprintVerified
    <2> QED BY <1>0, <1>2, <2>2, ValidationGoesOn
  <1>5. CASE ~CandidateIntact
    <2>1. WorkspaceOK'
      BY <1>0, <1>5, RestoresKeepTheWorkspace DEF DecideValidationRun
    <2>2. pc' = "report" /\ ~report'.intact
      BY <1>0, <1>1, <1>5
    <2> QED BY <1>0, <1>2, <2>1, <2>2, ValidationGoesOn
  <1> QED BY <1>4, <1>5

LEMMA WriteReportStep ==
  ASSUME SearchInv, WriteReport
  PROVE  SearchInv'
  <1> DEFINE validated == report.intact /\ report.passed = RequestedRuns
  <1>1. /\ pc \in {"validate", "report"} /\ task = "validate" /\ report \in Reports
        /\ report' = [report EXCEPT !.status = IF validated THEN "validated" ELSE "failed"]
        /\ pc' = IF report.intact /\ report.completed = RequestedRuns THEN "done" ELSE "failed"
        /\ Forget
        /\ UNCHANGED <<spec, task, published, files, protectedOK, immutableOK, faults>>
    BY DEF WriteReport, workspace, SearchInv, PlaceOK, ReportOK
  <1>2. /\ report' \in Reports
        /\ report'.completed = report.completed /\ report'.passed = report.passed
        /\ report'.status = IF validated THEN "validated" ELSE "failed"
    BY <1>1 DEF Reports
  <1>3. WorkspaceOK'
    BY <1>1, WorkspaceIsTyped DEF WorkspaceOK
  <1>4. CASE pc' = "failed"
    <2>1. pc' \in {"failed", "idle"}
      BY <1>4
    <2> QED BY <1>1, <1>2, <1>3, <2>1, ForgottenAttempt
  <1>5. CASE pc' = "done"
    <2>1. report.intact /\ report.completed = RequestedRuns /\ CandidateIntact
      BY <1>1, <1>5 DEF SearchInv, ReportOK
    <2>2. RequestedRuns' = RequestedRuns
      BY <1>1 DEF RequestedRuns
    <2>3. CandidateIntact'
      BY <1>1, <2>1 DEF CandidateIntact, FilesVerified, FingerprintVerified
    <2>4. TypeOK'
      BY <1>1, <1>5, TreesExist DEF SearchInv, TypeOK, Forget
    <2>5. PlaceOK'
      BY <1>1, <1>5 DEF SearchInv, PlaceOK, FrozenSpecIsValid, RunPhases, Tree
    <2>6. LedgerOK'
      <3>1. NewLedger.trials = <<>> /\ NewLedger.completed = 0 /\ <<>> \in Seq(Range(<<>>))
        BY DEF NewLedger
      <3> QED BY <1>1, <1>5, <3>1 DEF LedgerOK, Forget, RunPhases, NewLedger
    <2>7. FilesOK'
      BY <1>1, <1>5 DEF FilesOK, Forget, RunPhases
    <2>8. ReportOK'
      BY <1>2, <1>5, <2>1, <2>2, <2>3 DEF ReportOK
    <2> QED BY <2>4, <2>5, <2>6, <2>7, <2>8 DEF SearchInv
  <1> QED BY <1>1, <1>4, <1>5

-----------------------------------------------------------------------------
(* The invariant is inductive *)

LEMMA ExpireStep ==
  ASSUME SearchInv, Expire
  PROVE  SearchInv'
  <1>1. /\ expired' = TRUE
        /\ UNCHANGED <<spec, files, protectedOK, immutableOK, pc, task, original, best, expected,
                       pending, ev, ledger, published, report, faults>>
    BY DEF Expire, workspace
  <1>2. TypeOK' /\ PlaceOK'
    BY <1>1 DEF SearchInv, TypeOK, PlaceOK, FrozenSpecIsValid
  <1>3. LedgerOK' /\ FilesOK'
    BY <1>1 DEF SearchInv, LedgerOK, FilesOK, HeldBy
  <1>4. ReportOK'
    BY <1>1 DEF SearchInv, ReportOK, CandidateIntact, FilesVerified, FingerprintVerified,
                RequestedRuns
  <1> QED BY <1>2, <1>3, <1>4 DEF SearchInv

LEMMA InterruptStep ==
  ASSUME SearchInv, Interrupt
  PROVE  SearchInv'
  <1>1. WorkspaceOK'
    BY FaultsAreBounded, WorkspaceIsTyped DEF WorkspaceOK, Interrupt, workspace
  <1> QED BY <1>1, ForgottenAttempt, NoReportIsAReport DEF Interrupt, Reports

LEMMA RepeatStep ==
  ASSUME SearchInv, Repeat
  PROVE  SearchInv'
  <1>1. /\ pc = "failed" /\ pc' = "idle" /\ report' = NoReport
        /\ UNCHANGED <<spec, files, protectedOK, immutableOK, task, expired, original, best,
                       expected, pending, ev, ledger, published>>
    BY DEF Repeat, workspace
  <1>2. faults' \in 0..MaxFaults
    BY FaultsAreBounded DEF Repeat, SearchInv, TypeOK
  <1>3. TypeOK' /\ PlaceOK'
    BY <1>1, <1>2 DEF SearchInv, TypeOK, PlaceOK, FrozenSpecIsValid, RunPhases
  <1>4. LedgerOK' /\ FilesOK'
    BY <1>1 DEF SearchInv, LedgerOK, FilesOK, RunPhases
  <1>5. ReportOK'
    BY <1>1, NoReportIsAReport DEF ReportOK, Reports
  <1> QED BY <1>3, <1>4, <1>5 DEF SearchInv

LEMMA StutterStep ==
  ASSUME SearchInv, UNCHANGED vars
  PROVE  SearchInv'
  <1>1. TypeOK' /\ PlaceOK'
    BY DEF vars, SearchInv, TypeOK, PlaceOK, FrozenSpecIsValid
  <1>2. LedgerOK' /\ FilesOK'
    BY DEF vars, SearchInv, LedgerOK, FilesOK, HeldBy
  <1>3. ReportOK'
    BY DEF vars, SearchInv, ReportOK, CandidateIntact, FilesVerified, FingerprintVerified,
           RequestedRuns
  <1> QED BY <1>1, <1>2, <1>3 DEF SearchInv

LEMMA SearchInvStep ==
  ASSUME SearchInv, [Next]_vars
  PROVE  SearchInv'
  <1>1. CASE Freeze \/ BeginRun \/ RunCommand \/ DecideBaseline \/ DecideHoldout
    BY <1>1, FreezeStep, BeginRunStep, RunCommandStep, DecideBaselineStep, DecideHoldoutStep
  <1>2. CASE StopLoop \/ RejectAnswer \/ RejectPatches \/ Propose \/ WritePatch \/ BeginTrial
    BY <1>2, StopLoopStep, RejectAnswerStep, RejectPatchesStep, ProposeStep, WritePatchStep,
       BeginTrialStep
  <1>3. CASE Compromised \/ KeepTrial \/ RejectTrial
    BY <1>3, CompromisedStep, KeepTrialStep, RejectTrialStep
  <1>4. CASE BeginValidation \/ BeginValidationRun \/ DecideValidationRun \/ WriteReport
    BY <1>4, BeginValidationStep, BeginValidationRunStep, DecideValidationRunStep,
       WriteReportStep
  <1>5. CASE Expire \/ Interrupt \/ Repeat
    BY <1>5, ExpireStep, InterruptStep, RepeatStep
  <1>6. CASE UNCHANGED vars
    BY <1>6, StutterStep
  <1> QED BY <1>1, <1>2, <1>3, <1>4, <1>5, <1>6 DEF Next, Step

(* The strengthened invariant holds: where the tasks are, what the ledger says
   of the trials, and what the run knows of the files it may restore.          *)
THEOREM SearchInvariant == Spec => []SearchInv
  <1>1. Init => SearchInv
    BY Initially
  <1>2. SearchInv /\ [Next]_vars => SearchInv'
    BY SearchInvStep
  <1> QED BY <1>1, <1>2, PTL DEF Spec

(* Between two trials the files on disk are the best candidate the loop has
   measured, with the evaluator and the other sources intact, whatever commands
   damage and restores fail (runAutoResearchTrials).                            *)
THEOREM BestStaysOnDisk == Spec => []BestIsOnDisk
  <1>1. ASSUME SearchInv PROVE BestIsOnDisk
    <2> SUFFICES ASSUME pc = "loop"
                 PROVE  LET keeps == {i \in DOMAIN ledger.trials :
                                        ledger.trials[i].status \in {"baseline", "kept"}}
                        IN  /\ keeps # {}
                            /\ files = best /\ protectedOK /\ immutableOK
                            /\ best = ledger.trials[Max(keeps)].tree
                            /\ ledger.best = ledger.trials[Max(keeps)].metric
      BY DEF BestIsOnDisk
    <2> DEFINE keeps == {i \in DOMAIN ledger.trials :
                            ledger.trials[i].status \in {"baseline", "kept"}}
    <2>1. files = best /\ protectedOK /\ immutableOK
      BY <1>1 DEF SearchInv, FilesOK
    <2>2. PICK k \in Nat : HeldBy(k)
      BY <1>1, InTheLoop DEF RunPhases
    <2>3. DOMAIN ledger.trials = 1..Len(ledger.trials) /\ Len(ledger.trials) \in Nat
      BY <1>1 DEF SearchInv, LedgerOK
    <2>4. keeps \in SUBSET Int /\ k \in keeps /\ \A j \in keeps : j <= k
      BY <2>2, <2>3 DEF HeldBy, Bests
    <2> HIDE DEF keeps
    <2>5. Max(keeps) = k
      BY <2>4, MaxIs
    <2>6. best = ledger.trials[k].tree /\ ledger.best = ledger.trials[k].metric
      BY <2>2 DEF HeldBy
    <2> QED BY <2>1, <2>4, <2>5, <2>6 DEF keeps
  <1> QED BY <1>1, SearchInvariant, PTL

(* A validation that completes leaves the candidate of the ledger in place, and
   says validated exactly when every requested run passed
   (executeAutoResearchValidation).                                            *)
THEOREM ValidationKeepsCandidate == Spec => []ValidationIsOfCandidate
  <1>1. ASSUME SearchInv PROVE ValidationIsOfCandidate
    BY <1>1 DEF SearchInv, ReportOK, ValidationIsOfCandidate, CandidateIntact, FilesVerified,
                FingerprintVerified
  <1> QED BY <1>1, SearchInvariant, PTL

-----------------------------------------------------------------------------
(* The run is a budgeted search *)

Held == IF ledger.trials = <<>> THEN NoTree ELSE best
Remaining == IF spec = NoSpec THEN 0 ELSE spec.maxTrials - ledger.completed

(* Outside a run with a baseline nothing is held. *)
LEMMA NothingHeld ==
  ASSUME SearchInv', pc' \notin RunPhases \ {"baseline"}
  PROVE  Held' = NoTree
  BY DEF SearchInv, LedgerOK, Held, RunPhases

LEMMA SomethingHeld ==
  ASSUME SearchInv, pc \in RunPhases \ {"baseline"}
  PROVE  Held = best /\ Held # NoTree /\ best \in Tree
  BY InTheLoop, TreesExist DEF Held, RunPhases

LEMMA SomethingHeldNext ==
  ASSUME SearchInv', pc' \in RunPhases \ {"baseline"}
  PROVE  Held' = best' /\ best' \in Tree
  BY DEF SearchInv, LedgerOK, FilesOK, Held, RunPhases, Tree

(* The frozen budget is a number. *)
LEMMA Budgeted ==
  ASSUME SearchInv, pc \in RunPhases
  PROVE  /\ Remaining = spec.maxTrials - ledger.completed
         /\ spec # NoSpec /\ spec.maxTrials \in Int /\ ledger.completed \in Nat
  <1>1. spec.maxTrials \in 1..MaxTrialsLimit /\ ledger.completed \in Nat
    BY InTheLoop DEF FrozenSpecIsValid
  <1>2. NoSpec.maxTrials = 0
    BY DEF NoSpec
  <1>3. spec # NoSpec /\ spec.maxTrials \in Int
    BY <1>1, <1>2, LimitAssumption
  <1> QED BY <1>1, <1>3 DEF Remaining

(* A trial that is recorded uses up one of the budget. *)
LEMMA TrialIsPaidFor ==
  ASSUME SearchInv, pc \in RunPhases, ledger.completed < spec.maxTrials,
         spec' = spec, ledger'.completed = ledger.completed + 1
  PROVE  Remaining > 0 /\ Remaining' = Remaining - 1
  BY Budgeted DEF Remaining

LEMMA RejectionIsADiscard ==
  ASSUME SearchInv, SearchInv', RejectAnswer \/ RejectPatches \/ RejectTrial, pc' = "loop"
  PROVE  Held # NoTree /\ Held' = Held /\ ledger'.best = ledger.best
         /\ Remaining > 0 /\ Remaining' = Remaining - 1
  <1>1. PICK trial : ledger' = Logged(trial)
    BY DEF RejectAnswer, RejectPatches, RejectTrial, FailTask
  <1>2. /\ pc \in {"loop", "apply", "trial"} /\ best' = best /\ spec' = spec
        /\ ledger.completed < spec.maxTrials
    BY DEF RejectAnswer, RejectPatches, RejectTrial, FailTask, Proposing, LoopVars,
           SearchInv, LedgerOK
  <1>3. DOMAIN ledger = DOMAIN NewLedger
    BY DEF SearchInv, LedgerOK
  <1>4. ledger'.best = ledger.best /\ ledger'.completed = ledger.completed + 1
    BY <1>1, <1>3, LoggedShape
  <1> QED BY <1>2, <1>4, SomethingHeld, SomethingHeldNext, TrialIsPaidFor DEF RunPhases

LEMMA KeepingIsAnAdoption ==
  ASSUME SearchInv, SearchInv', KeepTrial, ~Unreadable
  PROVE  Held # NoTree /\ Held' \in Tree /\ StrictlyBetter(ledger'.best, ledger.best)
         /\ Remaining > 0 /\ Remaining' = Remaining - 1
  <1> DEFINE trial == Trial("kept", TRUE, ev.samples, expected)
  <1>1. /\ pc = "trial" /\ pc' = "loop" /\ spec' = spec /\ TrialScore > ledger.best
        /\ ledger' = [Logged(trial) EXCEPT
                        !.best = TrialScore, !.accepted = @ + 1,
                        !.stop = IF TargetReached(TrialScore) THEN "target_score_reached"
                                 ELSE "none"]
    BY DEF KeepTrial, TrialImproves, Improved, LoopVars
  <1> HIDE DEF trial
  <1>2. DOMAIN ledger = DOMAIN NewLedger /\ ledger.completed < spec.maxTrials
    BY <1>1 DEF SearchInv, LedgerOK
  <1>3. /\ DOMAIN Logged(trial) = DOMAIN NewLedger
        /\ Logged(trial).completed = ledger.completed + 1
    BY <1>2, LoggedShape
  <1>4. ledger'.best = TrialScore /\ ledger'.completed = ledger.completed + 1
    BY <1>1, <1>3 DEF NewLedger
  <1>5. StrictlyBetter(ledger'.best, ledger.best)
    BY <1>1, <1>4 DEF StrictlyBetter
  <1> QED BY <1>1, <1>2, <1>4, <1>5, SomethingHeld, SomethingHeldNext, TrialIsPaidFor
          DEF RunPhases

(* Every other step within a run leaves what is held, its score and the budget
   alone, once there is a baseline.                                             *)
LEMMA OtherStepsStutter ==
  ASSUME SearchInv, SearchInv', pc \in RunPhases \ {"baseline"},
         pc' \in RunPhases \ {"baseline"},
         \/ RunCommand \/ DecideHoldout \/ Propose \/ WritePatch \/ BeginTrial \/ Expire
         \/ UNCHANGED vars
  PROVE  Held' = Held /\ ledger'.best = ledger.best /\ Remaining' = Remaining
  <1>1. best' = best /\ spec' = spec
    BY DEF RunCommand, DecideHoldout, FailTask, Propose, WritePatch, BeginTrial, Expire, vars,
           LoopVars, RunPhases
  <1>2. ledger'.best = ledger.best /\ ledger'.completed = ledger.completed
    <2>1. DOMAIN ledger = DOMAIN NewLedger
      BY DEF SearchInv, LedgerOK
    <2>2. ledger' = ledger \/ ledger' = [ledger EXCEPT !.holdout = ev.samples[1]]
      BY DEF RunCommand, DecideHoldout, FailTask, Propose, WritePatch, BeginTrial, Expire, vars,
             LoopVars, RunPhases
    <2> QED BY <2>1, <2>2 DEF NewLedger
  <1> QED BY <1>1, <1>2, SomethingHeld, SomethingHeldNext DEF Remaining

LEMMA SearchStep ==
  ASSUME SearchInv, SearchInv', [Next]_vars
  PROVE  [Search!SearchNext]_(Search!searchVars)
  <1>1. CASE pc' \notin RunPhases \ {"baseline"}
    BY <1>1, NothingHeld DEF Held, Search!SearchNext, Search!GiveUp
  <1>2. CASE pc' \in RunPhases \ {"baseline"}
    <2>1. CASE RejectAnswer \/ RejectPatches \/ RejectTrial
      <3>1. pc' = "loop"
        BY <1>2, <2>1 DEF RejectAnswer, RejectPatches, RejectTrial, FailTask, RunPhases, Proposing
      <3> QED BY <2>1, <3>1, RejectionIsADiscard
              DEF Held, Remaining, Search!SearchNext, Search!Discard
    <2>2. CASE KeepTrial
      <3>1. ~Unreadable
        BY <1>2 DEF Unreadable, FailTask, RunPhases
      <3> QED BY <2>2, <3>1, KeepingIsAnAdoption
              DEF Held, Remaining, Search!SearchNext, Search!Adopt
    <2>3. CASE DecideBaseline
      <3>1. pc = "baseline"
        BY <2>3 DEF DecideBaseline
      <3>2. Held = NoTree
        BY <3>1 DEF SearchInv, LedgerOK, Held
      <3>3. Held' \in Tree
        BY <1>2, SomethingHeldNext
      <3> QED BY <3>2, <3>3 DEF Held, Search!SearchNext, Search!MeasureBaseline
    <2>4. CASE \/ RunCommand \/ DecideHoldout \/ Propose \/ WritePatch \/ BeginTrial \/ Expire
               \/ UNCHANGED vars
      <3>1. pc \in RunPhases \ {"baseline"}
        BY <1>2, <2>4 DEF RunCommand, DecideHoldout, Propose, Proposing, WritePatch, BeginTrial,
                          Expire, vars, RunPhases
      <3> QED BY <1>2, <2>4, <3>1, OtherStepsStutter
              DEF Held, Remaining, Search!searchVars
    <2>5. CASE \/ Freeze \/ BeginRun \/ StopLoop \/ Compromised \/ BeginValidation
               \/ BeginValidationRun \/ DecideValidationRun \/ WriteReport \/ Interrupt \/ Repeat
      BY <1>2, <2>5
      DEF Freeze, BeginRun, FailTask, Unreadable, StopLoop, Finish, Compromised,
          BeginValidation, BeginValidationRun, DecideValidationRun, WriteReport, Interrupt, Repeat, RunPhases
    <2> QED BY <2>1, <2>2, <2>3, <2>4, <2>5 DEF Next, Step
  <1> QED BY <1>1, <1>2

(* The run, with its damage, failing restores, expiry and crashes, is a budgeted
   search: an incumbent is only replaced by a better one, and every candidate is
   paid for from the frozen budget.                                              *)
THEOREM TrialsAreABudgetedSearch == Spec => ImplementsSearch
  <1>1. Init => Search!SearchInit
    BY DEF Init, Search!SearchInit, NewLedger
  <1>2. SearchInv /\ SearchInv' /\ [Next]_vars => [Search!SearchNext]_(Search!searchVars)
    BY SearchStep
  <1> QED BY <1>1, <1>2, SearchInvariant, PTL DEF Spec, ImplementsSearch, Search!SearchSpec

-----------------------------------------------------------------------------
(* What the validator replays.                                             *)

\* An evaluation counts the runs it has to do.
EvaluationOK ==
    pc \in {"baseline", "holdout", "trial"} =>
        /\ ev.samples \in Seq(Score) /\ ev.runs \in Nat /\ ev.guards \in Nat
        /\ Len(ev.samples) + ev.runs = IF pc = "holdout" THEN 1 ELSE spec.searchRuns

\* The trials so far are those of a ledger the validator accepts.
TrialsOK ==
    /\ ledger.completed <= spec.maxTrials /\ Len(ledger.trials) = ledger.completed + 1
    /\ ledger.trials[1].status = "baseline" /\ ledger.trials[1].measured
    /\ \A i \in DOMAIN ledger.trials :
          ledger.trials[i].measured => MeasurementIsValid(ledger.trials[i])
    /\ \A i \in 2..Len(ledger.trials) : DecisionStands(ledger.trials, i)
    /\ ledger.accepted = Cardinality(Kept(ledger.trials))
    /\ ledger.best = BestAfter(ledger.trials, Len(ledger.trials))

\* The loop stops at once when a kept trial reaches the target, and only then by itself.
StopOK ==
    /\ ledger.stop \in {"none", "target_score_reached"}
    /\ ledger.stop = "target_score_reached" <=>
          Last(ledger.trials).status = "kept" /\ TargetReached(ledger.best)

\* The hidden evaluator has measured the baseline, if there is one.
HoldoutOK ==
    IF pc = "holdout" THEN HasHoldout ELSE HasHoldout <=> ledger.holdout # NoScore

ReplayInv ==
    /\ EvaluationOK
    /\ pc = "baseline" => ledger = NewLedger
    /\ pc \in RunPhases \ {"baseline"} => TrialsOK /\ StopOK /\ HoldoutOK
    /\ pc \in {"apply", "trial"} => ledger.stop = "none"
    /\ task = "validate" => LedgerIsAccepted(published)

-----------------------------------------------------------------------------
(* What appending a trial does to a replay                                  *)

(* The numbers from 1 to n that are chosen have a greatest one. *)
LEMMA GreatestIsThere ==
  ASSUME NEW n \in Nat, NEW S \in SUBSET (1..n), S # {}
  PROVE  Max(S) \in S
  <1> DEFINE Below == {d \in 0..n : n - d \in S}
  <1>1. Below \subseteq Nat
    OBVIOUS
  <1>2. Below # {}
    <2>1. PICK x \in S : TRUE
      OBVIOUS
    <2>2. n - x \in 0..n /\ n - (n - x) = x
      BY <2>1
    <2> QED BY <2>1, <2>2
  <1> HIDE DEF Below
  <1>3. PICK d \in Below : \A y \in Below : ~(<<y, d>> \in OpToRel(<, Nat))
    BY <1>1, <1>2, NatLessThanWellFounded, WFMin
  <1>4. \A y \in Below : ~(y < d)
    BY <1>1, <1>3 DEF OpToRel
  <1>5. d \in 0..n /\ n - d \in S
    BY <1>3 DEF Below
  <1>6. \A x \in S : x <= n - d
    <2> SUFFICES ASSUME NEW x \in S PROVE x <= n - d
      OBVIOUS
    <2>1. n - x \in 0..n /\ n - (n - x) = x
      OBVIOUS
    <2>2. n - x \in Below
      BY <2>1 DEF Below
    <2>3. ~(n - x < d)
      BY <1>4, <2>2
    <2> QED BY <1>5, <2>1, <2>3
  <1>7. S \in SUBSET Int
    OBVIOUS
  <1>8. Max(S) = n - d
    BY <1>5, <1>6, <1>7, MaxIs
  <1> QED BY <1>5, <1>8

(* The score a trial was compared with is not changed by later trials. *)
LEMMA BestIsRemembered ==
  ASSUME NEW S, NEW old \in Seq(S), NEW t, NEW i \in 1..Len(old),
         old[1].status = "baseline"
  PROVE  BestAfter(Append(old, t), i) = BestAfter(old, i)
  <1> DEFINE new == Append(old, t)
             keptNew == {j \in 1..i : new[j].status \in {"baseline", "kept"}}
             keptOld == {j \in 1..i : old[j].status \in {"baseline", "kept"}}
  <1>1. /\ Len(old) \in Nat
        /\ \A j \in 1..Len(old) : new[j] = old[j]
    BY AppendShape
  <1>2. \A j \in 1..i : j \in 1..Len(old)
    BY <1>1
  <1> HIDE DEF new
  <1>3. keptNew = keptOld
    BY <1>1, <1>2
  <1>4. i \in Nat /\ 1 \in keptOld /\ keptOld \in SUBSET (1..i)
    BY <1>1
  <1>5. BestAfter(new, i) = new[Max(keptNew)].metric
    BY DEF BestAfter
  <1>6. BestAfter(old, i) = old[Max(keptOld)].metric
    BY DEF BestAfter
  <1> HIDE DEF keptNew, keptOld
  <1>7. Max(keptOld) \in keptOld
    BY <1>4, GreatestIsThere
  <1>8. Max(keptOld) \in 1..Len(old)
    BY <1>2, <1>4, <1>7
  <1>9. new[Max(keptNew)] = old[Max(keptOld)]
    BY <1>1, <1>3, <1>8
  <1> QED BY <1>5, <1>6, <1>9 DEF new

(* A decision stays right when another trial follows, unless it ended the loop. *)
LEMMA DecisionStaysRight ==
  ASSUME NEW S, NEW old \in Seq(S), NEW t, NEW i \in 2..Len(old),
         old[1].status = "baseline", DecisionStands(old, i),
         old[i].status = "kept" => ~TargetReached(old[i].metric)
  PROVE  DecisionStands(Append(old, t), i)
  <1>1. Len(old) \in Nat /\ \A j \in 1..Len(old) : Append(old, t)[j] = old[j]
    BY AppendShape
  <1>2. i \in 1..Len(old) /\ i - 1 \in 1..Len(old)
    BY <1>1
  <1>3. BestAfter(Append(old, t), i - 1) = BestAfter(old, i - 1)
    BY <1>2, BestIsRemembered
  <1>4. Append(old, t)[i] = old[i]
    BY <1>1, <1>2
  <1> QED BY <1>3, <1>4 DEF DecisionStands

(* The trials that are kept are counted. *)
LEMMA KeptIsCounted ==
  ASSUME NEW S, NEW old \in Seq(S), NEW t
  PROVE  /\ IsFiniteSet(Kept(old)) /\ Cardinality(Kept(old)) \in Nat
         /\ t.status # "kept" => Kept(Append(old, t)) = Kept(old)
         /\ t.status = "kept" =>
               Cardinality(Kept(Append(old, t))) = Cardinality(Kept(old)) + 1
  <1> DEFINE new == Append(old, t)
             n == Len(old)
  <1>1. /\ n \in Nat /\ DOMAIN old = 1..n /\ DOMAIN new = 1..(n + 1)
        /\ \A j \in 1..n : new[j] = old[j]
        /\ new[n + 1] = t
    BY AppendShape
  <1> HIDE DEF new, n
  <1>2. IsFiniteSet(1..n) /\ Kept(old) \subseteq 1..n
    BY <1>1, FS_Interval DEF Kept
  <1>3. IsFiniteSet(Kept(old)) /\ Cardinality(Kept(old)) \in Nat
    BY <1>2, FS_Subset, FS_CardinalityType
  <1>4. ASSUME t.status # "kept" PROVE Kept(new) = Kept(old)
    BY <1>1, <1>4 DEF Kept
  <1>5. ASSUME t.status = "kept"
        PROVE  Cardinality(Kept(new)) = Cardinality(Kept(old)) + 1
    <2>1. Kept(new) = Kept(old) \cup {n + 1}
      BY <1>1, <1>5 DEF Kept
    <2>2. n + 1 \notin Kept(old)
      BY <1>1, <1>2
    <2> QED BY <1>3, <2>1, <2>2, FS_AddElement
  <1> QED BY <1>3, <1>4, <1>5 DEF new

(* A replay ends with the last trial that was kept. *)
LEMMA LastKeptIsReplayed ==
  ASSUME NEW S, NEW trials \in Seq(S), NEW k \in DOMAIN trials, trials[k].status \in Bests,
         \A j \in DOMAIN trials : j > k => trials[j].status \notin Bests
  PROVE  /\ BestAfter(trials, Len(trials)) = trials[k].metric
         /\ Last(trials).status \in Bests => Last(trials) = trials[k]
  <1> DEFINE n == Len(trials)
             kept == {j \in 1..n : trials[j].status \in {"baseline", "kept"}}
  <1>1. n \in Nat /\ DOMAIN trials = 1..n
    OBVIOUS
  <1>2. BestAfter(trials, n) = trials[Max(kept)].metric
    BY DEF BestAfter
  <1>3. Last(trials) = trials[n]
    BY DEF Last
  <1> HIDE DEF n
  <1>4. kept \in SUBSET Int /\ k \in kept /\ \A j \in kept : j <= k
    BY <1>1 DEF Bests
  <1> HIDE DEF kept
  <1>5. Max(kept) = k
    BY <1>4, MaxIs
  <1>6. ASSUME trials[n].status \in Bests PROVE n = k
    <2>1. k \in 1..n /\ n \in 1..n /\ ~(n > k)
      BY <1>1, <1>6
    <2> QED BY <1>1, <2>1
  <1> QED BY <1>2, <1>3, <1>5, <1>6 DEF n

-----------------------------------------------------------------------------
(* What the steps do to the replay                                          *)

(* A trial that is recorded keeps the ledger one the validator accepts. *)
LEMMA RecordedTrial ==
  ASSUME SearchInv, ReplayInv, SearchInv', UNCHANGED <<spec, task>>,
         pc \in {"loop", "apply", "trial"}, pc' = "loop",
         ledger.stop = "none", ledger.completed < spec.maxTrials,
         NEW trial, trial.measured => MeasurementIsValid(trial),
         ledger'.trials = Append(ledger.trials, trial),
         ledger'.completed = ledger.completed + 1,
         ledger'.holdout = ledger.holdout,
         \/ /\ trial.status = "rejected"
            /\ trial.measured => ~Improved(trial.metric, ledger.best, MinDelta * Scale)
            /\ ledger'.accepted = ledger.accepted /\ ledger'.best = ledger.best
            /\ ledger'.stop = ledger.stop
         \/ /\ trial.status = "kept" /\ trial.measured
            /\ Improved(trial.metric, ledger.best, MinDelta * Scale)
            /\ ledger'.accepted = ledger.accepted + 1 /\ ledger'.best = trial.metric
            /\ ledger'.stop = IF TargetReached(trial.metric) THEN "target_score_reached"
                              ELSE "none"
  PROVE  ReplayInv'
  <1> DEFINE old == ledger.trials
             new == Append(old, trial)
             n == Len(old)
  <1>1. /\ LedgerOK /\ \E k \in Nat : HeldBy(k)
        /\ TrialsOK /\ StopOK /\ HoldoutOK
        /\ task = "run" /\ ledger.completed \in Nat /\ spec.maxTrials \in Int
    <2>1. pc \in RunPhases \ {"baseline"} /\ pc \in RunPhases
      BY DEF RunPhases
    <2>2. TrialsOK /\ StopOK /\ HoldoutOK
      BY <2>1 DEF ReplayInv
    <2> QED BY <2>1, <2>2, InTheLoop, Budgeted DEF SearchInv
  <1>2. old \in Seq(Range(old))
    BY <1>1 DEF LedgerOK
  <1>3. /\ n = ledger.completed + 1 /\ old[1].status = "baseline" /\ old[1].measured
        /\ \A i \in DOMAIN old : old[i].measured => MeasurementIsValid(old[i])
        /\ \A i \in 2..n : DecisionStands(old, i)
        /\ ledger.accepted = Cardinality(Kept(old))
        /\ ledger.best = BestAfter(old, n)
    BY <1>1 DEF TrialsOK
  <1>4. ledger'.trials = new
    OBVIOUS
  <1>5. \A i \in 2..n : old[i].status = "kept" => ~TargetReached(old[i].metric)
    <2> SUFFICES ASSUME NEW i \in 2..n, old[i].status = "kept"
                 PROVE  ~TargetReached(old[i].metric)
      OBVIOUS
    <2>1. CASE i = n
      <3>1. Last(old) = old[i] /\ Last(old).status \in Bests
        BY <2>1 DEF Last, Bests
      <3>2. ledger.best = old[i].metric
        BY <1>1, <1>2, <3>1, LastKeptIsReplayed DEF HeldBy
      <3>3. ~TargetReached(ledger.best)
        BY <1>1, <3>1 DEF StopOK
      <3> QED BY <3>2, <3>3
    <2>2. CASE i # n
      BY <1>3, <2>2 DEF DecisionStands
    <2> QED BY <2>1, <2>2
  <1>6. \A i \in 2..n : DecisionStands(new, i)
    BY <1>2, <1>3, <1>5, DecisionStaysRight
  <1> HIDE DEF n
  <1>7. /\ n \in Nat /\ Len(new) = n + 1 /\ DOMAIN old = 1..n /\ DOMAIN new = 1..(n + 1)
        /\ \A i \in 1..n : new[i] = old[i]
        /\ new[n + 1] = trial
    BY <1>2, AppendShape DEF n
  <1>8. BestAfter(new, n) = ledger.best
    <2>1. n \in 1..Len(old)
      BY <1>1, <1>3, <1>7 DEF n
    <2> QED BY <1>2, <1>3, <2>1, BestIsRemembered
  <1> HIDE DEF old, new
  <1>9. DecisionStands(new, n + 1)
    <2>1. (n + 1) - 1 = n
      BY <1>7
    <2> QED BY <1>7, <1>8, <2>1 DEF DecisionStands
  <1>10. \A i \in 2..(n + 1) : DecisionStands(new, i)
    <2>1. \A i \in 2..(n + 1) : i \in 2..n \/ i = n + 1
      BY <1>7
    <2> QED BY <1>6, <1>9, <2>1
  <1>11. \A i \in 1..(n + 1) : new[i].measured => MeasurementIsValid(new[i])
    <2>1. \A i \in 1..(n + 1) : i \in 1..n \/ i = n + 1
      BY <1>7
    <2> QED BY <1>3, <1>7, <2>1
  <1>12. ledger'.accepted = Cardinality(Kept(new))
    BY <1>2, <1>3, KeptIsCounted DEF new
  <1>13. ledger'.best = BestAfter(new, n + 1)
    <2>1. LedgerOK' /\ \E k \in Nat : HeldBy(k)'
      BY DEF SearchInv, LedgerOK, RunPhases
    <2>2. PICK k \in Nat : HeldBy(k)'
      BY <2>1
    <2>3. new \in Seq(Range(new))
      BY <1>4, <2>1 DEF LedgerOK
    <2>4. /\ k \in DOMAIN new /\ new[k].status \in Bests
          /\ \A j \in DOMAIN new : j > k => new[j].status \notin Bests
          /\ ledger'.best = new[k].metric
      BY <1>4, <2>2 DEF HeldBy, Bests
    <2>5. BestAfter(new, Len(new)) = new[k].metric
      BY <2>3, <2>4, LastKeptIsReplayed
    <2> QED BY <1>7, <2>4, <2>5
  <1>14. TrialsOK'
    <2>1. \A i \in 1..(n + 1) : ledger'.trials[i].measured
                                  => MeasurementIsValid(ledger.trials[i])'
      BY <1>4, <1>11 DEF MeasurementIsValid
    <2>2. \A i \in 2..(n + 1) : DecisionStands(ledger.trials, i)'
      BY <1>4, <1>10 DEF DecisionStands, TargetReached, Scale
    <2>3. /\ (ledger.completed <= spec.maxTrials)' /\ Len(ledger'.trials) = ledger'.completed + 1
          /\ DOMAIN ledger'.trials = 1..(n + 1) /\ Len(ledger'.trials) = n + 1
          /\ ledger'.trials[1].status = "baseline" /\ ledger'.trials[1].measured
      BY <1>1, <1>3, <1>4, <1>7
    <2>4. ledger'.accepted = Cardinality(Kept(ledger'.trials))
      BY <1>4, <1>12
    <2>5. ledger'.best = BestAfter(ledger'.trials, Len(ledger'.trials))
      BY <1>4, <1>7, <1>13
    <2> QED BY <2>1, <2>2, <2>3, <2>4, <2>5 DEF TrialsOK
  <1>15. StopOK'
    <2>1. Last(ledger'.trials) = trial
      BY <1>4, <1>7 DEF Last
    <2>2. TargetReached(ledger.best)' <=> TargetReached(ledger'.best)
      BY DEF TargetReached, Scale
    <2> QED BY <2>1, <2>2 DEF StopOK
  <1>16. HoldoutOK'
    BY <1>1 DEF HoldoutOK, HasHoldout
  <1> QED BY <1>1, <1>14, <1>15, <1>16 DEF ReplayInv, EvaluationOK, RunPhases

(* A ledger that is accepted stays so as long as it and the specification stay. *)
LEMMA AcceptedStays ==
  ASSUME UNCHANGED <<spec, published>>, LedgerIsAccepted(published)
  PROVE  LedgerIsAccepted(published)'
  BY DEF LedgerIsAccepted, MeasurementIsValid, DecisionStands, TargetReached, Scale, HasHoldout

(* Outside the runs the validator's input is all that counts. *)
LEMMA OutsideTheRun ==
  ASSUME ReplayInv, pc' \notin RunPhases,
         task' # "validate" \/ UNCHANGED <<spec, task, published>>
  PROVE  ReplayInv'
  <1>1. task' = "validate" => LedgerIsAccepted(published)'
    BY AcceptedStays DEF ReplayInv
  <1> QED BY <1>1 DEF ReplayInv, EvaluationOK, RunPhases

(* A step within the run that records nothing. *)
LEMMA NothingRecorded ==
  ASSUME SearchInv, ReplayInv, pc \in RunPhases, pc' \in RunPhases, EvaluationOK',
         UNCHANGED <<spec, task, ledger>>,
         pc' = pc \/ (pc \in {"loop", "apply"} /\ pc' \in {"apply", "trial"}),
         pc' \in {"apply", "trial"} => ledger.stop = "none"
  PROVE  ReplayInv'
  <1>1. task' = "run"
    BY InTheLoop
  <1>2. pc' = "baseline" => ledger' = NewLedger
    BY DEF ReplayInv
  <1>3. ASSUME pc' \in RunPhases \ {"baseline"} PROVE TrialsOK' /\ StopOK' /\ HoldoutOK'
    <2>1. pc \in RunPhases \ {"baseline"}
      BY <1>3 DEF RunPhases
    <2>2. TrialsOK /\ StopOK /\ HoldoutOK
      BY <2>1 DEF ReplayInv
    <2>3. TrialsOK'
      BY <2>2 DEF TrialsOK, MeasurementIsValid, DecisionStands, TargetReached, Scale
    <2>4. StopOK'
      BY <2>2 DEF StopOK, TargetReached, Scale
    <2>5. HoldoutOK'
      BY <2>2 DEF HoldoutOK, HasHoldout
    <2> QED BY <2>3, <2>4, <2>5
  <1> QED BY <1>1, <1>2, <1>3 DEF ReplayInv

(* An evaluation that begins has all its runs to do. *)
LEMMA EvaluationBegins ==
  ASSUME NEW runs \in Nat, NEW guards \in Nat
  PROVE  /\ NewEvaluation(guards, runs).samples = <<>>
         /\ NewEvaluation(guards, runs).runs = runs
         /\ NewEvaluation(guards, runs).guards = guards
  BY DEF NewEvaluation

(* One that ends without an error has done them. *)
LEMMA EvaluationEnds ==
  ASSUME EvaluationOK, Evaluated, ev.error = "none", pc \in {"baseline", "holdout", "trial"},
         FrozenSpecIsValid(spec)
  PROVE  /\ ev.samples \in Seq(Score)
         /\ Len(ev.samples) = IF pc = "holdout" THEN 1 ELSE spec.searchRuns
  <1>1. spec.searchRuns \in Int
    BY LimitAssumption DEF FrozenSpecIsValid
  <1> QED BY <1>1 DEF EvaluationOK, Evaluated

LEMMA BeginRunReplay ==
  ASSUME SearchInv, ReplayInv, BeginRun
  PROVE  ReplayInv'
  <1>1. CASE FailTask
    <2>1. pc' \notin RunPhases /\ UNCHANGED <<spec, task, published>>
      BY <1>1 DEF FailTask, RunPhases
    <2> QED BY <2>1, OutsideTheRun
  <1>2. CASE ~FailTask
    <2>1. /\ task' = "run" /\ spec' = spec /\ pc' = "baseline" /\ ledger' = NewLedger
          /\ ev' = NewEvaluation(Guards, spec.searchRuns) /\ FrozenSpecIsValid(spec)
      BY <1>2 DEF BeginRun, Unreadable
    <2>2. spec.searchRuns \in Nat /\ Guards \in Nat
      BY <2>1, LimitAssumption, ScoreAssumption DEF FrozenSpecIsValid
    <2>3. ev'.samples = <<>> /\ ev'.runs = spec.searchRuns /\ ev'.guards = Guards
      BY <2>1, <2>2, EvaluationBegins
    <2>4. <<>> \in Seq(Score) /\ Len(<<>>) = 0
      OBVIOUS
    <2>5. EvaluationOK'
      BY <2>1, <2>2, <2>3, <2>4 DEF EvaluationOK
    <2> QED BY <2>1, <2>5 DEF ReplayInv, RunPhases
  <1> QED BY <1>1, <1>2

LEMMA RunCommandReplay ==
  ASSUME SearchInv, ReplayInv, RunCommand
  PROVE  ReplayInv'
  <1>1. /\ pc \in {"baseline", "holdout", "trial", "vrun"} /\ pc' = pc
        /\ UNCHANGED <<spec, task, ledger, published>>
        /\ ev.error = "none" /\ ~(ev.guards = 0 /\ ev.runs = 0)
    BY DEF RunCommand, Evaluated
  <1>2. CASE pc = "vrun"
    BY <1>1, <1>2, OutsideTheRun DEF RunPhases
  <1>3. CASE pc # "vrun"
    <2>1. /\ ev.samples \in Seq(Score) /\ ev.runs \in Nat /\ ev.guards \in Nat
          /\ Len(ev.samples) + ev.runs = IF pc = "holdout" THEN 1 ELSE spec.searchRuns
          /\ DOMAIN ev = {"guards", "samples", "runs", "error"}
      BY <1>1, <1>3 DEF ReplayInv, EvaluationOK, SearchInv, FilesOK
    <2>2. \/ /\ ev'.samples = ev.samples /\ ev'.runs = ev.runs
             /\ ev'.guards = ev.guards \/ (ev.guards > 0 /\ ev'.guards = ev.guards - 1)
          \/ /\ ev.guards = 0 /\ ev'.guards = ev.guards /\ ev'.runs = ev.runs - 1
             /\ \E score \in Score : ev'.samples = Append(ev.samples, score)
      <3>1. PICK outcome \in Outcomes :
               ev' = IF ~FilesVerified' \/ ~FingerprintVerified'
                     THEN [ev EXCEPT !.error = "integrity"]
                     ELSE IF outcome = NoScore THEN [ev EXCEPT !.error = "failed"]
                     ELSE IF ev.guards > 0 THEN [ev EXCEPT !.guards = @ - 1]
                     ELSE [ev EXCEPT !.samples = Append(@, outcome), !.runs = @ - 1]
        BY DEF RunCommand
      <3>2. outcome # NoScore => outcome \in Score
        BY DEF Outcomes
      <3>3. ~(ev.guards > 0) => ev.guards = 0
        BY <2>1
      <3>4. CASE ev' = [ev EXCEPT !.error = "integrity"] \/ ev' = [ev EXCEPT !.error = "failed"]
        BY <2>1, <3>4
      <3>5. CASE ev.guards > 0 /\ ev' = [ev EXCEPT !.guards = @ - 1]
        BY <2>1, <3>5
      <3>6. CASE /\ ~(ev.guards > 0) /\ outcome # NoScore
                 /\ ev' = [ev EXCEPT !.samples = Append(@, outcome), !.runs = @ - 1]
        BY <2>1, <3>2, <3>3, <3>6
      <3> QED BY <3>1, <3>4, <3>5, <3>6
    <2>3. EvaluationOK'
      <3>1. CASE /\ ev'.samples = ev.samples /\ ev'.runs = ev.runs
                 /\ ev'.guards = ev.guards \/ (ev.guards > 0 /\ ev'.guards = ev.guards - 1)
        BY <1>1, <2>1, <3>1 DEF EvaluationOK
      <3>2. CASE /\ ev.guards = 0 /\ ev'.guards = ev.guards /\ ev'.runs = ev.runs - 1
                 /\ \E score \in Score : ev'.samples = Append(ev.samples, score)
        <4>1. ev'.samples \in Seq(Score) /\ Len(ev'.samples) = Len(ev.samples) + 1
          BY <2>1, <3>2
        <4>2. ev'.runs \in Nat /\ ev'.runs = ev.runs - 1 /\ Len(ev.samples) \in Nat
          BY <1>1, <2>1, <3>2
        <4>3. Len(ev'.samples) + ev'.runs = Len(ev.samples) + ev.runs
          BY <2>1, <4>1, <4>2
        <4> QED BY <1>1, <2>1, <3>2, <4>1, <4>2, <4>3 DEF EvaluationOK
      <3> QED BY <2>2, <3>1, <3>2
    <2>4. pc' \in {"apply", "trial"} => ledger.stop = "none"
      BY <1>1 DEF ReplayInv
    <2> QED BY <1>1, <1>3, <2>3, <2>4, NothingRecorded DEF RunPhases
  <1> QED BY <1>2, <1>3

LEMMA DecideBaselineReplay ==
  ASSUME SearchInv, ReplayInv, SearchInv', DecideBaseline
  PROVE  ReplayInv'
  <1>0. /\ pc = "baseline" /\ task = "run" /\ FrozenSpecIsValid(spec) /\ ledger = NewLedger
        /\ EvaluationOK
    BY InTheLoop DEF DecideBaseline, RunPhases, ReplayInv
  <1>1. CASE ev.error = "none" /\ files = original
    <2> DEFINE score == Aggregate(ev.samples, spec.aggregation)
               trial == Trial("baseline", TRUE, ev.samples, files)
    <2>1. /\ ledger' = [ledger EXCEPT !.best = score, !.trials = <<trial>>]
          /\ \/ HasHoldout /\ pc' = "holdout" /\ ev' = NewEvaluation(0, 1)
             \/ ~HasHoldout /\ pc' = "loop" /\ UNCHANGED ev
          /\ UNCHANGED <<spec, task>>
      BY <1>1 DEF DecideBaseline
    <2>2. /\ trial.status = "baseline" /\ trial.measured /\ trial.metric = score
          /\ trial.samples = ev.samples
      BY DEF Trial
    <2>3. Len(ev.samples) = spec.searchRuns
      BY <1>0, <1>1, EvaluationEnds DEF DecideBaseline
    <2>4. MeasurementIsValid(trial)
      BY <2>2, <2>3 DEF MeasurementIsValid
    <2> HIDE DEF score, trial
    <2>5. /\ ledger'.trials = <<trial>> /\ ledger'.best = score /\ ledger'.completed = 0
          /\ ledger'.accepted = 0 /\ ledger'.stop = "none" /\ ledger'.holdout = NoScore
      BY <1>0, <2>1 DEF NewLedger
    <2>6. Len(<<trial>>) = 1 /\ DOMAIN <<trial>> = {1} /\ <<trial>>[1] = trial
      OBVIOUS
    <2>7. TrialsOK'
      <3>1. spec'.maxTrials >= 0
        BY <1>0, <2>1, LimitAssumption DEF FrozenSpecIsValid
      <3>2. \A i \in DOMAIN ledger'.trials : ledger'.trials[i].measured
                                               => MeasurementIsValid(ledger.trials[i])'
        BY <2>1, <2>4, <2>5, <2>6 DEF MeasurementIsValid
      <3>3. \A i \in 2..Len(ledger'.trials) : FALSE
        BY <2>5, <2>6
      <3>4. Kept(ledger'.trials) = {}
        BY <2>2, <2>5, <2>6 DEF Kept
      <3>5. Cardinality(Kept(ledger'.trials)) = 0
        BY <3>4, FS_EmptySet
      <3>6. BestAfter(<<trial>>, 1) = score
        <4> DEFINE only == <<trial>>
        <4>1. only \in Seq({trial}) /\ Len(only) = 1
          OBVIOUS
        <4>2. /\ 1 \in DOMAIN only /\ only[1] = trial /\ only[1].status \in Bests
              /\ \A j \in DOMAIN only : j > 1 => only[j].status \notin Bests
          BY <2>2, <2>6 DEF Bests
        <4> HIDE DEF only
        <4>3. BestAfter(only, Len(only)) = only[1].metric
          BY <4>1, <4>2, LastKeptIsReplayed
        <4> QED BY <2>2, <4>1, <4>2, <4>3 DEF only
      <3> QED BY <2>2, <2>5, <2>6, <3>1, <3>2, <3>3, <3>5, <3>6 DEF TrialsOK
    <2>8. StopOK'
      BY <2>2, <2>5, <2>6 DEF StopOK, Last
    <2>9. HoldoutOK'
      BY <2>1, <2>5 DEF HoldoutOK, HasHoldout
    <2>10. EvaluationOK'
      <3>1. CASE pc' = "holdout"
        <4>1. ev'.samples = <<>> /\ ev'.runs = 1 /\ ev'.guards = 0
          BY <2>1, <3>1, EvaluationBegins
        <4>2. <<>> \in Seq(Score) /\ Len(<<>>) = 0
          OBVIOUS
        <4> QED BY <3>1, <4>1, <4>2 DEF EvaluationOK
      <3>2. CASE pc' = "loop"
        BY <3>2 DEF EvaluationOK
      <3> QED BY <2>1, <3>1, <3>2
    <2> QED BY <1>0, <2>1, <2>7, <2>8, <2>9, <2>10 DEF ReplayInv
  <1>2. CASE ~(ev.error = "none" /\ files = original)
    <2>1. pc' \notin RunPhases /\ UNCHANGED <<spec, task, published>>
      BY <1>2 DEF DecideBaseline, FailTask, RunPhases
    <2> QED BY <2>1, OutsideTheRun
  <1> QED BY <1>1, <1>2

LEMMA DecideHoldoutReplay ==
  ASSUME SearchInv, ReplayInv, DecideHoldout
  PROVE  ReplayInv'
  <1>0. /\ pc = "holdout" /\ task = "run" /\ FrozenSpecIsValid(spec)
        /\ DOMAIN ledger = DOMAIN NewLedger
        /\ TrialsOK /\ StopOK /\ HoldoutOK /\ EvaluationOK
    BY InTheLoop DEF DecideHoldout, RunPhases, ReplayInv
  <1>1. CASE ev.error = "none" /\ files = original
    <2>1. /\ ledger' = [ledger EXCEPT !.holdout = ev.samples[1]]
          /\ pc' = "loop" /\ UNCHANGED <<spec, task>>
      BY <1>1 DEF DecideHoldout
    <2>2. ev.samples \in Seq(Score) /\ Len(ev.samples) = 1
      BY <1>0, <1>1, EvaluationEnds DEF DecideHoldout
    <2>3. ev.samples[1] \in Score /\ ev.samples[1] # NoScore
      <3>1. ev.samples[1] \in Score
        BY <2>2
      <3>2. NoScore \notin Score
        BY ScoreAssumption
      <3> QED BY <3>1, <3>2
    <2>4. /\ ledger'.trials = ledger.trials /\ ledger'.best = ledger.best
          /\ ledger'.completed = ledger.completed /\ ledger'.accepted = ledger.accepted
          /\ ledger'.stop = ledger.stop /\ ledger'.holdout # NoScore
      BY <1>0, <2>1, <2>3 DEF NewLedger
    <2>5. TrialsOK'
      BY <1>0, <2>1, <2>4 DEF TrialsOK, MeasurementIsValid, DecisionStands, TargetReached, Scale
    <2>6. StopOK'
      BY <1>0, <2>1, <2>4 DEF StopOK, TargetReached, Scale
    <2>7. HoldoutOK'
      BY <1>0, <2>1, <2>4 DEF HoldoutOK, HasHoldout
    <2> QED BY <1>0, <2>1, <2>5, <2>6, <2>7 DEF ReplayInv, EvaluationOK
  <1>2. CASE ~(ev.error = "none" /\ files = original)
    <2>1. pc' \notin RunPhases /\ UNCHANGED <<spec, task, published>>
      BY <1>2 DEF DecideHoldout, FailTask, RunPhases
    <2> QED BY <2>1, OutsideTheRun
  <1> QED BY <1>1, <1>2

LEMMA StopLoopReplay ==
  ASSUME SearchInv, ReplayInv, StopLoop
  PROVE  ReplayInv'
  <1>1. CASE Unreadable
    <2>1. pc' \notin RunPhases /\ UNCHANGED <<spec, task, published>>
      BY <1>1 DEF Unreadable, FailTask, RunPhases
    <2> QED BY <2>1, OutsideTheRun
  <1>2. CASE ~Unreadable
    <2>1. /\ pc = "loop" /\ FrozenSpecIsValid(spec) /\ files \in Tree
          /\ DOMAIN ledger = DOMAIN NewLedger /\ ledger.completed \in Nat
          /\ TrialsOK /\ StopOK /\ HoldoutOK /\ LedgerOK
      BY InTheLoop DEF StopLoop, RunPhases, SearchInv, TypeOK, ReplayInv
    <2>2. PICK reason : /\ Finish(reason)
                        /\ reason = "target_score_reached" <=> ledger.stop = "target_score_reached"
      BY <2>1 DEF StopLoop, StopOK
    <2>3. /\ published' = [ledger EXCEPT !.status = "completed", !.stop = reason, !.files = files]
          /\ spec' = spec /\ pc' = "idle"
      BY <1>2, <2>2 DEF Finish
    <2>4. /\ published'.status = "completed" /\ published'.stop = reason
          /\ published'.files = files /\ published'.trials = ledger.trials
          /\ published'.best = ledger.best /\ published'.completed = ledger.completed
          /\ published'.accepted = ledger.accepted /\ published'.holdout = ledger.holdout
      BY <2>1, <2>3 DEF NewLedger
    <2>5. ledger.accepted \in 0..ledger.completed
      <3> DEFINE n == ledger.completed + 1
      <3>1. /\ n \in Nat /\ Len(ledger.trials) = n /\ ledger.trials[1].status = "baseline"
            /\ ledger.accepted = Cardinality(Kept(ledger.trials))
            /\ DOMAIN ledger.trials = 1..n
        BY <2>1 DEF TrialsOK, LedgerOK
      <3> HIDE DEF n
      <3>2. Kept(ledger.trials) \subseteq 2..n
        BY <3>1 DEF Kept
      <3>3. IsFiniteSet(2..n) /\ Cardinality(2..n) = IF 2 > n THEN 0 ELSE n - 2 + 1
        <4>1. 2 \in Int /\ n \in Int
          BY <3>1
        <4> QED BY <4>1, FS_Interval
      <3>4. /\ IsFiniteSet(Kept(ledger.trials))
            /\ Cardinality(Kept(ledger.trials)) <= Cardinality(2..n)
        BY <3>2, <3>3, FS_Subset
      <3>5. Cardinality(Kept(ledger.trials)) \in Nat
        BY <3>4, FS_CardinalityType
      <3>6. Cardinality(2..n) <= ledger.completed
        BY <2>1, <3>1, <3>3 DEF n
      <3>7. Cardinality(2..n) \in Nat
        BY <3>3, FS_CardinalityType
      <3> QED BY <2>1, <3>1, <3>4, <3>5, <3>6, <3>7
    <2>6. files # NoTree
      BY <2>1, TreesExist
    <2>7. published'.completed \in 0..spec'.maxTrials
      <3>1. spec.maxTrials \in Int
        BY <2>1, LimitAssumption DEF FrozenSpecIsValid
      <3> QED BY <2>1, <2>3, <2>4, <3>1 DEF TrialsOK
    <2>8. HasHoldout' <=> published'.holdout # NoScore
      BY <2>1, <2>3, <2>4 DEF HoldoutOK, HasHoldout
    <2>9. /\ Len(published'.trials) = published'.completed + 1
          /\ published'.trials[1].status = "baseline" /\ published'.trials[1].measured
          /\ published'.accepted = Cardinality(Kept(published'.trials))
          /\ published'.best = BestAfter(published'.trials, Len(published'.trials))
      BY <2>1, <2>4 DEF TrialsOK
    <2>10. \A i \in DOMAIN published'.trials :
              published'.trials[i].measured => MeasurementIsValid(published.trials[i])'
      BY <2>1, <2>3, <2>4 DEF TrialsOK, MeasurementIsValid
    <2>11. \A i \in 2..Len(published'.trials) : DecisionStands(published.trials, i)'
      BY <2>1, <2>3, <2>4 DEF TrialsOK, DecisionStands, TargetReached, Scale
    <2>12. published'.stop = "target_score_reached" <=>
              Last(published'.trials).status = "kept" /\ TargetReached(published.best)'
      BY <2>1, <2>2, <2>3, <2>4 DEF StopOK, TargetReached, Scale
    <2>13. LedgerIsAccepted(published)'
      BY <2>4, <2>5, <2>6, <2>7, <2>8, <2>9, <2>10, <2>11, <2>12 DEF LedgerIsAccepted
    <2> QED BY <2>3, <2>13 DEF ReplayInv, EvaluationOK, RunPhases
  <1> QED BY <1>1, <1>2

(* The steps that reject a candidate, or fail to restore the files. *)
LEMMA RejectionReplay ==
  ASSUME SearchInv, ReplayInv, SearchInv', RejectAnswer \/ RejectPatches \/ RejectTrial
  PROVE  ReplayInv'
  <1>0. /\ pc \in {"loop", "apply", "trial"} /\ FrozenSpecIsValid(spec)
        /\ DOMAIN ledger = DOMAIN NewLedger
        /\ ledger.stop = "none" /\ ledger.completed < spec.maxTrials /\ EvaluationOK
    <2>1. pc \in {"loop", "apply", "trial"}
      BY DEF RejectAnswer, RejectPatches, RejectTrial, Proposing
    <2>2. ledger.stop = "none" /\ ledger.completed < spec.maxTrials
      BY DEF RejectAnswer, RejectPatches, RejectTrial, Proposing, ReplayInv, SearchInv, LedgerOK
    <2> QED BY <2>1, <2>2, InTheLoop DEF RunPhases, ReplayInv
  <1>1. CASE FailTask
    <2>1. pc' \notin RunPhases /\ UNCHANGED <<spec, task, published>>
      BY <1>1 DEF FailTask, RunPhases
    <2> QED BY <2>1, OutsideTheRun
  <1>2. CASE ~FailTask
    <2>1. PICK trial : /\ ledger' = Logged(trial) /\ trial.status = "rejected"
                       /\ trial.measured => /\ pc = "trial" /\ ev.error = "none" /\ Evaluated
                                            /\ ~TrialImproves /\ TrialIsClean
                                            /\ trial = Trial("rejected", TRUE, ev.samples, expected)
      <3>1. /\ Trial("rejected", FALSE, <<>>, NoTree).status = "rejected"
            /\ ~Trial("rejected", FALSE, <<>>, NoTree).measured
            /\ Trial("rejected", FALSE, ev.samples, NoTree).status = "rejected"
            /\ ~Trial("rejected", FALSE, ev.samples, NoTree).measured
            /\ Trial("rejected", TRUE, ev.samples, expected).status = "rejected"
        BY DEF Trial
      <3>2. CASE RejectAnswer \/ RejectPatches
        <4>1. ledger' = Logged(Trial("rejected", FALSE, <<>>, NoTree))
          BY <1>2, <3>2 DEF RejectAnswer, RejectPatches
        <4> QED BY <3>1, <4>1
      <3>3. CASE RejectTrial /\ TrialIsClean
        <4>1. ledger' = Logged(Trial("rejected", TRUE, ev.samples, expected))
          BY <1>2, <3>3 DEF RejectTrial
        <4>2. pc = "trial" /\ ev.error = "none" /\ Evaluated /\ ~TrialImproves
          BY <3>3 DEF RejectTrial, TrialIsClean
        <4> QED BY <3>1, <3>3, <4>1, <4>2
      <3>4. CASE RejectTrial /\ ~TrialIsClean
        <4>1. ledger' = Logged(Trial("rejected", FALSE, ev.samples, NoTree))
          BY <1>2, <3>4 DEF RejectTrial
        <4> QED BY <3>1, <4>1
      <3> QED BY <3>2, <3>3, <3>4
    <2>2. ASSUME trial.measured
          PROVE  /\ MeasurementIsValid(trial)
                 /\ ~Improved(trial.metric, ledger.best, MinDelta * Scale)
      <3>1. /\ trial.samples = ev.samples
            /\ trial.metric = Aggregate(ev.samples, spec.aggregation)
        BY <2>1, <2>2 DEF Trial
      <3>2. Len(ev.samples) = spec.searchRuns
        BY <1>0, <2>1, <2>2, EvaluationEnds
      <3>3. MeasurementIsValid(trial)
        BY <3>1, <3>2 DEF MeasurementIsValid
      <3>4. ~Improved(TrialScore, ledger.best, MinDelta * Scale)
        BY <2>1, <2>2 DEF TrialImproves
      <3> QED BY <3>1, <3>3, <3>4 DEF TrialScore
    <2>3. /\ ledger'.trials = Append(ledger.trials, trial)
          /\ ledger'.completed = ledger.completed + 1 /\ ledger'.best = ledger.best
          /\ ledger'.accepted = ledger.accepted /\ ledger'.stop = ledger.stop
          /\ ledger'.holdout = ledger.holdout
      BY <1>0, <2>1, LoggedShape
    <2>4. pc' = "loop" /\ UNCHANGED <<spec, task>>
      BY <1>2 DEF RejectAnswer, RejectPatches, RejectTrial, LoopVars, Proposing
    <2> QED BY <1>0, <2>1, <2>2, <2>3, <2>4, RecordedTrial
  <1> QED BY <1>1, <1>2

LEMMA KeepTrialReplay ==
  ASSUME SearchInv, ReplayInv, SearchInv', KeepTrial
  PROVE  ReplayInv'
  <1>1. CASE Unreadable
    <2>1. pc' \notin RunPhases /\ UNCHANGED <<spec, task, published>>
      BY <1>1 DEF Unreadable, FailTask, RunPhases
    <2> QED BY <2>1, OutsideTheRun
  <1>2. CASE ~Unreadable
    <2> DEFINE trial == Trial("kept", TRUE, ev.samples, expected)
    <2>1. /\ pc = "trial" /\ pc' = "loop" /\ ev.error = "none" /\ Evaluated
          /\ Improved(TrialScore, ledger.best, MinDelta * Scale)
          /\ ledger' = [Logged(trial) EXCEPT
                          !.best = TrialScore, !.accepted = @ + 1,
                          !.stop = IF TargetReached(TrialScore) THEN "target_score_reached"
                                   ELSE "none"]
          /\ UNCHANGED <<spec, task>>
      BY <1>2 DEF KeepTrial, TrialImproves, TrialIsClean, LoopVars
    <2>2. /\ trial.status = "kept" /\ trial.measured /\ trial.samples = ev.samples
          /\ trial.metric = TrialScore
      BY DEF Trial, TrialScore
    <2>3. /\ FrozenSpecIsValid(spec) /\ DOMAIN ledger = DOMAIN NewLedger /\ EvaluationOK
          /\ ledger.stop = "none" /\ ledger.completed < spec.maxTrials
      BY <2>1, InTheLoop DEF RunPhases, SearchInv, LedgerOK, ReplayInv
    <2>4. MeasurementIsValid(trial)
      <3>1. Len(ev.samples) = spec.searchRuns
        BY <2>1, <2>3, EvaluationEnds
      <3> QED BY <2>2, <3>1 DEF MeasurementIsValid, TrialScore
    <2> HIDE DEF trial
    <2>5. /\ DOMAIN Logged(trial) = DOMAIN NewLedger
          /\ Logged(trial).trials = Append(ledger.trials, trial)
          /\ Logged(trial).completed = ledger.completed + 1
          /\ Logged(trial).accepted = ledger.accepted /\ Logged(trial).holdout = ledger.holdout
      BY <2>3, LoggedShape
    <2>6. /\ ledger'.trials = Append(ledger.trials, trial)
          /\ ledger'.completed = ledger.completed + 1 /\ ledger'.best = trial.metric
          /\ ledger'.accepted = ledger.accepted + 1 /\ ledger'.holdout = ledger.holdout
          /\ ledger'.stop = IF TargetReached(trial.metric) THEN "target_score_reached" ELSE "none"
      BY <2>1, <2>2, <2>5 DEF NewLedger
    <2> QED BY <2>1, <2>2, <2>3, <2>4, <2>6, RecordedTrial
  <1> QED BY <1>1, <1>2

(* The steps between two decisions. *)
LEMMA ProposalReplay ==
  ASSUME SearchInv, ReplayInv, Propose \/ WritePatch \/ BeginTrial
  PROVE  ReplayInv'
  <1>1. /\ pc \in {"loop", "apply"} /\ pc' \in {"apply", "trial"}
        /\ UNCHANGED <<spec, task, ledger>>
    BY DEF Propose, WritePatch, BeginTrial, LoopVars, Proposing
  <1>2. ledger.stop = "none"
    BY DEF Propose, WritePatch, BeginTrial, Proposing, ReplayInv
  <1>3. EvaluationOK'
    <2>1. CASE pc' = "trial"
      <3>1. ev' = NewEvaluation(Guards, spec.searchRuns) /\ FrozenSpecIsValid(spec)
        BY <1>1, <2>1, InTheLoop DEF Propose, WritePatch, BeginTrial, RunPhases
      <3>2. spec.searchRuns \in Nat /\ Guards \in Nat
        BY <3>1, LimitAssumption, ScoreAssumption DEF FrozenSpecIsValid
      <3>3. ev'.samples = <<>> /\ ev'.runs = spec.searchRuns /\ ev'.guards = Guards
        BY <3>1, <3>2, EvaluationBegins
      <3>4. <<>> \in Seq(Score) /\ Len(<<>>) = 0
        OBVIOUS
      <3> QED BY <1>1, <2>1, <3>2, <3>3, <3>4 DEF EvaluationOK
    <2>2. CASE pc' = "apply"
      BY <2>2 DEF EvaluationOK
    <2> QED BY <1>1, <2>1, <2>2
  <1> QED BY <1>1, <1>2, <1>3, NothingRecorded DEF RunPhases

(* Time passes, or nothing happens. *)
LEMMA IdleReplay ==
  ASSUME SearchInv, ReplayInv, Expire \/ UNCHANGED vars
  PROVE  ReplayInv'
  <1>1. UNCHANGED <<spec, pc, task, ev, ledger, published>>
    BY DEF Expire, vars
  <1>2. CASE pc \in RunPhases
    <2>1. EvaluationOK'
      BY <1>1 DEF ReplayInv, EvaluationOK
    <2>2. pc' \in {"apply", "trial"} => ledger.stop = "none"
      BY <1>1 DEF ReplayInv
    <2> QED BY <1>1, <1>2, <2>1, <2>2, NothingRecorded
  <1>3. CASE pc \notin RunPhases
    BY <1>1, <1>3, OutsideTheRun
  <1> QED BY <1>2, <1>3

LEMMA ReplayInvStep ==
  ASSUME SearchInv, ReplayInv, SearchInv', [Next]_vars
  PROVE  ReplayInv'
  <1>1. CASE Freeze \/ Compromised \/ Interrupt \/ Repeat
    <2>1. pc' \notin RunPhases /\ (task' # "validate" \/ UNCHANGED <<spec, task, published>>)
      BY <1>1 DEF Freeze, Compromised, FailTask, Interrupt, Repeat, RunPhases
    <2> QED BY <2>1, OutsideTheRun
  <1>2. CASE BeginValidation \/ BeginValidationRun \/ DecideValidationRun \/ WriteReport
    <2>1. pc' \notin RunPhases /\ UNCHANGED <<spec, task, published>>
      BY <1>2 DEF BeginValidation, BeginValidationRun, DecideValidationRun, WriteReport,
                  ValidationVars, FailTask, Unreadable, RunPhases
    <2> QED BY <2>1, OutsideTheRun
  <1>3. CASE BeginRun \/ RunCommand \/ DecideBaseline \/ DecideHoldout \/ StopLoop
    BY <1>3, BeginRunReplay, RunCommandReplay, DecideBaselineReplay, DecideHoldoutReplay,
       StopLoopReplay
  <1>4. CASE RejectAnswer \/ RejectPatches \/ RejectTrial \/ KeepTrial
    BY <1>4, RejectionReplay, KeepTrialReplay
  <1>5. CASE Propose \/ WritePatch \/ BeginTrial \/ Expire \/ UNCHANGED vars
    BY <1>5, ProposalReplay, IdleReplay
  <1> QED BY <1>1, <1>2, <1>3, <1>4, <1>5 DEF Next, Step

(* What is frozen is valid for the tasks that follow, and a ledger the loop
   completes passes the checks with which the validation begins, whatever the
   evaluator prints, commands damage and attempts are repeated: every decision
   in it stands when it is replayed (validateAutoResearchLedgerAgainstSpec).   *)
THEOREM HandOversStayInAgreement == Spec => []HandOversAgree
  <1>1. Init => ReplayInv
    BY DEF Init, ReplayInv, EvaluationOK, RunPhases
  <1>2. SearchInv /\ SearchInv' /\ ReplayInv /\ [Next]_vars => ReplayInv'
    BY ReplayInvStep
  <1>3. Spec => []ReplayInv
    BY <1>1, <1>2, SearchInvariant, PTL DEF Spec
  <1>4. SearchInv /\ ReplayInv => HandOversAgree
    BY DEF SearchInv, PlaceOK, ReplayInv, HandOversAgree
  <1> QED BY <1>3, <1>4, SearchInvariant, PTL
=============================================================================
