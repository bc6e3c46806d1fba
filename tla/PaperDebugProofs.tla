-------------------------- MODULE PaperDebugProofs --------------------------
(***************************************************************************)
(* Proofs about CodeTasks and PaperDebug, for any requirements, projects,  *)
(* files, contents and limits: a runtime that is published as prepared is  *)
(* alive and has what its report names, and the repairs of an attempt are  *)
(* all or nothing.                                                         *)
(***************************************************************************)
EXTENDS PaperDebug, FiniteSetTheorems, SequenceTheorems, TLAPS

PaperPhases == {"run", "running", "plan", "model", "patch", "undo", "restore"}

\* What the patches that are in place make of a source.
Held(f) == IF f \in DOMAIN report.patched THEN report.patched[f] ELSE start[f]

\* The sources and what is known of them, where an attempt is.
SourcesTyped ==
    /\ DOMAIN files = File
    /\ DOMAIN report = {"status", "runs", "repairs", "patched"}
    /\ DOMAIN backups \subseteq File /\ DOMAIN shown \subseteq File
    /\ pc = "patch" => todo \subseteq DOMAIN pending /\ DOMAIN pending \subseteq DOMAIN shown
    /\ pc \in {"undo", "restore"} => todo \subseteq DOMAIN backups
    /\ pc \notin PaperPhases => DOMAIN backups = {}
    /\ pc \in PaperPhases => report.status = "running"

\* A source no process has changed.
SourceOK(f) ==
    /\ pc \in PaperPhases /\ f \in DOMAIN backups => backups[f] = start[f]
    /\ pc \in {"run", "running", "plan", "model"} =>
          files[f] = Held(f) /\ (f \in DOMAIN backups <=> f \in DOMAIN report.patched)
    /\ pc \in {"model", "patch"} /\ f \in DOMAIN shown => shown[f] = Held(f)
    /\ pc = "patch" =>
          /\ files[f] = IF f \in DOMAIN pending \ todo THEN pending[f] ELSE Held(f)
          /\ f \in DOMAIN backups <=> f \in DOMAIN report.patched \cup (DOMAIN pending \ todo)
    /\ pc \in {"undo", "restore"} /\ f \notin todo => files[f] = start[f]

SourcesInv == /\ SourcesTyped
              /\ \A f \in File \ tampered : SourceOK(f)
              /\ EditsAreTransactional

-----------------------------------------------------------------------------
(* Sources                                                                   *)

LEMMA EmptyHasNoDomain == DOMAIN Empty = {}
BY EmptySeq DEF Empty

(* Where no attempt is under way the sources only change by the hand of a process. *)
LEMMA QuietSteps ==
    ASSUME SourcesInv, UNCHANGED <<files, backups, shown, start, tampered, report>>,
           pc \notin PaperPhases, pc' \notin PaperPhases
    PROVE  SourcesInv'
<1> USE DEF SourcesInv
<1>1. SourcesTyped'
  BY DEF SourcesTyped, PaperPhases
<1>2. \A f \in File : f \notin tampered' => SourceOK(f)'
  BY DEF SourceOK, PaperPhases
<1>3. EditsAreTransactional'
  BY DEF EditsAreTransactional, Sources
<1> QED
  BY <1>1, <1>2, <1>3

(* The tasks before the debugging leave the sources alone. *)
LEMMA CodeSteps ==
    ASSUME SourcesInv, CodeStep, UNCHANGED sources
    PROVE  SourcesInv'
<1>1. UNCHANGED <<files, backups, shown, start, tampered, report>>
  BY DEF sources
<1> USE DEF Goes, Forget, End, Complete, Fail, PaperPhases
<1>2. CASE ResolveDependencies
  BY <1>1, <1>2, QuietSteps DEF ResolveDependencies, Starts
<1>3. CASE PrepareRuntime
  BY <1>1, <1>3, QuietSteps DEF PrepareRuntime, Starts
<1>4. CASE BeginInstall
  BY <1>1, <1>4, QuietSteps DEF BeginInstall, Starts
<1>5. CASE Pip
  BY <1>1, <1>5, QuietSteps DEF Pip
<1>6. CASE RecoverByPlan
  BY <1>1, <1>6, QuietSteps DEF RecoverByPlan, Again
<1>7. CASE RecoverByRules
  BY <1>1, <1>7, QuietSteps DEF RecoverByRules, Again
<1>8. CASE BeginExecute
  BY <1>1, <1>8, QuietSteps DEF BeginExecute, Starts
<1>9. CASE RunCode
  BY <1>1, <1>9, QuietSteps DEF RunCode
<1>10. CASE InstallModule
  BY <1>1, <1>10, QuietSteps DEF InstallModule, Rerun, Cannot
<1>11. CASE RepairCode
  BY <1>1, <1>11, QuietSteps DEF RepairCode, Rerun, Cannot
<1>12. CASE GiveUp
  BY <1>1, <1>12, QuietSteps DEF GiveUp
<1> QED
  BY <1>2, <1>3, <1>4, <1>5, <1>6, <1>7, <1>8, <1>9, <1>10, <1>11, <1>12 DEF CodeStep

(* An attempt starts with the sources as they are. *)
LEMMA BeginStep ==
    ASSUME SourcesInv, BeginPaper
    PROVE  SourcesInv'
<1> USE DEF SourcesInv
<1>1. SourcesTyped'
  BY EmptyHasNoDomain DEF BeginPaper, Starts, codeVars, locals, sources, Goes, Forget, ForgetDebug, NoFault, Fault, End, Complete, Fail, Outputs, PaperPhases, SourcesTyped
<1>2. \A f \in File : f \notin tampered' => SourceOK(f)'
  BY EmptyHasNoDomain DEF BeginPaper, Starts, codeVars, locals, sources, Goes, Forget, ForgetDebug, NoFault, Fault, End, Complete, Fail, Outputs, PaperPhases, SourcesTyped, SourceOK, Held
<1>3. EditsAreTransactional'
  BY DEF BeginPaper, Starts, codeVars, locals, sources, Goes, Forget, ForgetDebug, NoFault, Fault, End, Complete, Fail, Outputs, PaperPhases, SourcesTyped, EditsAreTransactional, Sources
<1> QED
  BY <1>1, <1>2, <1>3

(* A run starts. *)
LEMMA StartRunStep ==
    ASSUME SourcesInv, StartRun
    PROVE  SourcesInv'
<1> USE DEF SourcesInv
<1>1. SourcesTyped'
  BY EmptyHasNoDomain DEF StartRun, Fingerprint, codeVars, locals, sources, Goes, Forget, ForgetDebug, NoFault, Fault, End, Complete, Fail, Outputs, PaperPhases, SourcesTyped
<1>2. \A f \in File : f \notin tampered' => SourceOK(f)'
  BY EmptyHasNoDomain DEF StartRun, Fingerprint, codeVars, locals, sources, Goes, Forget, ForgetDebug, NoFault, Fault, End, Complete, Fail, Outputs, PaperPhases, SourcesTyped, SourceOK, Held
<1>3. EditsAreTransactional'
  BY DEF StartRun, Fingerprint, codeVars, locals, sources, Goes, Forget, ForgetDebug, NoFault, Fault, End, Complete, Fail, Outputs, PaperPhases, SourcesTyped, EditsAreTransactional, Sources
<1> QED
  BY <1>1, <1>2, <1>3

(* A run that passed leaves the sources and the patches. *)
LEMMA EndRunStep ==
    ASSUME SourcesInv, EndRun
    PROVE  SourcesInv'
<1> USE DEF SourcesInv
<1>1. SourcesTyped'
  <2>1. UNCHANGED <<files, start>> /\ pc = "running"
    BY DEF EndRun, CompletePaper, RestoreThenFail, Passed, Fingerprint, codeVars, locals, sources, Goes, Forget, ForgetDebug, NoFault, Fault, End, Complete, Fail, Outputs, PaperPhases
  <2>2. CASE CompletePaper("passed") \/ CompletePaper("repaired")
    BY <2>1, <2>2, EmptyHasNoDomain DEF EndRun, CompletePaper, RestoreThenFail, Passed, Fingerprint, codeVars, locals, sources, Goes, Forget, ForgetDebug, NoFault, Fault, End, Complete, Fail, Outputs, PaperPhases, SourcesTyped
  <2>3. CASE RestoreThenFail /\ UNCHANGED <<files, before, shown, pending, backups, report, start, tampered>>
    BY <2>1, <2>3 DEF EndRun, CompletePaper, RestoreThenFail, Passed, Fingerprint, codeVars, locals, sources, Goes, Forget, ForgetDebug, NoFault, Fault, End, Complete, Fail, Outputs, PaperPhases, SourcesTyped
  <2>4. CASE Goes("plan") /\ UNCHANGED <<files, before, shown, pending, backups, report, start, tampered>>
    BY <2>1, <2>4 DEF EndRun, CompletePaper, RestoreThenFail, Passed, Fingerprint, codeVars, locals, sources, Goes, Forget, ForgetDebug, NoFault, Fault, End, Complete, Fail, Outputs, PaperPhases, SourcesTyped
  <2> QED
    BY <2>1, <2>2, <2>3, <2>4 DEF EndRun
<1>2. \A f \in File : f \notin tampered' => SourceOK(f)'
  <2>1. UNCHANGED <<files, start>> /\ pc = "running"
    BY DEF EndRun, CompletePaper, RestoreThenFail, Passed, Fingerprint, codeVars, locals, sources, Goes, Forget, ForgetDebug, NoFault, Fault, End, Complete, Fail, Outputs, PaperPhases
  <2>2. CASE CompletePaper("passed") \/ CompletePaper("repaired")
    BY <2>1, <2>2 DEF EndRun, CompletePaper, RestoreThenFail, Passed, Fingerprint, codeVars, locals, sources, Goes, Forget, ForgetDebug, NoFault, Fault, End, Complete, Fail, Outputs, PaperPhases, SourceOK
  <2>3. CASE RestoreThenFail /\ UNCHANGED <<files, before, shown, pending, backups, report, start, tampered>>
    BY <2>1, <2>3 DEF EndRun, CompletePaper, RestoreThenFail, Passed, Fingerprint, codeVars, locals, sources, Goes, Forget, ForgetDebug, NoFault, Fault, End, Complete, Fail, Outputs, PaperPhases, SourceOK, Held
  <2>4. CASE Goes("plan") /\ UNCHANGED <<files, before, shown, pending, backups, report, start, tampered>>
    BY <2>1, <2>4 DEF EndRun, CompletePaper, RestoreThenFail, Passed, Fingerprint, codeVars, locals, sources, Goes, Forget, ForgetDebug, NoFault, Fault, End, Complete, Fail, Outputs, PaperPhases, SourceOK, Held
  <2> QED
    BY <2>1, <2>2, <2>3, <2>4 DEF EndRun
<1>3. EditsAreTransactional'
  <2>1. UNCHANGED <<files, start>> /\ pc = "running"
    BY DEF EndRun, CompletePaper, RestoreThenFail, Passed, Fingerprint, codeVars, locals, sources, Goes, Forget, ForgetDebug, NoFault, Fault, End, Complete, Fail, Outputs, PaperPhases
  <2>2. CASE CompletePaper("passed") \/ CompletePaper("repaired")
    BY <2>1, <2>2 DEF EndRun, CompletePaper, RestoreThenFail, Passed, Fingerprint, codeVars, locals, sources, Goes, Forget, ForgetDebug, NoFault, Fault, End, Complete, Fail, Outputs, PaperPhases, SourcesTyped, SourceOK, Held, EditsAreTransactional, Sources
  <2>3. CASE RestoreThenFail /\ UNCHANGED <<files, before, shown, pending, backups, report, start, tampered>>
    BY <2>1, <2>3 DEF EndRun, CompletePaper, RestoreThenFail, Passed, Fingerprint, codeVars, locals, sources, Goes, Forget, ForgetDebug, NoFault, Fault, End, Complete, Fail, Outputs, PaperPhases, EditsAreTransactional, Sources
  <2>4. CASE Goes("plan") /\ UNCHANGED <<files, before, shown, pending, backups, report, start, tampered>>
    BY <2>1, <2>4 DEF EndRun, CompletePaper, RestoreThenFail, Passed, Fingerprint, codeVars, locals, sources, Goes, Forget, ForgetDebug, NoFault, Fault, End, Complete, Fail, Outputs, PaperPhases, EditsAreTransactional, Sources
  <2> QED
    BY <2>1, <2>2, <2>3, <2>4 DEF EndRun
<1> QED
  BY <1>1, <1>2, <1>3

(* The model is shown the sources as they are. *)
LEMMA ReadContextStep ==
    ASSUME SourcesInv, ReadContext
    PROVE  SourcesInv'
<1> USE DEF SourcesInv
<1>1. SourcesTyped'
  BY EmptyHasNoDomain DEF ReadContext, Restrict, codeVars, locals, sources, Goes, Forget, ForgetDebug, NoFault, Fault, End, Complete, Fail, Outputs, PaperPhases, SourcesTyped
<1>2. \A f \in File : f \notin tampered' => SourceOK(f)'
  BY EmptyHasNoDomain DEF ReadContext, Restrict, codeVars, locals, sources, Goes, Forget, ForgetDebug, NoFault, Fault, End, Complete, Fail, Outputs, PaperPhases, SourcesTyped, SourceOK, Held
<1>3. EditsAreTransactional'
  BY DEF ReadContext, Restrict, codeVars, locals, sources, Goes, Forget, ForgetDebug, NoFault, Fault, End, Complete, Fail, Outputs, PaperPhases, SourcesTyped, EditsAreTransactional, Sources
<1> QED
  BY <1>1, <1>2, <1>3

(* The model patches what it was shown, or the attempt ends. *)
LEMMA RespondStep ==
    ASSUME SourcesInv, Respond
    PROVE  SourcesInv'
<1> USE DEF SourcesInv
<1>1. SourcesTyped'
  <2>0. pc = "model" /\ UNCHANGED <<files, start, tampered>>
    BY DEF Respond, CompletePaper
  <2>1. CASE /\ DOMAIN pending' \subseteq DOMAIN shown /\ todo' = DOMAIN pending'
             /\ report' = [report EXCEPT !.repairs = @ + 1] /\ Goes("patch")
             /\ UNCHANGED <<shown, backups>>
    BY <2>0, <2>1, EmptyHasNoDomain DEF CompletePaper, RestoreThenFail, codeVars, locals, sources, Goes, Forget, ForgetDebug, NoFault, Fault, End, Complete, Fail, Outputs, PaperPhases, SourcesTyped
  <2>2. CASE CompletePaper("no_change")
    BY <2>0, <2>2, EmptyHasNoDomain DEF CompletePaper, RestoreThenFail, codeVars, locals, sources, Goes, Forget, ForgetDebug, NoFault, Fault, End, Complete, Fail, Outputs, PaperPhases, SourcesTyped
  <2>3. CASE RestoreThenFail /\ UNCHANGED <<shown, pending, backups, report>>
    BY <2>0, <2>3, EmptyHasNoDomain DEF CompletePaper, RestoreThenFail, codeVars, locals, sources, Goes, Forget, ForgetDebug, NoFault, Fault, End, Complete, Fail, Outputs, PaperPhases, SourcesTyped
  <2>4. pending' \in Proposals => DOMAIN pending' \subseteq DOMAIN shown
    BY DEF Proposals, Partial
  <2> QED
    BY <2>0, <2>1, <2>2, <2>3, <2>4 DEF Respond
<1>2. \A f \in File : f \notin tampered' => SourceOK(f)'
  <2>0. pc = "model" /\ UNCHANGED <<files, start, tampered>>
    BY DEF Respond, CompletePaper
  <2>1. CASE /\ DOMAIN pending' \subseteq DOMAIN shown /\ todo' = DOMAIN pending'
             /\ report' = [report EXCEPT !.repairs = @ + 1] /\ Goes("patch")
             /\ UNCHANGED <<shown, backups>>
    BY <2>0, <2>1, EmptyHasNoDomain DEF CompletePaper, RestoreThenFail, codeVars, locals, sources, Goes, Forget, ForgetDebug, NoFault, Fault, End, Complete, Fail, Outputs, PaperPhases, SourcesTyped, SourceOK, Held
  <2>2. CASE CompletePaper("no_change")
    BY <2>0, <2>2, EmptyHasNoDomain DEF CompletePaper, RestoreThenFail, codeVars, locals, sources, Goes, Forget, ForgetDebug, NoFault, Fault, End, Complete, Fail, Outputs, PaperPhases, SourcesTyped, SourceOK, Held
  <2>3. CASE RestoreThenFail /\ UNCHANGED <<shown, pending, backups, report>>
    BY <2>0, <2>3, EmptyHasNoDomain DEF CompletePaper, RestoreThenFail, codeVars, locals, sources, Goes, Forget, ForgetDebug, NoFault, Fault, End, Complete, Fail, Outputs, PaperPhases, SourcesTyped, SourceOK, Held
  <2>4. pending' \in Proposals => DOMAIN pending' \subseteq DOMAIN shown
    BY DEF Proposals, Partial
  <2> QED
    BY <2>0, <2>1, <2>2, <2>3, <2>4 DEF Respond
<1>3. EditsAreTransactional'
  <2>0. pc = "model" /\ UNCHANGED <<files, start, tampered>>
    BY DEF Respond, CompletePaper
  <2>1. CASE /\ DOMAIN pending' \subseteq DOMAIN shown /\ todo' = DOMAIN pending'
             /\ report' = [report EXCEPT !.repairs = @ + 1] /\ Goes("patch")
             /\ UNCHANGED <<shown, backups>>
    BY <2>0, <2>1 DEF CompletePaper, RestoreThenFail, codeVars, locals, sources, Goes, Forget, ForgetDebug, NoFault, Fault, End, Complete, Fail, Outputs, PaperPhases, SourcesTyped, SourceOK, Held, EditsAreTransactional, Sources
  <2>2. CASE CompletePaper("no_change")
    BY <2>0, <2>2 DEF CompletePaper, RestoreThenFail, codeVars, locals, sources, Goes, Forget, ForgetDebug, NoFault, Fault, End, Complete, Fail, Outputs, PaperPhases, SourcesTyped, SourceOK, Held, EditsAreTransactional, Sources
  <2>3. CASE RestoreThenFail /\ UNCHANGED <<shown, pending, backups, report>>
    BY <2>0, <2>3 DEF CompletePaper, RestoreThenFail, codeVars, locals, sources, Goes, Forget, ForgetDebug, NoFault, Fault, End, Complete, Fail, Outputs, PaperPhases, SourcesTyped, SourceOK, Held, EditsAreTransactional, Sources
  <2>4. pending' \in Proposals => DOMAIN pending' \subseteq DOMAIN shown
    BY DEF Proposals, Partial
  <2> QED
    BY <2>0, <2>1, <2>2, <2>3, <2>4 DEF Respond
<1> QED
  BY <1>1, <1>2, <1>3

(* A file is patched after it was backed up. *)
LEMMA WritePatchStep ==
    ASSUME SourcesInv, WritePatch
    PROVE  SourcesInv'
<1> USE DEF SourcesInv
<1>1. SourcesTyped'
  <2> PICK f \in todo : /\ backups' = BackUp(f)
      /\ \/ /\ files' = Written(f, pending[f])
            /\ IF todo # {f} THEN todo' = todo \ {f} /\ Goes("patch") /\ UNCHANGED report
               ELSE /\ IF report.runs < MaxRuns THEN Goes("run") /\ todo' = {}
                       ELSE Goes("restore") /\ todo' = DOMAIN backups'
                    /\ report' = [report EXCEPT !.patched = [g \in DOMAIN @ \cup DOMAIN pending |->
                           IF g \in DOMAIN pending THEN pending[g] ELSE @[g]]]
         \/ Goes("undo") /\ todo' = DOMAIN backups' /\ UNCHANGED <<files, report>>
    BY DEF WritePatch
  <2>1. pc = "patch" /\ UNCHANGED <<shown, pending, start, tampered>>
    BY DEF WritePatch
  <2>2. /\ f \in DOMAIN pending /\ f \in DOMAIN shown /\ f \in File
        /\ todo \subseteq DOMAIN pending /\ DOMAIN pending \subseteq File
    BY <2>1 DEF SourcesTyped
  <2>3. /\ DOMAIN backups' = DOMAIN backups \cup {f}
        /\ \A g \in DOMAIN backups : backups'[g] = backups[g]
        /\ f \notin DOMAIN backups => backups'[f] = shown[f]
    BY DEF BackUp
  <2> QED
    BY <2>1, <2>2, <2>3 DEF Goes, Written, SourcesTyped, PaperPhases
<1>2. \A f \in File : f \notin tampered' => SourceOK(f)'
  <2> PICK f \in todo : /\ backups' = BackUp(f)
      /\ \/ /\ files' = Written(f, pending[f])
            /\ IF todo # {f} THEN todo' = todo \ {f} /\ Goes("patch") /\ UNCHANGED report
               ELSE /\ IF report.runs < MaxRuns THEN Goes("run") /\ todo' = {}
                       ELSE Goes("restore") /\ todo' = DOMAIN backups'
                    /\ report' = [report EXCEPT !.patched = [g \in DOMAIN @ \cup DOMAIN pending |->
                           IF g \in DOMAIN pending THEN pending[g] ELSE @[g]]]
         \/ Goes("undo") /\ todo' = DOMAIN backups' /\ UNCHANGED <<files, report>>
    BY DEF WritePatch
  <2>1. pc = "patch" /\ UNCHANGED <<shown, pending, start, tampered>>
    BY DEF WritePatch
  <2>2. /\ f \in DOMAIN pending /\ f \in DOMAIN shown /\ f \in File
        /\ todo \subseteq DOMAIN pending /\ DOMAIN pending \subseteq File
    BY <2>1 DEF SourcesTyped
  <2>3. /\ DOMAIN backups' = DOMAIN backups \cup {f}
        /\ \A g \in DOMAIN backups : backups'[g] = backups[g]
        /\ f \notin DOMAIN backups => backups'[f] = shown[f]
    BY DEF BackUp
  <2> SUFFICES ASSUME NEW g \in File, g \notin tampered
             PROVE  SourceOK(g)'
    BY <2>1
  <2>4. SourceOK(g)
    BY DEF SourcesInv
  <2>5. g \in DOMAIN backups' => backups'[g] = start[g]
    BY <2>1, <2>2, <2>3, <2>4 DEF SourceOK, Held, PaperPhases
  <2>6. CASE Goes("undo") /\ todo' = DOMAIN backups' /\ UNCHANGED <<files, report>>
    BY <2>1, <2>2, <2>3, <2>4, <2>5, <2>6 DEF Goes, SourceOK, Held, PaperPhases
  <2>7. CASE files' = Written(f, pending[f]) /\ todo # {f} /\ todo' = todo \ {f} /\ Goes("patch") /\ UNCHANGED report
    BY <2>1, <2>2, <2>3, <2>4, <2>5, <2>7 DEF Goes, Written, SourcesTyped, SourceOK, Held, PaperPhases
  <2>8. CASE /\ files' = Written(f, pending[f]) /\ todo = {f}
             /\ pc' = "run" \/ (pc' = "restore" /\ todo' = DOMAIN backups')
             /\ report' = [report EXCEPT !.patched = [h \in DOMAIN @ \cup DOMAIN pending |->
                           IF h \in DOMAIN pending THEN pending[h] ELSE @[h]]]
    <3>1. /\ DOMAIN (report'.patched) = DOMAIN report.patched \cup DOMAIN pending
          /\ \A h \in DOMAIN (report'.patched) : report'.patched[h] =
                  IF h \in DOMAIN pending THEN pending[h] ELSE report.patched[h]
      BY <2>8 DEF SourcesTyped
    <3>2. files'[g] = Held(g)'
      BY <2>1, <2>2, <2>4, <2>8, <3>1 DEF Written, SourcesTyped, SourceOK, Held
    <3>3. g \in DOMAIN backups' <=> g \in DOMAIN (report'.patched)
      BY <2>1, <2>2, <2>3, <2>4, <2>8, <3>1 DEF SourceOK
    <3>4. g \notin DOMAIN backups' => files'[g] = start[g]
      BY <2>1, <3>2, <3>3 DEF Held
    <3> QED
      BY <2>1, <2>5, <2>8, <3>2, <3>3, <3>4 DEF SourceOK, PaperPhases
  <2> QED
    BY <2>6, <2>7, <2>8 DEF Goes
<1>3. EditsAreTransactional'
  <2>1. pc = "patch" /\ report'.status = report.status
    BY DEF WritePatch, SourcesTyped
  <2> QED
    BY <2>1 DEF SourcesTyped, PaperPhases, EditsAreTransactional
<1> QED
  BY <1>1, <1>2, <1>3

(* A file is put back, or the attempt ends. *)
LEMMA RestoreStep ==
    ASSUME SourcesInv, Restore
    PROVE  SourcesInv'
<1> USE DEF SourcesInv
<1>1. SourcesTyped'
  <2>0. pc \in {"undo", "restore"} /\ UNCHANGED <<start, tampered>>
    BY DEF Restore, FailPaper
  <2>1. CASE \E f \in todo : /\ files' = Written(f, backups[f]) /\ todo' = todo \ {f}
                               /\ UNCHANGED <<pc, shown, pending, backups, report>>
    BY <2>0, <2>1, EmptyHasNoDomain DEF Written, FailPaper, RestoreThenFail, codeVars, locals, sources, Goes, Forget, ForgetDebug, NoFault, Fault, End, Complete, Fail, Outputs, PaperPhases, SourcesTyped
  <2>2. CASE RestoreThenFail /\ UNCHANGED <<files, shown, pending, backups, report>>
    BY <2>0, <2>2, EmptyHasNoDomain DEF Written, FailPaper, RestoreThenFail, codeVars, locals, sources, Goes, Forget, ForgetDebug, NoFault, Fault, End, Complete, Fail, Outputs, PaperPhases, SourcesTyped
  <2>3. CASE pc = "restore" /\ todo = {} /\ FailPaper("failed") /\ UNCHANGED files
    BY <2>0, <2>3, EmptyHasNoDomain DEF Written, FailPaper, RestoreThenFail, codeVars, locals, sources, Goes, Forget, ForgetDebug, NoFault, Fault, End, Complete, Fail, Outputs, PaperPhases, SourcesTyped
  <2>4. CASE FailPaper("unrestored") /\ UNCHANGED files
    BY <2>0, <2>4, EmptyHasNoDomain DEF Written, FailPaper, RestoreThenFail, codeVars, locals, sources, Goes, Forget, ForgetDebug, NoFault, Fault, End, Complete, Fail, Outputs, PaperPhases, SourcesTyped
  <2> QED
    BY <2>0, <2>1, <2>2, <2>3, <2>4 DEF Restore
<1>2. \A f \in File : f \notin tampered' => SourceOK(f)'
  <2>0. pc \in {"undo", "restore"} /\ UNCHANGED <<start, tampered>>
    BY DEF Restore, FailPaper
  <2>1. CASE \E f \in todo : /\ files' = Written(f, backups[f]) /\ todo' = todo \ {f}
                               /\ UNCHANGED <<pc, shown, pending, backups, report>>
    BY <2>0, <2>1, EmptyHasNoDomain DEF Written, FailPaper, RestoreThenFail, codeVars, locals, sources, Goes, Forget, ForgetDebug, NoFault, Fault, End, Complete, Fail, Outputs, PaperPhases, SourcesTyped, SourceOK, Held
  <2>2. CASE RestoreThenFail /\ UNCHANGED <<files, shown, pending, backups, report>>
    BY <2>0, <2>2, EmptyHasNoDomain DEF Written, FailPaper, RestoreThenFail, codeVars, locals, sources, Goes, Forget, ForgetDebug, NoFault, Fault, End, Complete, Fail, Outputs, PaperPhases, SourcesTyped, SourceOK, Held
  <2>3. CASE pc = "restore" /\ todo = {} /\ FailPaper("failed") /\ UNCHANGED files
    BY <2>0, <2>3, EmptyHasNoDomain DEF Written, FailPaper, RestoreThenFail, codeVars, locals, sources, Goes, Forget, ForgetDebug, NoFault, Fault, End, Complete, Fail, Outputs, PaperPhases, SourcesTyped, SourceOK, Held
  <2>4. CASE FailPaper("unrestored") /\ UNCHANGED files
    BY <2>0, <2>4, EmptyHasNoDomain DEF Written, FailPaper, RestoreThenFail, codeVars, locals, sources, Goes, Forget, ForgetDebug, NoFault, Fault, End, Complete, Fail, Outputs, PaperPhases, SourcesTyped, SourceOK, Held
  <2> QED
    BY <2>0, <2>1, <2>2, <2>3, <2>4 DEF Restore
<1>3. EditsAreTransactional'
  <2>0. pc \in {"undo", "restore"} /\ UNCHANGED <<start, tampered>>
    BY DEF Restore, FailPaper
  <2>1. CASE \E f \in todo : /\ files' = Written(f, backups[f]) /\ todo' = todo \ {f}
                               /\ UNCHANGED <<pc, shown, pending, backups, report>>
    BY <2>0, <2>1 DEF Written, FailPaper, RestoreThenFail, codeVars, locals, sources, Goes, Forget, ForgetDebug, NoFault, Fault, End, Complete, Fail, Outputs, PaperPhases, SourcesTyped, SourceOK, Held, EditsAreTransactional, Sources
  <2>2. CASE RestoreThenFail /\ UNCHANGED <<files, shown, pending, backups, report>>
    BY <2>0, <2>2 DEF Written, FailPaper, RestoreThenFail, codeVars, locals, sources, Goes, Forget, ForgetDebug, NoFault, Fault, End, Complete, Fail, Outputs, PaperPhases, SourcesTyped, SourceOK, Held, EditsAreTransactional, Sources
  <2>3. CASE pc = "restore" /\ todo = {} /\ FailPaper("failed") /\ UNCHANGED files
    BY <2>0, <2>3 DEF Written, FailPaper, RestoreThenFail, codeVars, locals, sources, Goes, Forget, ForgetDebug, NoFault, Fault, End, Complete, Fail, Outputs, PaperPhases, SourcesTyped, SourceOK, Held, EditsAreTransactional, Sources
  <2>4. CASE FailPaper("unrestored") /\ UNCHANGED files
    BY <2>0, <2>4 DEF Written, FailPaper, RestoreThenFail, codeVars, locals, sources, Goes, Forget, ForgetDebug, NoFault, Fault, End, Complete, Fail, Outputs, PaperPhases, SourcesTyped, SourceOK, Held, EditsAreTransactional, Sources
  <2> QED
    BY <2>0, <2>1, <2>2, <2>3, <2>4 DEF Restore
<1> QED
  BY <1>1, <1>2, <1>3

(* A process changes a source. *)
LEMMA TamperStep ==
    ASSUME SourcesInv, Tamper
    PROVE  SourcesInv'
<1> USE DEF SourcesInv
<1>1. SourcesTyped'
  BY EmptyHasNoDomain DEF Tamper, Active, codeVars, locals, sources, Goes, Forget, ForgetDebug, NoFault, Fault, End, Complete, Fail, Outputs, PaperPhases, SourcesTyped
<1>2. \A f \in File : f \notin tampered' => SourceOK(f)'
  BY EmptyHasNoDomain DEF Tamper, Active, codeVars, locals, sources, Goes, Forget, ForgetDebug, NoFault, Fault, End, Complete, Fail, Outputs, PaperPhases, SourcesTyped, SourceOK, Held
<1>3. EditsAreTransactional'
  BY DEF Tamper, Active, codeVars, locals, sources, Goes, Forget, ForgetDebug, NoFault, Fault, End, Complete, Fail, Outputs, PaperPhases, SourcesTyped, EditsAreTransactional, Sources
<1> QED
  BY <1>1, <1>2, <1>3

(* The process dies in the middle of an attempt. *)
LEMMA InterruptStep ==
    ASSUME SourcesInv, Interrupt, ForgetDebug, UNCHANGED <<files, orphan, start, tampered>>, report' = [report EXCEPT !.status = "interrupted"]
    PROVE  SourcesInv'
<1> USE DEF SourcesInv
<1>1. SourcesTyped'
  BY EmptyHasNoDomain DEF Interrupt, codeVars, locals, sources, Goes, Forget, ForgetDebug, NoFault, Fault, End, Complete, Fail, Outputs, PaperPhases, SourcesTyped
<1>2. \A f \in File : f \notin tampered' => SourceOK(f)'
  BY EmptyHasNoDomain DEF Interrupt, codeVars, locals, sources, Goes, Forget, ForgetDebug, NoFault, Fault, End, Complete, Fail, Outputs, PaperPhases, SourcesTyped, SourceOK, Held
<1>3. EditsAreTransactional'
  BY DEF Interrupt, codeVars, locals, sources, Goes, Forget, ForgetDebug, NoFault, Fault, End, Complete, Fail, Outputs, PaperPhases, SourcesTyped, EditsAreTransactional, Sources
<1> QED
  BY <1>1, <1>2, <1>3

(* The clock and the scheduler leave the sources alone. *)
LEMMA TimeSteps ==
    ASSUME SourcesInv, (Expire \/ Repeat) /\ UNCHANGED sources
    PROVE  SourcesInv'
<1>1. UNCHANGED <<files, backups, shown, start, tampered, report, pending, todo>>
  BY DEF sources
<1>2. CASE Expire
  BY <1>1, <1>2 DEF Expire, SourcesInv, SourcesTyped, SourceOK, Held, EditsAreTransactional, Sources
<1>3. CASE Repeat
  BY <1>1, <1>3, QuietSteps DEF Repeat, PaperPhases
<1> QED
  BY <1>2, <1>3

LEMMA SourcesInit == ASSUME Init PROVE SourcesInv
<1>1. SourcesTyped
  BY EmptyHasNoDomain, DebugAssumption DEF Init, CodeInit, SourcesTyped, PaperPhases
<1>2. \A f \in File \ tampered : SourceOK(f)
  BY DEF Init, CodeInit, SourceOK, PaperPhases
<1>3. EditsAreTransactional
  BY DEF Init, EditsAreTransactional
<1> QED
  BY <1>1, <1>2, <1>3 DEF SourcesInv

LEMMA SourcesStep == ASSUME SourcesInv, [Next]_vars PROVE SourcesInv'
<1>1. CASE CodeStep /\ UNCHANGED sources
  BY <1>1, CodeSteps
<1>2. CASE PaperStep
  BY <1>2, BeginStep, StartRunStep, EndRunStep, ReadContextStep, RespondStep, WritePatchStep,
     RestoreStep DEF PaperStep
<1>3. CASE Environment
  BY <1>3, TimeSteps, InterruptStep, TamperStep DEF Environment
<1>4. CASE UNCHANGED vars
  <2>1. UNCHANGED <<pc, files, backups, shown, start, tampered, report, pending, todo>>
    BY <1>4 DEF vars, codeVars, sources
  <2> QED
    BY <2>1 DEF SourcesInv, SourcesTyped, SourceOK, Held, EditsAreTransactional, Sources
<1> QED
  BY <1>1, <1>2, <1>3, <1>4 DEF Next, Step

(* An attempt that completed leaves the sources it started with and the patches it   *)
(* reports, one that failed the sources it started with, for any number of runs,     *)
(* repairs and files, wherever a write or the process fails, except where a process  *)
(* of the repository wrote (paper_debug_harness.go:398-456, 510-549).                         *)
THEOREM RepairsAreTransactional == Spec => []EditsAreTransactional
<1>1. Init => SourcesInv
  BY SourcesInit
<1>2. SourcesInv /\ [Next]_vars => SourcesInv'
  BY SourcesStep
<1>3. SourcesInv => EditsAreTransactional
  BY DEF SourcesInv
<1> QED
  BY <1>1, <1>2, <1>3, PTL DEF Spec

-----------------------------------------------------------------------------
(* The runtime                                                               *)

ContainersOK ==
    /\ Created \in Nat /\ DOMAIN containers = 1..Created
    /\ \A c \in DOMAIN containers : DOMAIN containers[c] = {"live", "image", "has"}

\* Where the tasks are; nothing is prepared before the installation is over, and what
\* runs code of its own never prepares anything.
ControlOK ==
    /\ DOMAIN artifacts = {"spec", "runtime", "prepared", "packages"}
    /\ task \in {"resolve", "prepare", "install"} \/ project.kind = "direct" =>
          artifacts.prepared = NoContainer
    /\ project.kind = "direct" => task \in {"execute", "none"}
    /\ pc \in {"pip", "recover", "rules"} => task = "install" /\ Normalized(artifacts.spec) # {}
    /\ pc \in {"code", "mend"} => task = "execute"
    /\ pc \in PaperPhases => task \in {"execute", "fix"} /\ project.kind = "paper"
    /\ ephemeral => project.kind = "direct"

\* The container an installation with nothing to install publishes is still there, and so
\* is the one the plan was given.
BaseIsLive ==
    /\ task = "install" /\ Normalized(artifacts.spec) = {} => Live(artifacts.runtime)
    /\ project.given /\ task \in {"resolve", "prepare"} => Live(artifacts.runtime)

Preparing == {"resolve", "prepare", "install"}

RuntimeInv == ContainersOK /\ ControlOK /\ BaseIsLive /\ PreparedRuntimeIsLive

\* A step in which no container dies or loses a package.
Grown == \A c \in DOMAIN containers :
            /\ c \in DOMAIN containers'
            /\ Live(c) => Live(c)'
            /\ containers[c].has \subseteq containers'[c].has

LEMMA GrownKeeps ==
    ASSUME BaseIsLive, PreparedRuntimeIsLive, Grown, artifacts' = artifacts, project' = project,
           task' = task \/ task' \notin Preparing
    PROVE  BaseIsLive' /\ PreparedRuntimeIsLive'
<1>1. Normalized(artifacts.spec)' = Normalized(artifacts.spec)
  BY DEF Normalized
<1>2. \A c : Live(c) => Live(c)'
  <2>1. \A c : Live(c) => c \in DOMAIN containers
    BY DEF Live
  <2> QED
    BY <2>1 DEF Grown
<1> QED
  BY <1>1, <1>2 DEF BaseIsLive, PreparedRuntimeIsLive, Live, Grown, Preparing

(* Where nothing is published yet and the list is not empty, a container may die. *)
LEMMA NothingPublished ==
    ASSUME artifacts' = artifacts, artifacts.prepared = NoContainer,
           \/ task' \notin Preparing
           \/ task' = "install" /\ Normalized(artifacts.spec) # {}
    PROVE  BaseIsLive' /\ PreparedRuntimeIsLive'
<1>1. Normalized(artifacts.spec)' = Normalized(artifacts.spec)
  BY DEF Normalized
<1> QED
  BY <1>1 DEF BaseIsLive, PreparedRuntimeIsLive, Preparing

LEMMA NewContainer ==
    ASSUME ContainersOK, NEW image, containers' = WithNew(containers, image)
    PROVE  ContainersOK' /\ Grown /\ Created' = Created + 1 /\ \A k : k = Created + 1 => Live(k)'
<1>1. DOMAIN containers' = 1..(Created + 1)
  BY DEF WithNew, ContainersOK
<1>2. Created' = Created + 1
  BY <1>1, FS_Interval DEF Created, ContainersOK
<1>3. /\ \A c \in DOMAIN containers : containers'[c] = containers[c]
      /\ containers'[Created + 1] = [live |-> TRUE, image |-> image, has |-> {}]
  BY <1>1 DEF WithNew, ContainersOK
<1>4. \A c \in DOMAIN containers' : DOMAIN containers'[c] = {"live", "image", "has"}
  BY <1>1, <1>3 DEF ContainersOK
<1>5. ContainersOK'
  BY <1>1, <1>2, <1>4 DEF ContainersOK
<1>6. \A c \in DOMAIN containers : c \in DOMAIN containers' /\ (Live(c) => Live(c)')
  BY <1>1, <1>3 DEF ContainersOK, Live
<1>7. Created' \in DOMAIN containers' /\ containers'[Created'].live = TRUE
  BY <1>1, <1>2, <1>3 DEF ContainersOK
<1>8. \A k : k = Created + 1 => Live(k)'
  BY <1>2, <1>7 DEF Live
<1> QED
  BY <1>2, <1>3, <1>5, <1>6, <1>8 DEF Grown

LEMMA SameContainers ==
    ASSUME ContainersOK, containers' = containers
    PROVE  ContainersOK' /\ Grown
BY DEF ContainersOK, Created, Grown, Live

LEMMA FailedCreation ==
    ASSUME ContainersOK, NEW image, CreateFails(image)
    PROVE  ContainersOK' /\ Grown
BY NewContainer, SameContainers DEF CreateFails

LEMMA DeadContainer ==
    ASSUME ContainersOK, NEW c, containers' = Without(containers, c)
    PROVE  ContainersOK'
<1>1. DOMAIN containers' = DOMAIN containers
  BY DEF Without
<1>2. Created' = Created
  BY <1>1 DEF Created
<1> QED
  BY <1>1, <1>2 DEF ContainersOK, Without

LEMMA ReplacedContainer ==
    ASSUME ContainersOK, Upgrade
    PROVE  ContainersOK'
<1> DEFINE grown == WithNew(containers, "upgraded")
<1>1. containers' = grown \/ containers' = Without(grown, session)
  BY DEF Upgrade
<1>2. CASE containers' = grown
  BY <1>2, NewContainer
<1>3. CASE containers' = Without(grown, session)
  <2>1. DOMAIN grown = 1..(Created + 1)
    BY DEF WithNew, ContainersOK
  <2>2. DOMAIN containers' = 1..(Created + 1)
    BY <1>3, <2>1 DEF Without
  <2>3. Created' = Created + 1
    <3>1. Cardinality(1..(Created + 1)) = Created + 1
      BY FS_Interval DEF ContainersOK
    <3> QED
      BY <2>2, <3>1 DEF Created
  <2>4. \A c \in DOMAIN grown : DOMAIN grown[c] = {"live", "image", "has"}
    BY <2>1 DEF WithNew, ContainersOK
  <2> HIDE DEF grown
  <2>5. \A c \in DOMAIN containers' : DOMAIN containers'[c] = {"live", "image", "has"}
    BY <1>3, <2>1, <2>2, <2>4 DEF Without
  <2> QED
    BY <2>2, <2>3, <2>5 DEF ContainersOK
<1> QED
  BY <1>1, <1>2, <1>3

LEMMA Installed ==
    ASSUME ContainersOK, Live(session), NEW reqs,
           containers' = [containers EXCEPT ![session].has = @ \cup reqs]
    PROVE  ContainersOK' /\ Grown /\ (\A k : k = session => Live(k)') /\ reqs \subseteq containers'[session].has
<1>1. DOMAIN containers' = DOMAIN containers
  OBVIOUS
<1>2. Created' = Created
  BY <1>1 DEF Created
<1>3. \A c \in DOMAIN containers : c # session => containers'[c] = containers[c]
  OBVIOUS
<1>4. /\ containers'[session].live = containers[session].live
      /\ containers'[session].has = containers[session].has \cup reqs
      /\ DOMAIN containers'[session] = DOMAIN containers[session]
  BY DEF ContainersOK, Live
<1>5. ContainersOK'
  BY <1>1, <1>2, <1>3, <1>4 DEF ContainersOK, Live
<1>6. \A c \in DOMAIN containers : Live(c) => Live(c)'
  BY <1>1, <1>3, <1>4 DEF Live
<1> QED
  BY <1>1, <1>3, <1>4, <1>5, <1>6 DEF Grown, Live

(* Debugging makes and removes no container. *)
LEMMA PaperSteps ==
    ASSUME RuntimeInv, PaperStep
    PROVE  RuntimeInv'
<1> USE DEF RuntimeInv
<1>1. ControlOK'
  <2>1. artifacts' = artifacts /\ project' = project
    BY DEF PaperStep, BeginPaper, StartRun, EndRun, ReadContext, Respond, WritePatch, Restore, CompletePaper, FailPaper, RestoreThenFail, codeVars, locals, sources, Goes, Forget, ForgetDebug, NoFault, Fault, End, Complete, Fail, FollowUp, Starts, PaperPhases, ControlOK
  <2>2. Normalized(artifacts.spec)' = Normalized(artifacts.spec)
    BY <2>1 DEF Normalized
  <2> QED
    BY <2>1, <2>2 DEF PaperStep, BeginPaper, StartRun, EndRun, ReadContext, Respond, WritePatch, Restore, CompletePaper, FailPaper, RestoreThenFail, codeVars, locals, sources, Goes, Forget, ForgetDebug, NoFault, Fault, End, Complete, Fail, FollowUp, Starts, PaperPhases, ControlOK
<1>2. ContainersOK'
  <2>1. containers' = containers
    BY DEF PaperStep, BeginPaper, StartRun, EndRun, ReadContext, Respond, WritePatch, Restore, CompletePaper, FailPaper, RestoreThenFail, codeVars, locals, sources, Goes, Forget, ForgetDebug, NoFault, Fault, End, Complete, Fail, FollowUp, Starts, PaperPhases, ControlOK
  <2> QED
    BY <2>1, SameContainers
<1>3. BaseIsLive' /\ PreparedRuntimeIsLive'
  <2>1. containers' = containers /\ artifacts' = artifacts /\ project' = project
    BY DEF PaperStep, BeginPaper, StartRun, EndRun, ReadContext, Respond, WritePatch, Restore, CompletePaper, FailPaper, RestoreThenFail, codeVars, locals, sources, Goes, Forget, ForgetDebug, NoFault, Fault, End, Complete, Fail, FollowUp, Starts, PaperPhases, ControlOK
  <2>2. task' = task \/ task' \notin Preparing
    BY DEF Preparing, PaperStep, BeginPaper, StartRun, EndRun, ReadContext, Respond, WritePatch, Restore, CompletePaper, FailPaper, RestoreThenFail, codeVars, locals, sources, Goes, Forget, ForgetDebug, NoFault, Fault, End, Complete, Fail, FollowUp, Starts, PaperPhases, ControlOK
  <2> QED
    BY <2>1, <2>2, SameContainers, GrownKeeps
<1> QED
  BY <1>1, <1>2, <1>3

(* Neither does the environment. *)
LEMMA EnvironmentSteps ==
    ASSUME RuntimeInv, Environment
    PROVE  RuntimeInv'
<1> USE DEF RuntimeInv
<1>1. ControlOK'
  <2>1. artifacts' = artifacts /\ project' = project
    BY DEF Environment, Expire, Interrupt, Repeat, Tamper, Active, codeVars, locals, sources, Goes, Forget, ForgetDebug, NoFault, Fault, End, Complete, Fail, FollowUp, Starts, PaperPhases, ControlOK
  <2>2. Normalized(artifacts.spec)' = Normalized(artifacts.spec)
    BY <2>1 DEF Normalized
  <2> QED
    BY <2>1, <2>2 DEF Environment, Expire, Interrupt, Repeat, Tamper, Active, codeVars, locals, sources, Goes, Forget, ForgetDebug, NoFault, Fault, End, Complete, Fail, FollowUp, Starts, PaperPhases, ControlOK
<1>2. ContainersOK'
  <2>1. containers' = containers
    BY DEF Environment, Expire, Interrupt, Repeat, Tamper, Active, codeVars, locals, sources, Goes, Forget, ForgetDebug, NoFault, Fault, End, Complete, Fail, FollowUp, Starts, PaperPhases, ControlOK
  <2> QED
    BY <2>1, SameContainers
<1>3. BaseIsLive' /\ PreparedRuntimeIsLive'
  <2>1. containers' = containers /\ artifacts' = artifacts /\ project' = project
    BY DEF Environment, Expire, Interrupt, Repeat, Tamper, Active, codeVars, locals, sources, Goes, Forget, ForgetDebug, NoFault, Fault, End, Complete, Fail, FollowUp, Starts, PaperPhases, ControlOK
  <2>2. task' = task \/ task' \notin Preparing
    BY DEF Preparing, Environment, Expire, Interrupt, Repeat, Tamper, Active, codeVars, locals, sources, Goes, Forget, ForgetDebug, NoFault, Fault, End, Complete, Fail, FollowUp, Starts, PaperPhases, ControlOK
  <2> QED
    BY <2>1, <2>2, SameContainers, GrownKeeps
<1> QED
  BY <1>1, <1>2, <1>3

(* The dependencies are resolved. *)
LEMMA ResolveStep ==
    ASSUME RuntimeInv, ResolveDependencies
    PROVE  RuntimeInv'
<1> USE DEF RuntimeInv
<1>1. ControlOK'
  BY DEF ResolveDependencies, Outputs, codeVars, locals, sources, Goes, Forget, ForgetDebug, NoFault, Fault, End, Complete, Fail, FollowUp, Starts, PaperPhases, ControlOK
<1>2. ContainersOK'
  <2>1. containers' = containers
    BY DEF ResolveDependencies
  <2> QED
    BY <2>1, SameContainers
<1>3. BaseIsLive' /\ PreparedRuntimeIsLive'
  <2>1. /\ task = "resolve" /\ task' = "prepare" /\ project' = project
        /\ artifacts'.prepared = NoContainer /\ artifacts'.runtime = artifacts.runtime
    BY DEF ResolveDependencies, Outputs, codeVars, locals, sources, Goes, Forget, ForgetDebug, NoFault, Fault, End, Complete, Fail, FollowUp, Starts, PaperPhases, ControlOK
  <2>2. Live(artifacts.runtime) => Live(artifacts.runtime)'
    BY <2>1 DEF ResolveDependencies, Live
  <2> QED
    BY <2>1, <2>2 DEF BaseIsLive, PreparedRuntimeIsLive
<1> QED
  BY <1>1, <1>2, <1>3

(* A runtime is made. *)
LEMMA PrepareStep ==
    ASSUME RuntimeInv, PrepareRuntime
    PROVE  RuntimeInv'
<1> USE DEF RuntimeInv
<1>1. ControlOK'
  BY DEF PrepareRuntime, Outputs, codeVars, locals, sources, Goes, Forget, ForgetDebug, NoFault, Fault, End, Complete, Fail, FollowUp, Starts, PaperPhases, ControlOK
<1>2. ContainersOK'
  BY NewContainer, FailedCreation, SameContainers DEF PrepareRuntime
<1>3. BaseIsLive' /\ PreparedRuntimeIsLive'
  <2>1. task = "prepare" /\ project' = project /\ artifacts'.prepared = NoContainer
    BY DEF PrepareRuntime, Outputs, codeVars, locals, sources, Goes, Forget, ForgetDebug, NoFault, Fault, End, Complete, Fail, FollowUp, Starts, PaperPhases, ControlOK
  <2>2. CASE project.given
    <3>1. containers' = containers /\ artifacts'.runtime = artifacts.runtime
      BY <2>2 DEF PrepareRuntime, Outputs, Input, ControlOK
    <3>2. Live(artifacts.runtime)'
      BY <2>1, <2>2, <3>1 DEF BaseIsLive, Live
    <3> QED
      BY <2>1, <3>2 DEF BaseIsLive, PreparedRuntimeIsLive
  <2>3. CASE ~project.given /\ task' # "install"
    BY <2>1, <2>3 DEF BaseIsLive, PreparedRuntimeIsLive
  <2>4. CASE ~project.given /\ task' = "install"
    <3>1. containers' = WithNew(containers, "base") /\ artifacts'.runtime = Created + 1
      BY <2>4 DEF PrepareRuntime, Outputs, codeVars, locals, sources, Goes, Forget, ForgetDebug, NoFault, Fault, End, Complete, Fail, FollowUp, Starts, PaperPhases, ControlOK
    <3>2. Live(artifacts.runtime)'
      BY <3>1, NewContainer DEF Live
    <3> QED
      BY <2>1, <3>2 DEF BaseIsLive, PreparedRuntimeIsLive
  <2> QED
    BY <2>2, <2>3, <2>4
<1> QED
  BY <1>1, <1>2, <1>3

(* An installation with nothing to install publishes the runtime. *)
LEMMA BeginInstallStep ==
    ASSUME RuntimeInv, BeginInstall
    PROVE  RuntimeInv'
<1> USE DEF RuntimeInv
<1>1. ControlOK'
  <2>1. artifacts'.spec = artifacts.spec /\ DOMAIN artifacts' = DOMAIN artifacts
    BY DEF BeginInstall, Publish, Input, Outputs, codeVars, locals, sources, Goes, Forget, ForgetDebug, NoFault, Fault, End, Complete, Fail, FollowUp, Starts, PaperPhases, ControlOK
  <2>2. Normalized(artifacts.spec)' = Normalized(artifacts.spec)
    BY <2>1 DEF Normalized
  <2> QED
    BY <2>1, <2>2 DEF BeginInstall, Publish, Input, Outputs, codeVars, locals, sources, Goes, Forget, ForgetDebug, NoFault, Fault, End, Complete, Fail, FollowUp, Starts, PaperPhases, ControlOK
<1>2. ContainersOK'
  <2>1. containers' = containers
    BY DEF BeginInstall
  <2> QED
    BY <2>1, SameContainers
<1>3. BaseIsLive' /\ PreparedRuntimeIsLive'
  <2>1. task = "install" /\ containers' = containers
    BY DEF BeginInstall, Starts
  <2>2. CASE artifacts' = artifacts
    <3>1. project' = project /\ (task' = task \/ task' \notin Preparing)
      BY <2>1, <2>2 DEF BeginInstall, Preparing, Publish, Input, Outputs, Goes, Forget, End, Complete, Fail, FollowUp
    <3> QED
      BY <2>1, <2>2, <3>1, SameContainers, GrownKeeps
  <2>3. CASE artifacts' # artifacts
    <3>1. Normalized(artifacts.spec) = {} /\ task' \in {"execute"}
      BY <2>3 DEF BeginInstall, Publish, Input, Outputs, codeVars, locals, sources, Goes, Forget, ForgetDebug, NoFault, Fault, End, Complete, Fail, FollowUp, Starts, PaperPhases, ControlOK
    <3>2. artifacts'.prepared = artifacts.runtime /\ artifacts'.packages = {}
      BY <2>3 DEF BeginInstall, Publish, Input, Outputs, codeVars, locals, sources, Goes, Forget, ForgetDebug, NoFault, Fault, End, Complete, Fail, FollowUp, Starts, PaperPhases, ControlOK
    <3>3. \A k : Live(k) => Live(k)'
      BY <2>1 DEF Live
    <3>4. Live(artifacts.prepared)'
      BY <2>1, <3>1, <3>2, <3>3 DEF BaseIsLive
    <3> QED
      BY <3>1, <3>2, <3>4 DEF BaseIsLive, PreparedRuntimeIsLive
  <2> QED
    BY <2>2, <2>3
<1> QED
  BY <1>1, <1>2, <1>3

(* What is published has what was installed. *)
LEMMA PipStep ==
    ASSUME RuntimeInv, Pip
    PROVE  RuntimeInv'
<1> USE DEF RuntimeInv
<1>1. ControlOK'
  <2>1. artifacts'.spec = artifacts.spec /\ DOMAIN artifacts' = DOMAIN artifacts
    BY DEF Pip, Publish, Input, Outputs, codeVars, locals, sources, Goes, Forget, ForgetDebug, NoFault, Fault, End, Complete, Fail, FollowUp, Starts, PaperPhases, ControlOK
  <2>2. Normalized(artifacts.spec)' = Normalized(artifacts.spec)
    BY <2>1 DEF Normalized
  <2> QED
    BY <2>1, <2>2 DEF Pip, Publish, Input, Outputs, codeVars, locals, sources, Goes, Forget, ForgetDebug, NoFault, Fault, End, Complete, Fail, FollowUp, Starts, PaperPhases, ControlOK
<1>2. ContainersOK'
  <2>1. containers' = containers \/ /\ containers' = [containers EXCEPT ![session].has = @ \cup dependencies]
                                    /\ Live(session)
    BY DEF Pip, CommandResults, Exits
  <2> QED
    BY <2>1, SameContainers, Installed
<1>3. BaseIsLive' /\ PreparedRuntimeIsLive'
  <2>1. /\ task = "install" /\ Normalized(artifacts.spec) # {} /\ artifacts.prepared = NoContainer
        /\ task' = "install" \/ task' \notin Preparing
    BY DEF Preparing, Pip, Publish, Input, Outputs, codeVars, locals, sources, Goes, Forget, ForgetDebug, NoFault, Fault, End, Complete, Fail, FollowUp, Starts, PaperPhases, ControlOK
  <2>2. CASE artifacts' = artifacts
    BY <2>1, <2>2, NothingPublished
  <2>3. CASE artifacts' # artifacts
    <3>1. /\ containers' = [containers EXCEPT ![session].has = @ \cup dependencies]
          /\ Live(session) /\ Publish(session, dependencies) /\ Complete
      BY <2>3 DEF Pip, CommandResults, Exits
    <3>2. artifacts'.prepared = session /\ artifacts'.packages = dependencies /\ task' = "execute"
      BY <2>1, <3>1 DEF Pip, Publish, Input, Outputs, codeVars, locals, sources, Goes, Forget, ForgetDebug, NoFault, Fault, End, Complete, Fail, FollowUp, Starts, PaperPhases, ControlOK
    <3>3. (\A k : k = session => Live(k)') /\ dependencies \subseteq containers'[session].has
      BY <3>1, Installed
    <3>4. Live(artifacts.prepared)'
      BY <3>2, <3>3
    <3> QED
      BY <3>2, <3>3, <3>4 DEF BaseIsLive, PreparedRuntimeIsLive
  <2> QED
    BY <2>2, <2>3
<1> QED
  BY <1>1, <1>2, <1>3

(* A recovery may put another container in place of the one that is being prepared. *)
LEMMA RecoverStep ==
    ASSUME RuntimeInv, RecoverByPlan \/ RecoverByRules
    PROVE  RuntimeInv'
<1> USE DEF RuntimeInv
<1>1. ControlOK'
  <2>1. artifacts' = artifacts /\ project' = project
    BY DEF RecoverByPlan, RecoverByRules, Again, Upgrade, CreateFails, codeVars, locals, sources, Goes, Forget, ForgetDebug, NoFault, Fault, End, Complete, Fail, FollowUp, Starts, PaperPhases, ControlOK
  <2>2. Normalized(artifacts.spec)' = Normalized(artifacts.spec)
    BY <2>1 DEF Normalized
  <2> QED
    BY <2>1, <2>2 DEF RecoverByPlan, RecoverByRules, Again, Upgrade, CreateFails, codeVars, locals, sources, Goes, Forget, ForgetDebug, NoFault, Fault, End, Complete, Fail, FollowUp, Starts, PaperPhases, ControlOK
<1>2. ContainersOK'
  <2>1. Upgrade \/ containers' = containers \/ CreateFails("upgraded")
    BY DEF RecoverByPlan, RecoverByRules
  <2> QED
    BY <2>1, ReplacedContainer, SameContainers, FailedCreation
<1>3. BaseIsLive' /\ PreparedRuntimeIsLive'
  <2>1. /\ artifacts' = artifacts /\ Normalized(artifacts.spec) # {}
        /\ artifacts.prepared = NoContainer /\ task' = "install"
    BY DEF RecoverByPlan, RecoverByRules, Again, Upgrade, CreateFails, codeVars, locals, sources, Goes, Forget, ForgetDebug, NoFault, Fault, End, Complete, Fail, FollowUp, Starts, PaperPhases, ControlOK
  <2> QED
    BY <2>1, NothingPublished
<1> QED
  BY <1>1, <1>2, <1>3

(* An execution may have a container of its own. *)
LEMMA BeginExecuteStep ==
    ASSUME RuntimeInv, BeginExecute
    PROVE  RuntimeInv'
<1> USE DEF RuntimeInv
<1>1. ControlOK'
  <2>1. artifacts' = artifacts /\ project' = project
    BY DEF BeginExecute, CreateFails, codeVars, locals, sources, Goes, Forget, ForgetDebug, NoFault, Fault, End, Complete, Fail, FollowUp, Starts, PaperPhases, ControlOK
  <2>2. Normalized(artifacts.spec)' = Normalized(artifacts.spec)
    BY <2>1 DEF Normalized
  <2> QED
    BY <2>1, <2>2 DEF BeginExecute, CreateFails, codeVars, locals, sources, Goes, Forget, ForgetDebug, NoFault, Fault, End, Complete, Fail, FollowUp, Starts, PaperPhases, ControlOK
<1>2. ContainersOK'
  <2>1. containers' = containers \/ containers' = WithNew(containers, "base") \/ CreateFails("base")
    BY DEF BeginExecute
  <2> QED
    BY <2>1, NewContainer, SameContainers, FailedCreation
<1>3. BaseIsLive' /\ PreparedRuntimeIsLive'
  <2>1. containers' = containers \/ containers' = WithNew(containers, "base") \/ CreateFails("base")
    BY DEF BeginExecute
  <2>2. Grown
    BY <2>1, NewContainer, SameContainers, FailedCreation
  <2>3. /\ artifacts' = artifacts /\ project' = project
        /\ task' = task \/ task' \notin Preparing
    BY DEF Preparing, BeginExecute, CreateFails, codeVars, locals, sources, Goes, Forget, ForgetDebug, NoFault, Fault, End, Complete, Fail, FollowUp, Starts, PaperPhases, ControlOK
  <2> QED
    BY <2>2, <2>3, GrownKeeps
<1> QED
  BY <1>1, <1>2, <1>3

(* Only a container of its own is removed after an execution. *)
LEMMA ExecuteStep ==
    ASSUME RuntimeInv, RunCode \/ GiveUp \/ RepairCode
    PROVE  RuntimeInv'
<1> USE DEF RuntimeInv
<1>1. ControlOK'
  <2>1. artifacts' = artifacts /\ project' = project
    BY DEF RunCode, GiveUp, RepairCode, InstallModule, Cleanup, Rerun, Cannot, codeVars, locals, sources, Goes, Forget, ForgetDebug, NoFault, Fault, End, Complete, Fail, FollowUp, Starts, PaperPhases, ControlOK
  <2>2. Normalized(artifacts.spec)' = Normalized(artifacts.spec)
    BY <2>1 DEF Normalized
  <2> QED
    BY <2>1, <2>2 DEF RunCode, GiveUp, RepairCode, InstallModule, Cleanup, Rerun, Cannot, codeVars, locals, sources, Goes, Forget, ForgetDebug, NoFault, Fault, End, Complete, Fail, FollowUp, Starts, PaperPhases, ControlOK
<1>2. ContainersOK'
  <2>1. containers' = containers \/ containers' = Without(containers, session)
    BY DEF RunCode, GiveUp, RepairCode, Cleanup, Deleted
  <2> QED
    BY <2>1, SameContainers, DeadContainer
<1>3. BaseIsLive' /\ PreparedRuntimeIsLive'
  <2>1. artifacts' = artifacts /\ project' = project /\ task' \notin Preparing
    BY DEF Preparing, RunCode, GiveUp, RepairCode, InstallModule, Cleanup, Rerun, Cannot, codeVars, locals, sources, Goes, Forget, ForgetDebug, NoFault, Fault, End, Complete, Fail, FollowUp, Starts, PaperPhases, ControlOK
  <2>2. CASE containers' = containers
    BY <2>1, <2>2, SameContainers, GrownKeeps
  <2>3. CASE containers' # containers
    <3>1. ephemeral
      BY <2>3 DEF RunCode, GiveUp, RepairCode, Cleanup, Deleted
    <3>2. artifacts.prepared = NoContainer
      BY <3>1 DEF ControlOK
    <3> QED
      BY <2>1, <3>2, NothingPublished
  <2> QED
    BY <2>2, <2>3
<1> QED
  BY <1>1, <1>2, <1>3

(* A module installed for an execution takes nothing away. *)
LEMMA InstallModuleStep ==
    ASSUME RuntimeInv, InstallModule
    PROVE  RuntimeInv'
<1> USE DEF RuntimeInv
<1>1. ControlOK'
  <2>1. artifacts' = artifacts /\ project' = project
    BY DEF RunCode, GiveUp, RepairCode, InstallModule, Cleanup, Rerun, Cannot, codeVars, locals, sources, Goes, Forget, ForgetDebug, NoFault, Fault, End, Complete, Fail, FollowUp, Starts, PaperPhases, ControlOK
  <2>2. Normalized(artifacts.spec)' = Normalized(artifacts.spec)
    BY <2>1 DEF Normalized
  <2> QED
    BY <2>1, <2>2 DEF RunCode, GiveUp, RepairCode, InstallModule, Cleanup, Rerun, Cannot, codeVars, locals, sources, Goes, Forget, ForgetDebug, NoFault, Fault, End, Complete, Fail, FollowUp, Starts, PaperPhases, ControlOK
<1>2. ContainersOK'
  <2>1. \/ containers' = containers
        \/ Live(session) /\ \E r \in Requirement :
              containers' = [containers EXCEPT ![session].has = @ \cup {r}]
    BY DEF InstallModule, CommandResults, Exits
  <2> QED
    BY <2>1, SameContainers, Installed
<1>3. BaseIsLive' /\ PreparedRuntimeIsLive'
  <2>1. \/ containers' = containers
        \/ Live(session) /\ \E r \in Requirement :
              containers' = [containers EXCEPT ![session].has = @ \cup {r}]
    BY DEF InstallModule, CommandResults, Exits
  <2>2. Grown
    BY <2>1, SameContainers, Installed
  <2>3. /\ artifacts' = artifacts /\ project' = project
        /\ task' = task \/ task' \notin Preparing
    BY DEF Preparing, RunCode, GiveUp, RepairCode, InstallModule, Cleanup, Rerun, Cannot, codeVars, locals, sources, Goes, Forget, ForgetDebug, NoFault, Fault, End, Complete, Fail, FollowUp, Starts, PaperPhases, ControlOK
  <2> QED
    BY <2>2, <2>3, GrownKeeps
<1> QED
  BY <1>1, <1>2, <1>3

LEMMA RuntimeInit == ASSUME Init PROVE RuntimeInv
<1>1. ContainersOK
  <2>1. /\ DOMAIN containers = IF project.given THEN {1} ELSE {}
        /\ \A c \in DOMAIN containers : DOMAIN containers[c] = {"live", "image", "has"}
    BY DEF Init, CodeInit
  <2>2. CASE project.given
    <3>1. DOMAIN containers = {1} /\ Created = 1
      BY <2>1, <2>2, FS_Singleton DEF Created
    <3> QED
      BY <2>1, <3>1 DEF ContainersOK
  <2>3. CASE ~project.given
    <3>1. DOMAIN containers = {} /\ Created = 0
      BY <2>1, <2>3, FS_EmptySet DEF Created
    <3> QED
      BY <2>1, <3>1 DEF ContainersOK
  <2> QED
    BY <2>2, <2>3
<1>2. ControlOK
  BY DEF Init, CodeInit, ControlOK, PaperPhases
<1>3. BaseIsLive /\ PreparedRuntimeIsLive
  BY DEF Init, CodeInit, BaseIsLive, PreparedRuntimeIsLive, Live
<1> QED
  BY <1>1, <1>2, <1>3 DEF RuntimeInv

LEMMA RuntimeStep == ASSUME RuntimeInv, [Next]_vars PROVE RuntimeInv'
<1>1. CASE CodeStep
  BY <1>1, ResolveStep, PrepareStep, BeginInstallStep, PipStep, RecoverStep, BeginExecuteStep,
     ExecuteStep, InstallModuleStep DEF CodeStep
<1>2. CASE PaperStep
  BY <1>2, PaperSteps
<1>3. CASE Environment
  BY <1>3, EnvironmentSteps
<1>4. CASE UNCHANGED vars
  <2>1. UNCHANGED <<project, task, pc, containers, artifacts, ephemeral>>
    BY <1>4 DEF vars, codeVars, locals
  <2> QED
    BY <2>1 DEF RuntimeInv, ContainersOK, ControlOK, BaseIsLive, PreparedRuntimeIsLive,
                Created, Live, Normalized
<1> QED
  BY <1>1, <1>2, <1>3, <1>4 DEF Next, Step

(* What is published as a prepared runtime is alive and has what the report names,    *)
(* whatever the list became and however often its container was replaced: nothing is  *)
(* published before the last container has everything, and a container is only        *)
(* removed before that or with the attempt it belongs to (coder.go:722-960).          *)
THEOREM PreparedRuntimesAreLive == Spec => []PreparedRuntimeIsLive
<1>1. Init => RuntimeInv
  BY RuntimeInit
<1>2. RuntimeInv /\ [Next]_vars => RuntimeInv'
  BY RuntimeStep
<1>3. RuntimeInv => PreparedRuntimeIsLive
  BY DEF RuntimeInv
<1> QED
  BY <1>1, <1>2, <1>3, PTL DEF Spec
=============================================================================
