----------------------------- MODULE PaperDebug -----------------------------
(***************************************************************************)
(* Debugging the code of a paper in its repository                         *)
(* (agent/paper_debug_harness.go), in the runtime CodeTasks prepared: run  *)
(* the entry, let the model patch sources it has been shown, run again,    *)
(* within limits; an attempt that fails puts the patched files back.  The  *)
(* second task, fix_and_rerun, plans a repair before it runs.              *)
(*                                                                         *)
(* A process may change the sources while it runs, and goes on in the      *)
(* container when its stream breaks.  Backups are kept in memory.  A       *)
(* fingerprint is the contents it identifies.                              *)
(***************************************************************************)
EXTENDS CodeTasks

CONSTANTS File, Content,       \* Python sources of the workspace, what they may hold
          Original,            \* what a repository may hold at first
          MaxRuns, MaxRepairs, MaxPatchFiles

ASSUME DebugAssumption == /\ Original \subseteq [File -> Content]
                          /\ MaxRuns \in Nat \ {0} /\ MaxRepairs \in Nat \ {0}
                          /\ MaxPatchFiles \in Nat \ {0}

VARIABLES files,               \* the sources on disk
          before,              \* the fingerprint before the run
          shown, pending,      \* what the model was shown; the patches it proposed
          todo,                \* files still to be patched, or put back
          backups,
          report,              \* status, runs, repairs, and what was patched
          orphan,              \* a process whose stream broke is still in the container
          start, tampered      \* history: sources at the start, changed by processes

sources == <<files, before, shown, pending, todo, backups, report, orphan, start, tampered>>
vars == <<codeVars, sources>>

Empty == << >>
Partial(S) == UNION {[D -> Content] : D \in SUBSET S}

-----------------------------------------------------------------------------
\* executePaperCodeTask
BeginPaper ==
    /\ project.kind = "paper" /\ \E kind \in {"execute", "fix"} : Starts(kind)
    /\ session' = Input("prepared")
    /\ Goes(IF task = "fix" THEN "plan" ELSE "run")
    /\ start' = files /\ tampered' = {}
    /\ report' = [status |-> "running", runs |-> 0, repairs |-> 0, patched |-> Empty]
    /\ UNCHANGED <<containers, artifacts, expired, ephemeral, dependencies, tries, error,
                   recovered, repaired, faults, files, before, shown, pending, todo, backups,
                   orphan>>

ForgetDebug == /\ before' = Empty /\ shown' = Empty /\ pending' = Empty
               /\ todo' = {} /\ backups' = Empty

\* completePaperCodeDebugTask.  When the last fingerprint cannot be taken the task fails
\* through failResearchCodingTask, which puts nothing back and reports nothing.
CompletePaper(status) ==
    /\ \/ Complete /\ NoFault /\ report' = [report EXCEPT !.status = status]
       \/ Fail /\ Fault /\ report' = [report EXCEPT !.status = "unverified"]
    /\ ForgetDebug
    /\ UNCHANGED <<project, containers, artifacts, files, start, tampered>>

RestoreThenFail == /\ Goes("restore") /\ todo' = DOMAIN backups
                   /\ UNCHANGED <<containers, artifacts, locals>>

\* paperDebugSourceFingerprint, writePaperDebugFile
Fingerprint == files
Written(f, content) == [files EXCEPT ![f] = content]

\* runPaperCodeOnce
StartRun ==
    /\ pc = "run" /\ Goes("running")
    /\ before' = Fingerprint
    /\ report' = [report EXCEPT !.runs = @ + 1]
    /\ UNCHANGED <<containers, artifacts, locals, faults, files, shown, pending, todo, backups,
                   orphan, start, tampered>>

\* A run has passed when its sources are what they were and its command succeeded.
Passed(result) == result = "ok" /\ Fingerprint = before

Spent == report.repairs >= MaxRepairs

EndRun ==
    /\ pc = "running"
    /\ \E result \in CommandResults :
          /\ orphan' = (orphan \/ (result = "broken" /\ Live(session)))
          /\ IF Passed(result)
             THEN CompletePaper(IF report.patched = Empty THEN "passed" ELSE "repaired")
             ELSE /\ Streamed(result)
                  /\ IF Spent THEN RestoreThenFail
                     ELSE /\ Goes("plan")
                          /\ UNCHANGED <<containers, artifacts, locals, todo>>
                  /\ UNCHANGED <<files, before, shown, pending, backups, report, start, tampered>>

\* collectPaperDebugContext: the entry and some of the files around it.
ReadContext ==
    /\ pc = "plan" /\ Goes("model")
    /\ \E S \in SUBSET File \ {{}} : shown' = Restrict(files, S)
    /\ UNCHANGED <<containers, artifacts, locals, faults, files, before, pending, todo, backups,
                   report, orphan, start, tampered>>

\* What the model may propose and the policy accepts: other contents for files it was shown.
Proposals == {p \in Partial(DOMAIN shown) :
                 /\ p # Empty /\ Cardinality(DOMAIN p) <= MaxPatchFiles
                 /\ \A f \in DOMAIN p : p[f] # shown[f]}

\* planPaperCodeRepair; no answer, an invalid one and a refused patch are errors.
Respond ==
    /\ pc = "model"
    /\ \/ /\ ~expired
          /\ pending' \in Proposals /\ todo' = DOMAIN pending'
          /\ report' = [report EXCEPT !.repairs = @ + 1]
          /\ Goes("patch")
          /\ UNCHANGED <<containers, artifacts, locals, faults, files, before, shown, backups,
                         start, tampered>>
       \/ ~expired /\ task = "fix" /\ report.runs = 0 /\ CompletePaper("no_change")
       \/ /\ RestoreThenFail
          /\ UNCHANGED <<faults, files, before, shown, pending, backups, report, start, tampered>>
    /\ UNCHANGED orphan

\* Mutant: the backup of a file patched before is replaced.
BackUpAgain(f) == [g \in DOMAIN backups \cup {f} |-> IF g = f THEN shown[f] ELSE backups[g]]

BackUp(f) == [g \in DOMAIN backups \cup {f} |-> IF g \in DOMAIN backups THEN backups[g] ELSE shown[f]]

\* applyPaperCodePatches: one file after the other; a write that fails undoes them all.
WritePatch ==
    /\ pc = "patch"
    /\ \E f \in todo :
          /\ backups' = BackUp(f)
          /\ \/ /\ files' = Written(f, pending[f]) /\ NoFault
                /\ IF todo # {f} THEN todo' = todo \ {f} /\ Goes("patch") /\ UNCHANGED report
                   ELSE /\ IF report.runs < MaxRuns THEN Goes("run") /\ todo' = {}
                           ELSE Goes("restore") /\ todo' = DOMAIN backups'
                        /\ report' = [report EXCEPT !.patched = [g \in DOMAIN @ \cup DOMAIN pending |->
                               IF g \in DOMAIN pending THEN pending[g] ELSE @[g]]]
             \/ /\ Fault /\ Goes("undo") /\ todo' = DOMAIN backups'
                /\ UNCHANGED <<files, report>>
    /\ UNCHANGED <<containers, artifacts, locals, before, shown, pending, orphan, start, tampered>>

FailPaper(status) ==
    /\ Fail /\ ForgetDebug /\ report' = [report EXCEPT !.status = status]
    /\ UNCHANGED <<project, containers, artifacts, orphan, start, tampered>>

\* restorePaperCodeBackups: called by the failed write, whose own attempt to restore
\* does not count, and again by failPaperCodeDebugTask.
Restore ==
    /\ pc \in {"undo", "restore"}
    /\ \/ \E f \in todo :
             /\ files' = Written(f, backups[f])
             /\ todo' = todo \ {f} /\ NoFault
             /\ UNCHANGED <<project, task, pc, containers, artifacts, locals, before, shown,
                            pending, backups, report, orphan, start, tampered>>
       \/ /\ pc = "undo" /\ IF todo = {} THEN NoFault ELSE Fault
          /\ RestoreThenFail
          /\ UNCHANGED <<files, before, shown, pending, backups, report, orphan, start, tampered>>
       \/ pc = "restore" /\ todo = {} /\ FailPaper("failed") /\ UNCHANGED <<files, faults>>
       \/ pc = "restore" /\ todo # {} /\ FailPaper("unrestored") /\ UNCHANGED files /\ Fault

\* A process of the repository's code, also one of an earlier run, writes a source.
Tamper ==
    /\ (pc = "running" /\ Live(session)) \/ orphan
    /\ \E f \in File : \E c \in Content \ {files[f]} :
          files' = [files EXCEPT ![f] = c] /\ tampered' = tampered \cup {f}
    /\ Fault
    /\ UNCHANGED <<project, task, pc, containers, artifacts, locals, before, shown, pending,
                   todo, backups, report, orphan, start>>

-----------------------------------------------------------------------------
Init == /\ CodeInit
        /\ files \in Original /\ start = files /\ tampered = {}
        /\ before = Empty /\ shown = Empty /\ pending = Empty /\ todo = {} /\ backups = Empty
        /\ report = [status |-> "none", runs |-> 0, repairs |-> 0, patched |-> Empty]
        /\ orphan = FALSE

PaperStep == BeginPaper \/ StartRun \/ EndRun \/ ReadContext \/ Respond \/ WritePatch \/ Restore

Step == (CodeStep /\ UNCHANGED sources) \/ PaperStep

Environment ==
    \/ Expire /\ UNCHANGED sources
    \/ Interrupt /\ ForgetDebug /\ UNCHANGED <<files, orphan, start, tampered>>
                 /\ report' = [report EXCEPT !.status = "interrupted"]
    \/ Repeat /\ UNCHANGED sources
    \/ Tamper

Next == Step \/ Environment

\* A command ends with its stream, which the client gives ten minutes; every other step
\* is a call that returns.
Spec == Init /\ [][Next]_vars /\ WF_vars(Step)

-----------------------------------------------------------------------------
\* What an attempt leaves: the sources it started with, and unless it undid them the patches
\* it reports.
Sources(status) == IF status = "failed" THEN start
                   ELSE [f \in File |-> IF f \in DOMAIN report.patched THEN report.patched[f] ELSE start[f]]

\* The repairs of an attempt are all or nothing: one that completed leaves the sources it
\* started with and exactly the patches it reports, one that failed leaves the sources it
\* started with, whichever of several repairs, writes or restores went wrong in between
\* (paper_debug_harness.go, applyPaperCodePatches and restorePaperCodeBackups).  The
\* attempt that fails after its run has passed, because the last fingerprint cannot be
\* taken (paper_debug_harness.go:479), restores nothing: it leaves all of its patches.
\* Not accounted for are files a process changed, a restore that was reported as failed,
\* and an attempt that was interrupted, whose backups are lost.
EditsAreTransactional ==
    report.status \in {"passed", "repaired", "no_change", "unverified", "failed"} =>
        \A f \in File \ tampered : files[f] = Sources(report.status)[f]

\* Recoveries, repairs and retries inside an attempt come to an end (coder.go:739, 1344;
\* paper_debug_harness.go:127), also when the context is over and nothing can succeed.
AttemptsSettle == Active ~> ~Active
=============================================================================
