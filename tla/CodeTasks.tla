----------------------------- MODULE CodeTasks -----------------------------
(***************************************************************************)
(* The tasks that turn code into a run (agent/coder.go): resolve the       *)
(* dependencies, prepare a runtime, install the dependencies and execute,  *)
(* on the containers of the sandbox server (sandbox/opensandbox.go,        *)
(* sandboxserver/), each with the artifacts of the tasks before it         *)
(* (scheduler/executor.go).                                                *)
(*                                                                         *)
(* Models propose, commands succeed or fail, a stream may break, requests  *)
(* may be lost, the process may die: all of these are free choices.  A     *)
(* task that failed or was interrupted is repeated.  A requirement is a    *)
(* line pip understands.                                                   *)
(***************************************************************************)
EXTENDS Naturals, FiniteSets, Functions

CONSTANTS Requirement,
          Root,                \* requirement -> name of its package
          Stdlib, Local,       \* of the standard library; modules of the workspace
          Compatible,          \* requirement -> what replaces it for Python 3.9
          Malformed,           \* requirements the installer does not accept
          Projects,            \* what the tasks are given
          NoContainer,
          MaxInstalls,
          MaxContainers, MaxFaults      \* bounds

ASSUME RequirementAssumption == /\ Root \in [Requirement -> STRING]
                                /\ Compatible \in [Requirement -> SUBSET Requirement]
                                /\ Stdlib \cup Local \cup Malformed \subseteq Requirement
ASSUME LimitAssumption == MaxInstalls \in Nat \ {0} /\ MaxContainers \in Nat /\ MaxFaults \in Nat

VARIABLES project,
          task, pc,            \* which task, and where its agent is
          expired,             \* the context of the attempt is over
          containers,          \* id -> whether it is alive, its Python, its packages
          artifacts,           \* what completed tasks published
          session, ephemeral,  \* the attempt's container, and whether it is its own
          dependencies, tries, \* the installation
          error,               \* what a command said when it failed
          recovered, repaired, \* the repairs an execution has used
          faults

locals == <<expired, session, ephemeral, dependencies, tries, error, recovered, repaired>>
codeVars == <<project, task, pc, containers, artifacts, locals, faults>>

NoFault == faults' = faults
Fault == faults < MaxFaults /\ faults' = faults + 1

-----------------------------------------------------------------------------
(* Requirements.                                                           *)

\* dependencyRootName, dependencyRootSet
Roots(reqs) == {Root[r] : r \in reqs}
OfRoots(reqs, roots) == {r \in reqs : Root[r] \in roots}

\* filterStandardLibraryDependencies and normalizeDependenciesForPython39
Normalized(reqs) == UNION {Compatible[r] : r \in reqs \ Stdlib}

\* What the code imports, what the sources of the workspace import, and the lines of
\* its requirement files (detectPythonDependencies and its like).
Imported(p) == p.code \ Stdlib
WorkspaceImports(p) == (p.sources \ Stdlib) \ Local
Listed(p) == p.listed

\* resolveDependenciesTask: the workspace does not count for the generated smoke
\* runner, and listed requirements count when something imports them.
Resolved(p) ==
    LET imported == Imported(p) \cup IF p.smoke THEN {} ELSE WorkspaceImports(p)
        listed == IF p.smoke THEN {}
                  ELSE IF imported = {} THEN Listed(p)
                  ELSE OfRoots(Listed(p), Roots(imported))
        local == IF p.mounted THEN Local ELSE {}
    IN  Normalized((imported \cup listed) \ local)

\* parseDependencySpec refuses the whole list for one token.
WellFormed(r) == r \notin Malformed
Accepted(reqs) == \A r \in reqs : WellFormed(r)

Dropped(reqs, name) == {r \in reqs : Root[r] # name}

\* What the model's plan may make of the list: remove_package, replace_package,
\* rewrite_dependencies.  A plan that changes nothing does not count.
Rewritten(reqs) ==
    ({Dropped(reqs, name) : name \in Roots(reqs)}
     \cup {Dropped(reqs, x[1]) \cup {x[2]} : x \in Roots(reqs) \X Requirement}
     \cup ({Normalized(S) : S \in SUBSET Requirement} \ {{}})) \ {reqs}

-----------------------------------------------------------------------------
(* The sandbox server.                                                     *)

Created == Cardinality(DOMAIN containers)
Live(c) == c \in DOMAIN containers /\ containers[c].live
WithNew(cs, image) ==
    [c \in DOMAIN cs \cup {Created + 1} |->
        IF c \in DOMAIN cs THEN cs[c] ELSE [live |-> TRUE, image |-> image, has |-> {}]]
Without(cs, c) == IF c \in DOMAIN cs THEN [cs EXCEPT ![c].live = FALSE] ELSE cs

\* A request to create one that failed may have been served all the same.
CreateFails(image) ==
    /\ IF expired \/ Created = MaxContainers THEN NoFault ELSE Fault
    /\ containers' \in {containers} \cup
           IF Created < MaxContainers THEN {WithNew(containers, image)} ELSE {}

\* How docker exec ends; it fails when the container is gone.
Exits == IF Live(session) THEN {"ok", "failed"} ELSE {"failed"}

\* What a streamed command ends with: the context may be over, and the stream may break
\* under the command.
CommandResults == IF expired THEN {"broken"} ELSE Exits \cup {"broken"}

Streamed(result) == IF result = "broken" /\ ~expired THEN Fault ELSE NoFault

-----------------------------------------------------------------------------
(* Beginnings and ends of attempts.                                        *)

Forget ==
    /\ dependencies' = {} /\ tries' = 0 /\ error' = {}
    /\ recovered' = FALSE /\ repaired' = FALSE
    /\ session' = NoContainer /\ ephemeral' = FALSE /\ expired' = FALSE

FollowUp == [resolve |-> "prepare", prepare |-> "install", install |-> "execute",
             execute |-> IF project.kind = "paper" THEN "fix" ELSE "none", fix |-> "none"]

\* The task is handed to its agent; an attempt ends with its task completed or failed.
Starts(kind) == task = kind /\ pc = "idle"
End(next, newTask) == pc' = next /\ task' = newTask /\ Forget
Complete == End(IF FollowUp[task] = "none" THEN "done" ELSE "idle", FollowUp[task])
Fail == End("failed", task)

\* The deferred clean-up of a container of the attempt's own; its request may be lost.
Deleted == IF ephemeral THEN Without(containers, session) ELSE containers
Cleanup ==
    \/ containers' = Deleted /\ NoFault
    \/ ephemeral /\ UNCHANGED containers /\ Fault

\* What the next tasks are given, and what a completed task adds to it.
Input(key) == artifacts[key]
Outputs(values) == artifacts' = [k \in DOMAIN artifacts |->
                                    IF k \in DOMAIN values THEN values[k] ELSE artifacts[k]]

Goes(where) == pc' = where /\ UNCHANGED <<project, task>>

-----------------------------------------------------------------------------
(* Dependencies and the runtime.                                           *)

ResolveDependencies ==
    /\ Starts("resolve")
    /\ Outputs([spec |-> Resolved(project)])
    /\ Complete
    /\ UNCHANGED <<project, containers, faults>>

\* prepareRuntime: a task that is given a runtime passes it on.
PrepareRuntime ==
    /\ Starts("prepare")
    /\ \/ /\ project.given /\ Outputs([runtime |-> Input("runtime")])
          /\ Complete /\ UNCHANGED <<containers, faults>>
       \/ /\ ~project.given /\ Created < MaxContainers
          /\ containers' = WithNew(containers, "base")
          /\ Outputs([runtime |-> Created + 1])
          /\ Complete /\ NoFault
       \/ ~project.given /\ CreateFails("base") /\ Fail /\ UNCHANGED artifacts
    /\ UNCHANGED project

\* Mutant: the container the plan started with is published, also after an upgrade.
PublishRuntime(container, reqs) == Outputs([prepared |-> Input("runtime"), packages |-> reqs])

Publish(container, reqs) == Outputs([prepared |-> container, packages |-> reqs])

\* installDependencies
BeginInstall ==
    /\ Starts("install")
    /\ LET reqs == Normalized(Input("spec"))
       IN  IF ~Accepted(Input("spec")) THEN Fail /\ UNCHANGED artifacts
           ELSE IF reqs = {} THEN Complete /\ Publish(Input("runtime"), {})
           ELSE /\ pc' = "pip" /\ session' = Input("runtime")
                /\ dependencies' = reqs /\ tries' = 1
                /\ UNCHANGED <<task, artifacts, expired, ephemeral, error, recovered, repaired>>
    /\ UNCHANGED <<project, containers, faults>>

\* What the rules read from pip's output: a Python too old, a module of the standard
\* library among the requirements, or nothing they know.
PipErrors == {{"python"}, {"stdlib"}, {}}

\* One pip install.  With nothing to install pip fails as well.
Pip ==
    /\ pc = "pip"
    /\ \E result \in CommandResults :
          /\ Streamed(result)
          /\ \/ /\ result = "ok" /\ dependencies # {}
                /\ containers' = [containers EXCEPT ![session].has = @ \cup dependencies]
                /\ Publish(session, dependencies)
                /\ Complete /\ UNCHANGED project
             \/ /\ result = "failed" /\ tries < MaxInstalls
                /\ error' \in PipErrors
                /\ Goes("recover")
                /\ UNCHANGED <<containers, artifacts, expired, session, ephemeral,
                               dependencies, tries, recovered, repaired>>
             \/ /\ result = "broken" \/ (result = "failed" /\ tries = MaxInstalls)
                /\ Fail
                /\ UNCHANGED <<project, containers, artifacts>>

\* recreateSandboxForDependencies: a new container takes the place of the old one,
\* which is deleted if that request gets through.
Upgrade ==
    /\ ~expired /\ Created < MaxContainers
    /\ LET grown == WithNew(containers, "upgraded")
       IN  \/ containers' = Without(grown, session) /\ NoFault
           \/ containers' = grown /\ Fault
    /\ session' = Created + 1
    /\ UNCHANGED dependencies

\* Mutant: the attempts are not counted.
AgainUncounted == /\ Goes("pip") /\ error' = {}
                  /\ UNCHANGED <<tries, artifacts, expired, ephemeral, recovered, repaired>>

Again == /\ Goes("pip") /\ tries' = tries + 1 /\ error' = {}
         /\ UNCHANGED <<artifacts, expired, ephemeral, recovered, repaired>>

\* planDependencyRecovery and applyDependencyRecoveryPlan: the model's plan, when it
\* has an effect; otherwise the rules apply.
RecoverByPlan ==
    /\ pc = "recover" /\ ~expired
    /\ \/ (Upgrade \/ /\ dependencies' \in Rewritten(dependencies)
                      /\ UNCHANGED <<containers, session, faults>>) /\ Again
       \/ /\ CreateFails("upgraded") /\ Goes("rules")
          /\ UNCHANGED <<artifacts, locals>>

\* applyRuleBasedDependencyFallback
RecoverByRules ==
    /\ pc \in {"recover", "rules"}
    /\ LET standard == IF "stdlib" \in error THEN dependencies \cap Stdlib ELSE {}
       IN  \/ "python" \in error /\ Upgrade /\ Again
           \/ /\ "python" \in error /\ CreateFails("upgraded")
              /\ Fail /\ UNCHANGED <<project, artifacts>>
           \/ /\ \E r \in standard : dependencies' = Dropped(dependencies, Root[r])
              /\ Again /\ UNCHANGED <<containers, session, faults>>
           \/ /\ "python" \notin error /\ standard = {}
              /\ Fail /\ UNCHANGED <<project, containers, artifacts, faults>>

-----------------------------------------------------------------------------
(* The execution of code (executeCodeInSandbox).  Code generated by the    *)
(* task itself runs in a container of its own.                             *)

BeginExecute ==
    /\ Starts("execute") /\ project.kind # "paper"
    /\ \/ /\ project.kind = "direct" /\ Fail       \* no code was generated
          /\ UNCHANGED <<project, containers, faults>>
       \/ /\ project.kind = "direct" /\ Created < MaxContainers
          /\ containers' = WithNew(containers, "base")
          /\ session' = Created + 1 /\ ephemeral' = TRUE
          /\ Goes("code") /\ NoFault
          /\ UNCHANGED <<expired, dependencies, tries, error, recovered, repaired>>
       \/ /\ project.kind = "direct" /\ CreateFails("base") /\ Fail
          /\ UNCHANGED project
       \/ /\ project.kind = "code"
          /\ session' = Input("prepared")
          /\ Goes("code")
          /\ UNCHANGED <<containers, expired, ephemeral, dependencies, tries, error,
                         recovered, repaired, faults>>
    /\ UNCHANGED artifacts

RunCode ==
    /\ pc = "code"
    /\ \E result \in CommandResults :
          \/ /\ result = "ok"
             /\ Complete /\ Cleanup /\ UNCHANGED project
          \/ /\ result = "failed"
             /\ error' \in SUBSET {"module", "code"}
             /\ Goes("mend")
             /\ UNCHANGED <<containers, expired, session, ephemeral, dependencies, tries,
                            recovered, repaired, faults>>
          \/ /\ result = "broken" /\ Streamed(result)
             /\ containers' = Deleted
             /\ Fail /\ UNCHANGED project
    /\ UNCHANGED artifacts

Rerun == error' = {} /\ Goes("code")
Cannot(what) == error' = error \ {what} /\ Goes("mend")

MissingModule == "module" \in error /\ ~recovered
Repairable == "code" \in error /\ ~repaired /\ ~project.mounted

\* installMissingPythonModule: once, and not for the standard library.
InstallModule ==
    /\ pc = "mend" /\ MissingModule
    /\ \/ /\ "ok" \in CommandResults
          /\ \E r \in Requirement \ Stdlib :
                containers' = [containers EXCEPT ![session].has = @ \cup {r}]
          /\ recovered' = TRUE /\ Rerun
       \/ Cannot("module") /\ UNCHANGED <<containers, recovered>>
    /\ UNCHANGED <<artifacts, expired, session, ephemeral, dependencies, tries, repaired, faults>>

\* repairGeneratedPythonCodeForRuntimeError: the model, once, and not for a file of the
\* repository.
RepairCode ==
    /\ pc = "mend" /\ ~MissingModule /\ Repairable
    /\ \/ ~expired /\ repaired' = TRUE /\ Rerun
       \/ Cannot("code") /\ UNCHANGED repaired
    /\ UNCHANGED <<containers, artifacts, expired, session, ephemeral, dependencies, tries,
                   recovered, faults>>

GiveUp ==
    /\ pc = "mend" /\ ~MissingModule /\ ~Repairable
    /\ Fail /\ Cleanup
    /\ UNCHANGED <<project, artifacts>>

-----------------------------------------------------------------------------
\* A project may have been given the runtime an earlier task of its plan prepared.
CodeInit ==
    /\ project \in Projects
    /\ task = (IF project.kind = "direct" THEN "execute" ELSE "resolve") /\ pc = "idle"
    /\ containers = [c \in (IF project.given THEN {1} ELSE {}) |->
                       [live |-> TRUE, image |-> "base", has |-> {}]]
    /\ artifacts = [spec |-> {}, runtime |-> IF project.given THEN 1 ELSE NoContainer,
                    prepared |-> NoContainer, packages |-> {}]
    /\ faults = 0
    /\ expired = FALSE /\ session = NoContainer /\ ephemeral = FALSE
    /\ dependencies = {} /\ tries = 0 /\ error = {}
    /\ recovered = FALSE /\ repaired = FALSE

CodeStep == \/ ResolveDependencies \/ PrepareRuntime \/ BeginInstall \/ Pip
            \/ RecoverByPlan \/ RecoverByRules
            \/ BeginExecute \/ RunCode \/ InstallModule \/ RepairCode \/ GiveUp

Active == pc \notin {"idle", "failed", "done"}

\* The deadline of the plan passes, or the plan is canceled.
Expire ==
    /\ Active /\ ~expired /\ expired' = TRUE
    /\ UNCHANGED <<project, task, pc, containers, artifacts, session, ephemeral,
                   dependencies, tries, error, recovered, repaired, faults>>

\* The process dies: nothing deferred runs.
Interrupt ==
    /\ Active /\ Fault /\ Fail
    /\ UNCHANGED <<project, containers, artifacts>>

Repeat ==
    /\ pc = "failed" /\ pc' = "idle"
    /\ UNCHANGED <<project, task, containers, artifacts, locals, faults>>

\* A runtime published as prepared is alive and has what the report says was
\* installed, however the installation got there: its container may have been
\* replaced for a newer Python and its list rewritten by the model or the rules
\* (coder.go, installDependencies).
PreparedRuntimeIsLive ==
    artifacts.prepared # NoContainer =>
        Live(artifacts.prepared) /\ artifacts.packages \subseteq containers[artifacts.prepared].has
=============================================================================
