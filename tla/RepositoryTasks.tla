--------------------------- MODULE RepositoryTasks ---------------------------
(***************************************************************************)
(* The tasks that find and prepare a repository (scheduler/                *)
(* repo_discovery.go, repo_prepare.go, reproduction_mode.go).  The tasks   *)
(* of different plans work at the same time in one temporary directory,    *)
(* whose workspaces serve as a cache of clones for one another.            *)
(*                                                                         *)
(* Searches, git, downloads and uploads succeed or fail as they like, the  *)
(* process may die and leave a git process behind, later tasks of a plan   *)
(* write in its workspace.  A ranking by score is any order.               *)
(***************************************************************************)
EXTENDS Naturals, FiniteSets, Sequences, SequencesExt

CONSTANTS Task, Repo, Commit,
          History,                  \* repository -> the commits its host has
          Curated,                  \* the repository known for a well-known paper
          Malformed,                \* a revision that is no commit hash
          Requests,                 \* the inputs the plans of the tasks may start with
          NoRepo, NoCommit, NoWorkspace,
          MaxCandidates,
          MaxWorkspaces, MaxFaults  \* bounds

ASSUME RepositoryAssumption == /\ History \in [Repo -> SUBSET Commit] /\ Curated \in Repo
                               /\ NoRepo \notin Repo /\ NoCommit \notin Commit
                               /\ IsFiniteSet(Task) /\ IsFiniteSet(Repo)
                               /\ MaxCandidates \in Nat \ {0}
                               /\ MaxWorkspaces \in Nat /\ MaxFaults \in Nat
                               /\ NoWorkspace \notin 1..(MaxWorkspaces + Cardinality(Task))

\* buildRepoDiscoveryQuery: an arXiv id, a title or other words of the task, or nothing.
Queries == {"arxiv", "title", "none"}

ASSUME RequestsAssumption == \A r \in Requests : \A t \in Task :
    r[t].query \in Queries /\ r[t].preferred \in Repo \cup {NoRepo}

VARIABLES request,
          pc,
          discovered, selected,   \* what the discovery published
          queue,                  \* the candidates still to be cloned
          cached, place,          \* the clone to clone from, the workspace being filled
          tries, expired,
          workspaces,             \* the temporary directory
          prepared,               \* what the preparation published
          faults

locals == <<queue, cached, place, tries, expired>>
repositoryVars == <<request, pc, discovered, selected, locals, workspaces, prepared, faults>>

Fault == faults < MaxFaults /\ faults' = faults + 1

NoClone == [workspace |-> NoWorkspace, repo |-> NoRepo]

Working == {"discover", "prepare", "local", "clone", "git", "archive", "finish"}

Forget(t) ==
    /\ queue' = [queue EXCEPT ![t] = << >>]
    /\ cached' = [cached EXCEPT ![t] = NoClone]
    /\ place' = [place EXCEPT ![t] = NoWorkspace]
    /\ tries' = [tries EXCEPT ![t] = 0]
    /\ expired' = [expired EXCEPT ![t] = FALSE]

Goes(t, where) == pc' = [pc EXCEPT ![t] = where]
Fail(t) == Goes(t, "failed") /\ Forget(t)

-----------------------------------------------------------------------------
(* Discovery.                                                              *)

Orders(S) == UNION {SetToSeqs(T) : T \in SUBSET S}

\* hfPaperSearch and hfPaperRepos, githubRepoSearch, curatedRepoFallbackCandidates
Papers == Orders(Repo)
GitHubSearch == Orders(Repo)
Known(r) == IF r.wellKnown THEN <<Curated>> ELSE << >>

\* executeRepoDiscovery: the repositories of the papers found; without one, those of
\* the GitHub search, and without one of these the curated one.
Rankings(r) == ((Papers \cup GitHubSearch) \ {<< >>}) \cup {Known(r)}

\* Without an arXiv id the first one whose name or description fits the title, else the
\* first one.
Select(r, ranked) ==
    LET fitting == IF r.query = "arxiv" THEN ranked
                   ELSE SelectSeq(ranked, LAMBDA repo : repo \in r.fits)
    IN  IF fitting = << >> THEN NoRepo ELSE Head(fitting)

Publish(t, ranked, repo) ==
    /\ discovered' = [discovered EXCEPT ![t] = ranked]
    /\ selected' = [selected EXCEPT ![t] = repo]
    /\ Goes(t, "prepare")
    /\ UNCHANGED locals

Discover(t) ==
    /\ pc[t] = "discover"
    /\ LET r == request[t]
       IN  \/ r.preferred # NoRepo /\ Publish(t, <<r.preferred>>, r.preferred)
           \/ /\ r.preferred = NoRepo /\ r.query # "none"
              /\ \E ranked \in Rankings(r) : Publish(t, ranked, Select(r, ranked))
           \/ /\ r.preferred = NoRepo /\ r.query = "none"
              /\ Fail(t) /\ UNCHANGED <<discovered, selected>>
    /\ UNCHANGED <<request, workspaces, prepared, faults>>

-----------------------------------------------------------------------------
(* What the preparation is asked for.                                      *)

\* repoPrepareRepositoryRevision: the input and the uploaded specifications name at
\* most one commit.
Consistent(r) == Cardinality(r.revisions) <= 1 /\ Malformed \notin r.revisions
Revision(r) == IF r.revisions = {} THEN NoCommit ELSE CHOOSE c \in r.revisions : TRUE
Pinned(t) == Revision(request[t]) # NoCommit

\* repoPrepareCandidateURLs: the selected repository, the well-known one, the others.
Mentions(t) == <<selected[t]>> \o Known(request[t]) \o discovered[t]

\* uniqueNonEmptyStrings, cut by cloneFirstAvailableRepository: each position has the
\* repository that is mentioned first of those not listed yet.
Listed(mentions) ==
    LET repos == ToSet(mentions)
        size == IF Cardinality(repos) < MaxCandidates THEN Cardinality(repos) ELSE MaxCandidates
        First(repo) == CHOOSE i \in DOMAIN mentions :
                          mentions[i] = repo /\ \A j \in 1..(i - 1) : mentions[j] # repo
    IN  {list \in [1..size -> repos] :
            \A i \in 1..size :
                LET unlisted == repos \ {list[j] : j \in 1..(i - 1)}
                IN  /\ list[i] \in unlisted
                    /\ \A repo \in unlisted : First(list[i]) <= First(repo)}

Candidates(t) == UNION {ToSet(list) : list \in Listed(Mentions(t))}

\* The commits that a clone or an archive of a repository may be of: its HEAD moves.
Wanted(t, repo) == IF Pinned(t) THEN History[repo] \cap {Revision(request[t])} ELSE History[repo]

-----------------------------------------------------------------------------
(* Workspaces.  "init" and "cloning" are repositories git works on, without  *)
(* a HEAD; "none" are plain directories.                                   *)

NoMarker == [repo |-> NoRepo, commit |-> NoCommit]

Workspace(git, config, marker, commit) ==
    [git |-> git, config |-> config, marker |-> marker,
     tree |-> commit, files |-> {}]

Begun(t, repo) == Workspace(IF Pinned(t) THEN "init" ELSE "cloning", repo, NoMarker, NoCommit)

Filled(git, config, repo, commit, read) ==
    Workspace(git, config, [repo |-> repo, commit |-> read], commit)

Full == Cardinality(DOMAIN workspaces) = MaxWorkspaces

\* Names are never used again: not the one of a workspace some task has chosen to clone.
New == CHOOSE w \in 1..(MaxWorkspaces + Cardinality(Task)) :
           w \notin DOMAIN workspaces \cup {cached[u].workspace : u \in Task}

With(w, content) == [v \in DOMAIN workspaces \cup {w} |-> IF v = w THEN content ELSE workspaces[v]]
Without(w) == [v \in DOMAIN workspaces \ {w} |-> workspaces[v]]

\* workspaceMatchesRepoURL
Matches(w, repo) ==
    IF w.marker # NoMarker THEN w.marker.repo = repo ELSE w.config = repo

\* findCachedRepositoryWorkspace
Usable(t, w, repo) ==
    /\ w.git # "none"
    /\ Matches(w, repo)
    /\ Pinned(t) => w.marker.commit = Revision(request[t])

CachedFor(t, repo) == {w \in DOMAIN workspaces : Usable(t, workspaces[w], repo)}

\* The first candidate that has one, and any of its workspaces.
Cached(t, repos) ==
    LET with == {i \in DOMAIN repos : CachedFor(t, repos[i]) # {}}
        first == CHOOSE i \in with : \A j \in with : i <= j
    IN  IF with = {} THEN {}
        ELSE [workspace : CachedFor(t, repos[first]), repo : {repos[first]}]

-----------------------------------------------------------------------------
(* Preparation.                                                            *)

Prepare(t) ==
    /\ pc[t] = "prepare"
    /\ IF selected[t] = NoRepo \/ ~Consistent(request[t])
       THEN Fail(t)
       ELSE /\ \E list \in Listed(Mentions(t)) :
                  /\ queue' = [queue EXCEPT ![t] = list]
                  /\ IF Cached(t, list) = {}
                     THEN Goes(t, "clone") /\ UNCHANGED cached
                     ELSE /\ \E clone \in Cached(t, list) : cached' = [cached EXCEPT ![t] = clone]
                          /\ Goes(t, "local")
            /\ UNCHANGED <<place, tries, expired>>
    /\ UNCHANGED <<request, discovered, selected, workspaces, prepared, faults>>

Fills(t, w, content) ==
    /\ workspaces' = With(w, content)
    /\ place' = [place EXCEPT ![t] = w]
    /\ Goes(t, "finish")

\* Mutant: the cached workspace itself is used when it is of the right commit.
CloneCachedInPlace(t) ==
    /\ pc[t] = "local"
    /\ \/ /\ ~expired[t] /\ cached[t].workspace \in DOMAIN workspaces
          /\ Pinned(t) => workspaces[cached[t].workspace].tree = Revision(request[t])
          /\ Fills(t, cached[t].workspace, workspaces[cached[t].workspace])
          /\ cached' = [cached EXCEPT ![t] = NoClone]
       \/ /\ Goes(t, "clone")
          /\ cached' = [cached EXCEPT ![t] = NoClone]
          /\ UNCHANGED <<place, workspaces>>
    /\ UNCHANGED <<request, discovered, selected, queue, tries, expired, prepared, faults>>

\* cloneCachedGitRepository: the commit the cached repository is at when git reads it;
\* of one that has none git makes an empty workspace.  The marker has the commit that
\* git reports afterwards, if it does.
CloneCached(t) ==
    /\ pc[t] = "local"
    /\ \/ /\ ~expired[t] /\ ~Full /\ cached[t].workspace \in DOMAIN workspaces
          /\ LET commit == workspaces[cached[t].workspace].tree
             IN  \E read \in {commit, NoCommit} :
                    /\ Pinned(t) => read = Revision(request[t])
                    /\ Fills(t, New, Filled("full", NoRepo, cached[t].repo, commit, read))
       \/ Goes(t, "clone") /\ UNCHANGED <<place, workspaces>>
    /\ cached' = [cached EXCEPT ![t] = NoClone]
    /\ UNCHANGED <<request, discovered, selected, queue, tries, expired, prepared, faults>>

\* cloneFirstAvailableRepository: one candidate after the other.
BeginClone(t) ==
    /\ pc[t] = "clone"
    /\ IF queue[t] = << >> \/ Full
       THEN Fail(t) /\ UNCHANGED workspaces
       ELSE /\ workspaces' = With(New, Begun(t, Head(queue[t])))
            /\ place' = [place EXCEPT ![t] = New]
            /\ tries' = [tries EXCEPT ![t] = 1]
            /\ Goes(t, "git")
            /\ UNCHANGED <<queue, cached, expired>>
    /\ UNCHANGED <<request, discovered, selected, prepared, faults>>

\* cloneRepositoryWithRetry, cloneRepositoryRevisionWithRetry
GitSucceeds(t) ==
    /\ pc[t] = "git" /\ ~expired[t]
    /\ \E commit \in Wanted(t, Head(queue[t])) :
          \E read \in {commit, NoCommit} :
             /\ Pinned(t) => read = Revision(request[t])
             /\ Fills(t, place[t], Filled("full", Head(queue[t]), Head(queue[t]), commit, read))
    /\ UNCHANGED <<request, discovered, selected, queue, cached, tries, expired, prepared, faults>>

\* Mutant: the candidate that failed stays the next one.
NextCandidateAgain(t) ==
    /\ workspaces' = Without(place[t])
    /\ place' = [place EXCEPT ![t] = NoWorkspace]
    /\ tries' = [tries EXCEPT ![t] = 0]
    /\ Goes(t, "clone")
    /\ UNCHANGED queue

NextCandidate(t) ==
    /\ workspaces' = Without(place[t])
    /\ place' = [place EXCEPT ![t] = NoWorkspace]
    /\ tries' = [tries EXCEPT ![t] = 0]
    /\ queue' = [queue EXCEPT ![t] = Tail(@)]
    /\ Goes(t, "clone")

\* resetRepositoryWorkspace
Reset(t) == workspaces' = With(place[t], Workspace("none", NoRepo, NoMarker, NoCommit))

\* A clone is repeated once and then replaced by the archive, but for the deadline, a
\* marker that cannot be written and a directory that cannot be made again.
GitFails(t) ==
    /\ pc[t] = "git"
    /\ \/ /\ tries[t] = 1
          /\ tries' = [tries EXCEPT ![t] = 2]
          /\ workspaces' = With(place[t], Begun(t, Head(queue[t])))
          /\ UNCHANGED <<pc, queue, place>>
       \/ NextCandidate(t)
       \/ /\ tries[t] = 2 /\ ~expired[t]
          /\ Reset(t)
          /\ Goes(t, "archive")
          /\ UNCHANGED <<queue, place, tries>>
    /\ UNCHANGED <<request, discovered, selected, cached, expired, prepared, faults>>

\* downloadGitHubRepositoryArchive: of the commit asked for, or of the HEAD.
Download(t) ==
    /\ pc[t] = "archive"
    /\ \/ /\ ~expired[t]
          /\ \E commit \in Wanted(t, Head(queue[t])) :
                Fills(t, place[t], Filled("none", NoRepo, Head(queue[t]), commit, commit))
          /\ UNCHANGED <<queue, tries>>
       \/ NextCandidate(t)
    /\ UNCHANGED <<request, discovered, selected, cached, expired, prepared, faults>>

-----------------------------------------------------------------------------
(* The end of a preparation.                                               *)

\* DecidePaperReproductionMode
FullReproduction(r, eligible) == /\ r.mode # "smoke"
                                 /\ r.mode = "full" \/ r.fullRequested
                                 /\ eligible

Entry(r, eligible) ==
    IF r.skipRunner THEN "repository_workspace"
    ELSE IF FullReproduction(r, eligible) THEN "repository_full_experiment" ELSE "smoke"

\* maybeCreateReproductionSmokeRunner, for repositories that allow one.
WritesRunner(r, eligible) == Entry(r, eligible) = "smoke" /\ r.attention

\* materializeUploadedFiles
WritesUploads(r) == r.uploads

Written(t, eligible) ==
    IF WritesUploads(request[t]) \/ WritesRunner(request[t], eligible) THEN {t} ELSE {}

\* executeRepoPrepare after the clone: scan and uploaded files, the commit once more, the
\* mode.  A preparation that fails here leaves its workspace behind.
Finish(t) ==
    /\ pc[t] = "finish"
    /\ LET w == workspaces[place[t]]
           matching == Pinned(t) => w.marker.commit = Revision(request[t])
       IN  \/ /\ IF matching THEN Fault ELSE UNCHANGED faults
              /\ Fail(t) /\ UNCHANGED <<workspaces, prepared>>
           \/ /\ matching
              /\ \E eligible \in BOOLEAN :
                    workspaces' = With(place[t], [w EXCEPT !.files = @ \cup Written(t, eligible)])
              /\ prepared' = [prepared EXCEPT ![t] = [workspace |-> place[t], repo |-> w.marker.repo,
                                                     commit |-> w.marker.commit]]
              /\ Goes(t, "done") /\ Forget(t) /\ UNCHANGED faults
    /\ UNCHANGED <<request, discovered, selected>>

-----------------------------------------------------------------------------
(* Everything else.                                                        *)

\* The later tasks of the plan write in its workspace.
Edit(t) ==
    /\ pc[t] = "done"
    /\ LET w == prepared[t].workspace
       IN  workspaces' = With(w, [workspaces[w] EXCEPT !.files = @ \cup {t}])
    /\ UNCHANGED <<request, pc, discovered, selected, locals, prepared, faults>>

\* The plan is canceled or past its deadline.
Expire(t) ==
    /\ Fault
    /\ pc[t] \in Working /\ ~expired[t]
    /\ expired' = [expired EXCEPT ![t] = TRUE]
    /\ UNCHANGED <<request, pc, discovered, selected, queue, cached, place, tries,
                   workspaces, prepared>>

\* The process dies with every task that works; workspaces stay.
Crash ==
    /\ Fault
    /\ pc' = [t \in Task |-> IF pc[t] \in Working THEN "failed" ELSE pc[t]]
    /\ LET forgotten(f, empty) == [t \in Task |-> IF pc[t] \in Working THEN empty ELSE f[t]]
       IN  /\ queue' = forgotten(queue, << >>) /\ cached' = forgotten(cached, NoClone)
           /\ place' = forgotten(place, NoWorkspace) /\ tries' = forgotten(tries, 0)
           /\ expired' = forgotten(expired, FALSE)
    /\ UNCHANGED <<request, discovered, selected, workspaces, prepared>>

\* git is a process group of its own: a clone outlives the process that began it.
OrphanEnds ==
    /\ \E w \in DOMAIN workspaces \ {place[t] : t \in Task} :
          /\ workspaces[w].git = "cloning"
          /\ \E commit \in History[workspaces[w].config] :
                workspaces' = With(w, Workspace("full", workspaces[w].config, NoMarker, commit))
    /\ UNCHANGED <<request, pc, discovered, selected, locals, prepared, faults>>

Repeat(t) ==
    /\ pc[t] = "failed"
    /\ Goes(t, IF discovered[t] = << >> /\ selected[t] = NoRepo THEN "discover" ELSE "prepare")
    /\ UNCHANGED <<request, discovered, selected, locals, workspaces, prepared, faults>>

-----------------------------------------------------------------------------
RepositoryInit ==
    /\ request \in Requests
    /\ pc = [t \in Task |-> "discover"]
    /\ discovered = [t \in Task |-> << >>] /\ selected = [t \in Task |-> NoRepo]
    /\ queue = [t \in Task |-> << >>]
    /\ cached = [t \in Task |-> NoClone] /\ place = [t \in Task |-> NoWorkspace]
    /\ tries = [t \in Task |-> 0] /\ expired = [t \in Task |-> FALSE]
    /\ workspaces = << >> /\ faults = 0
    /\ prepared = [t \in Task |-> [workspace |-> NoWorkspace, repo |-> NoRepo,
                                   commit |-> NoCommit]]

Step(t) == \/ Discover(t) \/ Prepare(t) \/ CloneCached(t) \/ BeginClone(t)
           \/ GitSucceeds(t) \/ GitFails(t) \/ Download(t) \/ Finish(t)

Environment == \/ \E t \in Task : Edit(t) \/ Expire(t) \/ Repeat(t)
               \/ Crash \/ OrphanEnds

RepositoryNext == (\E t \in Task : Step(t)) \/ Environment

\* Each task has a goroutine; git, the archive and the searches have timeouts.
RepositorySpec == RepositoryInit /\ [][RepositoryNext]_repositoryVars /\ \A t \in Task : WF_repositoryVars(Step(t))

-----------------------------------------------------------------------------
\* A prepared workspace is the plan's alone and has nothing another plan wrote, whatever
\* it was cloned from; it is of one of the candidates, its report and its marker name
\* the commit it holds, if any, and a plan that asked for a commit has that commit,
\* through cache hits, other plans' clones and edits, crashes and fallbacks
\* (repo_prepare.go, cloneCachedGitRepository, cloneRepositoryRevisionWithRetry).
PreparedWorkspaces ==
    \A t \in Task : pc[t] = "done" =>
        LET w == workspaces[prepared[t].workspace]
        IN  /\ prepared[t].workspace \in DOMAIN workspaces
            /\ \A u \in Task \ {t} : /\ pc[u] = "done" => prepared[u].workspace # prepared[t].workspace
                                     /\ place[u] # prepared[t].workspace
            /\ w.files \subseteq {t}
            /\ prepared[t].repo \in Candidates(t)
            /\ prepared[t].commit \in {w.tree, NoCommit} /\ w.marker.commit = prepared[t].commit
            /\ Pinned(t) => w.tree = Revision(request[t]) /\ prepared[t].commit = w.tree

\* A task that looks for or prepares a repository ends, whatever its searches, its git
\* commands and its downloads do (repo_prepare.go, cloneFirstAvailableRepository).
PreparationEnds == \A t \in Task : (pc[t] \in Working) ~> (pc[t] \in {"done", "failed"})
=============================================================================
