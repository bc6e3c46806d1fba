------------------------------- MODULE DagEngine -------------------------------
(***************************************************************************)
(* The prototype of docker-core: ExecuteGraph (executor/engine.go) runs    *)
(* the nodes of a graph in one container, each node as a race of commands  *)
(* that share one terminal session (sandbox/session.go), snapshots the     *)
(* container after each node and can go back to a snapshot                 *)
(* (checkpoint/manager.go).                                                *)
(*                                                                         *)
(* The container is the set of the commands that have ended well in it;    *)
(* what others leave behind is not modelled.                               *)
(***************************************************************************)
EXTENDS Naturals, FiniteSets, Sequences

CONSTANTS Node, Command,
          Plans,                 \* what the agent may answer to Plan
          Offered,               \* the commands the agent may offer for a vague node
          Slots                  \* MaxConcurrentIO

\* A planned node has the nodes it depends on and at most one command; a caller that adds
\* nodes itself gives as many as it likes.
Planned == [dependencies : SUBSET Node, commands : SUBSET Command]

ASSUME DagEngineAssumption ==
    /\ IsFiniteSet(Node)
    /\ \A plan \in Plans : DOMAIN plan \subseteq Node /\ \A n \in DOMAIN plan : plan[n] \in Planned
    /\ Offered \in [Node -> SUBSET Command]
    /\ Slots \in Nat \ {0}

VARIABLES dag,
          run,
          parent, over,          \* the caller's context and the one of the nodes are done
          failure,               \* errChan holds an error
          pc, race, result,      \* of each node: position, commands, first of resultChan
          exec,                  \* where each command is
          shell,                 \* what the terminal has been typed and has not yet run
          lines,                 \* the delimiters it has printed
          expired,               \* the command in the session is given up
          interrupts,            \* the commands whose Ctrl-C is on its way
          effects,               \* the container
          image, registry        \* a node's uncommitted image, the snapshots

graph == <<dag, run, parent, over, failure>>
nodes == <<pc, race, result>>
session == <<exec, shell, lines, expired, interrupts>>
snapshots == <<image, registry>>
vars == <<graph, nodes, session, effects, snapshots>>

Active == {n \in DOMAIN dag : pc[n] \in {"acquire", "generate", "race", "commit", "register"}}
Goes(n, where) == pc' = [pc EXCEPT ![n] = where]

-----------------------------------------------------------------------------
(* ExecuteGraph: the loop that starts nodes, and the goroutine that counts   *)
(* the finished ones.                                                        *)

\* Dependencies outside of the counted nodes keep inDegrees above zero.
Unlocked(n) == \A m \in dag[n] : pc[m] = "counted"

Take(n) ==
    /\ run = "running" /\ pc[n] = "waiting" /\ Unlocked(n)
    /\ Goes(n, "acquire")
    /\ UNCHANGED <<graph, race, result, session, effects, snapshots>>

Count(n) ==
    /\ pc[n] = "done" /\ Goes(n, "counted")
    /\ UNCHANGED <<graph, race, result, session, effects, snapshots>>

\* Mutant: nodes are counted when they are started.
CompleteWhenStarted == \A n \in DOMAIN dag : pc[n] # "waiting"

Complete == \A n \in DOMAIN dag : pc[n] = "counted"

Succeed ==
    /\ run = "running" /\ Complete
    /\ run' = "ok" /\ over' = TRUE
    /\ UNCHANGED <<dag, parent, failure, nodes, session, effects, snapshots>>

\* An error stops the other nodes; it is returned when they have all stopped.
Failing ==
    /\ run = "running" /\ failure
    /\ run' = "failing" /\ failure' = FALSE /\ over' = TRUE
    /\ UNCHANGED <<dag, parent, nodes, session, effects, snapshots>>

\* Once the caller's context is done the loop ends without an error.
Leave ==
    /\ run = "running" /\ over
    /\ run' = "leaving"
    /\ UNCHANGED <<dag, parent, over, failure, nodes, session, effects, snapshots>>

Return ==
    /\ Active = {}
    /\ \/ run = "failing" /\ run' = "error"
       \/ run = "leaving" /\ run' = "ok"
    /\ over' = TRUE
    /\ UNCHANGED <<dag, parent, failure, nodes, session, effects, snapshots>>

\* The caller's context ends.
Cancel ==
    /\ run = "running" /\ ~parent
    /\ parent' = TRUE /\ over' = TRUE
    /\ UNCHANGED <<dag, run, failure, nodes, session, effects, snapshots>>

-----------------------------------------------------------------------------
(* executeNode.                                                              *)

\* errChan has room for one error; the others are dropped.
Fails(n) == Goes(n, "failed") /\ failure' = TRUE

Starts(n, commands) ==
    /\ Goes(n, "race")
    /\ race' = [race EXCEPT ![n] = commands]
    /\ exec' = [c \in Command |-> IF c \in commands THEN "queued" ELSE exec[c]]

Acquire(n) ==
    /\ pc[n] = "acquire"
    /\ Cardinality({m \in DOMAIN dag : pc[m] \in {"generate", "race"}}) < Slots
    /\ \/ race[n] = {} /\ Goes(n, "generate") /\ UNCHANGED <<race, exec>>
       \/ race[n] # {} /\ Starts(n, race[n])
    /\ UNCHANGED <<graph, result, shell, lines, expired, interrupts, effects, snapshots>>

\* GenerateStrategies; when it fails the node has no command and nothing runs.
Generate(n) ==
    /\ pc[n] = "generate"
    /\ \E commands \in SUBSET Offered[n] : Starts(n, commands)
    /\ UNCHANGED <<graph, result, shell, lines, expired, interrupts, effects, snapshots>>

Outcome(n) ==
    /\ pc[n] = "race"
    /\ \/ result[n] = "won" /\ Goes(n, "commit") /\ UNCHANGED failure
       \/ result[n] = "lost" /\ Fails(n)
    /\ UNCHANGED <<dag, run, parent, over, race, result, session, effects, snapshots>>

\* Mutant: the clock of a node starts when the session takes one of its commands.
NodeTimeoutOfTyped(n) ==
    /\ pc[n] = "race" /\ (\E c \in race[n] : exec[c] \notin {"none", "queued"}) /\ Fails(n)
    /\ UNCHANGED <<dag, run, parent, over, race, result, session, effects, snapshots>>

NodeTimeout(n) ==
    /\ pc[n] = "race" /\ Fails(n)
    /\ UNCHANGED <<dag, run, parent, over, race, result, session, effects, snapshots>>

Quit(n) ==
    /\ pc[n] \in {"acquire", "race"} /\ over /\ Fails(n)
    /\ UNCHANGED <<dag, run, parent, over, race, result, session, effects, snapshots>>

-----------------------------------------------------------------------------
(* Session.Execute, one command at a time, through the watchdog.             *)

Racing(c) == {n \in DOMAIN dag : c \in race[n]}

\* nodeCtx is done.
Canceled(c) ==
    \/ over
    \/ \A n \in Racing(c) : pc[n] # "race" \/ result[n] # "none"

Becomes(c, what) == exec' = [exec EXCEPT ![c] = what]

\* The mutex has no context: a command whose race is lost is typed all the same.
Type(c) ==
    /\ exec[c] = "queued" /\ \A d \in Command : exec[d] # "typed"
    /\ Becomes(c, "typed")
    /\ shell' = Append(shell, [of |-> c, echo |-> TRUE])
    /\ UNCHANGED <<graph, nodes, lines, expired, interrupts, effects, snapshots>>

\* The context is done, or one of the timeouts of session and watchdog has passed.
Expire(c) ==
    /\ exec[c] = "typed" /\ ~expired
    /\ expired' = TRUE /\ interrupts' = interrupts \cup {c}
    /\ UNCHANGED <<graph, nodes, exec, shell, lines, effects, snapshots>>

\* What Execute returns to a command whose race is over reaches nobody.
Returns(c, code) == Becomes(c, IF Canceled(c) THEN "left" ELSE code)

\* ReadUntilDelimiter drops what precedes the delimiter of the command.
\* Mutant: one delimiter for all commands.
MatchesAny(c, line) == TRUE

Matches(c, line) == line.of = c

Read(c) ==
    /\ exec[c] = "typed"
    /\ \E i \in DOMAIN lines :
           /\ Matches(c, lines[i]) /\ \A j \in 1..(i - 1) : ~Matches(c, lines[j])
           /\ Returns(c, lines[i].code)
           /\ lines' = SubSeq(lines, i + 1, Len(lines))
    /\ expired' = FALSE
    /\ UNCHANGED <<graph, nodes, shell, interrupts, effects, snapshots>>

GiveUp(c) ==
    /\ exec[c] = "typed" /\ expired
    /\ Returns(c, "nonzero") /\ lines' = << >> /\ expired' = FALSE
    /\ UNCHANGED <<graph, nodes, shell, interrupts, effects, snapshots>>

AllFailed(n, c) == \A d \in race[n] \ {c} : exec[d] = "left"

\* What the watchdog and the engine make of an exit code: a success whose output is empty
\* reads as the failure of all commands, one that looks like a crash, that came too late or
\* that the circuit breaker has seen too often is an error.
Verdicts(code) == IF code = "zero" THEN {"won", "lost", "error"} ELSE {"error"}

Report(c) ==
    /\ exec[c] \in {"zero", "nonzero"}
    /\ Becomes(c, "left")
    /\ \E verdict \in Verdicts(exec[c]) :
           result' = [n \in DOMAIN dag |->
               IF n \notin Racing(c) \/ Canceled(c) THEN result[n]
               ELSE IF verdict # "error" THEN verdict
               ELSE IF AllFailed(n, c) THEN "lost" ELSE result[n]]
    /\ UNCHANGED <<graph, pc, race, shell, lines, expired, interrupts, effects, snapshots>>

-----------------------------------------------------------------------------
(* The shell of the container.                                               *)

Exit(code) ==
    /\ shell # << >>
    /\ effects' = effects \cup IF code = "zero" THEN {Head(shell).of} ELSE {}
    /\ lines' = IF Head(shell).echo THEN Append(lines, [of |-> Head(shell).of, code |-> code]) ELSE lines
    /\ shell' = Tail(shell)
    /\ UNCHANGED <<graph, nodes, exec, expired, interrupts, snapshots>>

\* A Ctrl-C ends whatever runs when it arrives, or not if the program ignores it, and
\* drops all that has been typed ahead, the echo of the delimiter included.
Interrupt(c) ==
    /\ c \in interrupts
    /\ interrupts' = interrupts \ {c}
    /\ \/ shell' = << >>
       \/ shell # << >> /\ shell' = <<[Head(shell) EXCEPT !.echo = FALSE]>>
    /\ UNCHANGED <<graph, nodes, exec, lines, expired, effects, snapshots>>

-----------------------------------------------------------------------------
(* Snapshots.  Commit takes no lock of the session.                          *)

Commit(n) ==
    /\ pc[n] = "commit"
    /\ \/ image' = [image EXCEPT ![n] = effects] /\ Goes(n, "register")
       \/ Goes(n, "done") /\ UNCHANGED image        \* a failed commit is only reported
    /\ UNCHANGED <<graph, race, result, session, effects, registry>>

Snapshot(n, content) == [node |-> n, effects |-> content]

Registered(snap) ==
    LET same == {i \in DOMAIN registry : registry[i].node = snap.node}
    IN  IF same = {} THEN Append(registry, snap)
        ELSE [i \in DOMAIN registry |-> IF i \in same THEN snap ELSE registry[i]]

Register(n) ==
    /\ pc[n] = "register"
    /\ registry' = Registered(Snapshot(n, image[n]))
    /\ image' = [image EXCEPT ![n] = {}]
    /\ Goes(n, "done")
    /\ UNCHANGED <<graph, race, result, session, effects>>

\* The old session ends: what it was doing fails, and so does what already waits for it.
Drop(waiting) ==
    /\ shell' = << >> /\ lines' = << >> /\ expired' = FALSE /\ interrupts' = {}
    /\ exec' = [c \in Command |-> IF c \in waiting \/ exec[c] = "typed" THEN "left" ELSE exec[c]]

Queued == {c \in Command : exec[c] = "queued"}

Container(snap) == snap.effects
Until(i) == SubSeq(registry, 1, i)

\* The caller goes back to a snapshot: a new container, a new session, in which a command
\* that has not yet asked for the session is still typed.
Rollback(i) ==
    /\ run = "error"
    /\ effects' = Container(registry[i])
    /\ registry' = Until(i)
    /\ \E waiting \in SUBSET Queued : Drop(waiting)
    /\ run' = "restored"
    /\ UNCHANGED <<dag, parent, over, failure, nodes, image>>

\* The old container is not removed; or it is and no new one starts; or the new one gets
\* no session.  The snapshots stay registered.
RollbackFails(i) ==
    /\ run = "error" /\ run' = "broken"
    /\ \/ UNCHANGED <<session, effects>>
       \/ effects' = {} /\ Drop(Queued)
       \/ effects' = Container(registry[i]) /\ Drop(Queued)
    /\ UNCHANGED <<dag, parent, over, failure, nodes, snapshots>>

-----------------------------------------------------------------------------
\* Plan: dependencies on nodes the plan does not have are left out.
Edges(plan) == [n \in DOMAIN plan |-> plan[n].dependencies \cap DOMAIN plan]

Init ==
    /\ \E plan \in Plans :
           /\ dag = Edges(plan)
           /\ race = [n \in DOMAIN plan |-> plan[n].commands]
    /\ run = "running"
    /\ parent = FALSE /\ over = FALSE /\ failure = FALSE
    /\ pc = [n \in DOMAIN dag |-> "waiting"] /\ result = [n \in DOMAIN dag |-> "none"]
    /\ exec = [c \in Command |-> "none"]
    /\ shell = << >> /\ lines = << >> /\ expired = FALSE /\ interrupts = {}
    /\ effects = {}
    /\ image = [n \in DOMAIN dag |-> {}] /\ registry = << >>

Works(n) ==
    \/ Take(n) \/ Acquire(n) \/ Generate(n) \/ Outcome(n) \/ NodeTimeout(n) \/ Quit(n)
    \/ Commit(n) \/ Register(n) \/ Count(n)

Executes(c) == Type(c) \/ Expire(c) \/ Read(c) \/ GiveUp(c) \/ Report(c) \/ Interrupt(c)

Next ==
    \/ Succeed \/ Failing \/ Leave \/ Return \/ Cancel
    \/ \E n \in DOMAIN dag : Works(n)
    \/ \E c \in Command : Executes(c)
    \/ \E code \in {"zero", "nonzero"} : Exit(code)
    \/ \E i \in DOMAIN registry : Rollback(i) \/ RollbackFails(i)

\* The goroutines of the engine are scheduled, the requests of the agent and of Docker
\* answer and timers fire.  Nothing is assumed of a command.
Fairness ==
    /\ WF_vars(Succeed) /\ WF_vars(Failing) /\ WF_vars(Leave) /\ WF_vars(Return)
    /\ \A n \in Node : WF_vars(n \in DOMAIN dag /\ Works(n))

Spec == Init /\ [][Next]_vars /\ Fairness

-----------------------------------------------------------------------------
(* Type invariant: the slots of the gatekeeper, one command in the session.  *)
TypeOK ==
    /\ DOMAIN dag \subseteq Node /\ dag \in [DOMAIN dag -> SUBSET DOMAIN dag]
    /\ run \in {"running", "failing", "leaving", "ok", "error", "restored", "broken"}
    /\ parent \in BOOLEAN /\ over \in BOOLEAN /\ failure \in BOOLEAN
    /\ pc \in [DOMAIN dag -> {"waiting", "acquire", "generate", "race", "commit", "register",
                              "done", "counted", "failed"}]
    /\ race \in [DOMAIN dag -> SUBSET Command]
    /\ result \in [DOMAIN dag -> {"none", "won", "lost"}]
    /\ exec \in [Command -> {"none", "queued", "typed", "zero", "nonzero", "left"}]
    /\ \A c, d \in Command : exec[c] = "typed" /\ exec[d] = "typed" => c = d
    /\ Cardinality({n \in DOMAIN dag : pc[n] \in {"generate", "race"}}) <= Slots
    /\ shell \in Seq([of : Command, echo : BOOLEAN])
    /\ lines \in Seq([of : Command, code : {"zero", "nonzero"}])
    /\ expired \in BOOLEAN /\ interrupts \subseteq Command
    /\ effects \subseteq Command
    /\ image \in [DOMAIN dag -> SUBSET Command]
    /\ registry \in Seq([node : DOMAIN dag, effects : SUBSET Command])

\* A snapshot can be built on: in whatever order commands, interrupts, timeouts and commits
\* of parallel nodes fall, it holds all that a command of its node and of each node before
\* it has done, also after a rollback (engine.go:59-70, stream_splitter.go:113-145,
\* manager.go:44-73).
Past(n) == CHOOSE S \in SUBSET DOMAIN dag :
               /\ n \in S /\ \A m \in S : dag[m] \subseteq S
               /\ \A T \in SUBSET S : (n \in T /\ \A m \in T : dag[m] \subseteq T) => T = S

Holds(content, n) == race[n] \cap content # {}

SnapshotHasItsPast ==
    \A i \in DOMAIN registry : \A m \in Past(registry[i].node) : Holds(registry[i].effects, m)

\* Unless its caller gave up, ExecuteGraph returns without an error only when every node has
\* been counted and its effects are in the container, and with one only when a node of this
\* call failed (engine.go:80-133).
SuccessIsComplete ==
    /\ (run = "ok" /\ ~parent) => \A n \in DOMAIN dag : pc[n] = "counted" /\ Holds(effects, n)
    /\ run = "error" => \E n \in DOMAIN dag : pc[n] = "failed"

\* ExecuteGraph returns, whatever the commands do: a node's timeout ends it even when the
\* session is stuck with another command (engine.go:190-210).
GraphSettles == run = "running" ~> run \in {"ok", "error"}
=============================================================================
