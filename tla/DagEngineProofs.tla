--------------------------- MODULE DagEngineProofs ---------------------------
(***************************************************************************)
(* Proofs about DagEngine for any graph, commands and number of slots: a   *)
(* snapshot holds what its node and all nodes before it have done, and     *)
(* ExecuteGraph succeeds only when everything has been done.               *)
(***************************************************************************)
EXTENDS DagEngine, FiniteSetTheorems, SequenceTheorems, TLAPS

Ended == {"ok", "error", "restored", "broken"}
HasRun == {"commit", "register", "done", "counted"}

\* A node that is under way has its dependencies behind it.
GraphOK ==
    /\ \A n \in DOMAIN dag : pc[n] # "waiting" => \A m \in dag[n] : pc[m] = "counted"
    /\ \A n \in DOMAIN dag : pc[n] = "generate" => race[n] = {}

\* How a run ends.
RunOK ==
    /\ run = "running" /\ over => parent
    /\ run = "leaving" => parent
    /\ (run = "running" /\ failure) \/ run \in {"failing", "error"} =>
          \E n \in DOMAIN dag : pc[n] = "failed"
    /\ run \in Ended => Active = {}
    /\ run = "ok" /\ ~parent => \A n \in DOMAIN dag : pc[n] = "counted"

\* Until somebody goes back to a snapshot, what has been reported has been done.
EffectsOK ==
    run \notin {"restored", "broken"} =>
        /\ \A i \in DOMAIN lines : lines[i].code = "zero" => lines[i].of \in effects
        /\ \A c \in Command : exec[c] = "zero" => c \in effects
        /\ \A n \in DOMAIN dag : result[n] = "won" \/ pc[n] \in HasRun => Holds(effects, n)

\* An image, and a snapshot of a node that is done, hold all that came before.
HoldsPast(content, n) == \A m \in Past(n) : Holds(content, m)

SnapshotsOK ==
    /\ \A n \in DOMAIN dag : pc[n] = "register" => HoldsPast(image[n], n)
    /\ \A i \in DOMAIN registry : /\ pc[registry[i].node] \in {"done", "counted"}
                                  /\ HoldsPast(registry[i].effects, registry[i].node)

EngineInv == TypeOK /\ GraphOK /\ RunOK /\ EffectsOK /\ SnapshotsOK

-----------------------------------------------------------------------------
(* The past of a node                                                        *)

\* A set of nodes that holds what its members depend on.
Closed(S) == \A m \in S : dag[m] \subseteq S

(* Every node has a past: the smallest closed set with the node in it. *)
LEMMA PastIsSmallest ==
    ASSUME dag \in [DOMAIN dag -> SUBSET DOMAIN dag], NEW n \in DOMAIN dag
    PROVE  /\ Past(n) \subseteq DOMAIN dag /\ n \in Past(n) /\ Closed(Past(n))
           /\ \A T \in SUBSET Past(n) : n \in T /\ Closed(T) => T = Past(n)
<1> DEFINE IsPast(S) == /\ n \in S /\ \A m \in S : dag[m] \subseteq S
                        /\ \A T \in SUBSET S :
                              (n \in T /\ \A m \in T : dag[m] \subseteq T) => T = S
           Smallest == {m \in DOMAIN dag :
                          \A S \in SUBSET DOMAIN dag : n \in S /\ Closed(S) => m \in S}
<1>1. n \in Smallest /\ Smallest \in SUBSET DOMAIN dag
  OBVIOUS
<1>2. \A m \in Smallest : dag[m] \subseteq Smallest
  BY DEF Closed
<1>3. \A T \in SUBSET Smallest : (n \in T /\ \A m \in T : dag[m] \subseteq T) => T = Smallest
  BY <1>1 DEF Closed
<1>4. \E S \in SUBSET DOMAIN dag : IsPast(S)
  <2> HIDE DEF Smallest
  <2>1. IsPast(Smallest)
    BY <1>1, <1>2, <1>3
  <2> QED
    BY <1>1, <2>1
<1>5. Past(n) = CHOOSE S \in SUBSET DOMAIN dag : IsPast(S)
  BY DEF Past
<1>6. Past(n) \in SUBSET DOMAIN dag /\ IsPast(Past(n))
  <2> HIDE DEF IsPast, Smallest
  <2> QED
    BY <1>4, <1>5
<1> QED
  BY <1>6 DEF Closed

(* A node that is under way has all that comes before it behind it. *)
LEMMA PastIsCounted ==
    ASSUME TypeOK, GraphOK, NEW n \in DOMAIN dag, pc[n] # "waiting"
    PROVE  \A m \in Past(n) : m = n \/ pc[m] = "counted"
<1> DEFINE T == {m \in Past(n) : m = n \/ pc[m] = "counted"}
<1>1. dag \in [DOMAIN dag -> SUBSET DOMAIN dag]
  BY DEF TypeOK
<1>2. T \in SUBSET Past(n) /\ n \in T
  BY <1>1, PastIsSmallest
<1>3. ASSUME NEW m \in T
      PROVE  dag[m] \subseteq T
  <2>1. dag[m] \subseteq Past(n) /\ m \in DOMAIN dag
    BY <1>1, PastIsSmallest DEF Closed
  <2>2. pc[m] # "waiting"
    OBVIOUS
  <2>3. \A d \in dag[m] : pc[d] = "counted"
    BY <2>1, <2>2 DEF GraphOK
  <2> QED
    BY <2>1, <2>3
<1>4. T = Past(n)
  <2> HIDE DEF T
  <2> QED
    BY <1>1, <1>2, <1>3, PastIsSmallest DEF Closed
<1> QED
  BY <1>4

(* The graph does not change, and with it the past of a node. *)
LEMMA PastIsStable ==
    ASSUME dag' = dag
    PROVE  \A n : Past(n)' = Past(n)
BY DEF Past

(* A node that gives its slot back, or keeps it, leaves enough of them. *)
LEMMA SlotsKept ==
    ASSUME TypeOK, dag' = dag,
           \A n \in DOMAIN dag : pc'[n] \in {"generate", "race"} => pc[n] \in {"generate", "race"}
    PROVE  Cardinality({n \in DOMAIN dag : pc[n] \in {"generate", "race"}})' <= Slots
<1> DEFINE busy == {n \in DOMAIN dag : pc[n] \in {"generate", "race"}}
<1>1. IsFiniteSet(busy) /\ busy' \in SUBSET busy
  <2>1. IsFiniteSet(DOMAIN dag)
    BY DagEngineAssumption, FS_Subset DEF TypeOK
  <2> QED
    BY <2>1, FS_Subset
<1>2. Cardinality(busy) \in Nat /\ Cardinality(busy') \in Nat /\ Cardinality(busy') <= Cardinality(busy)
  <2> HIDE DEF busy
  <2> QED
    BY <1>1, FS_Subset, FS_CardinalityType
<1>3. Cardinality(busy) <= Slots /\ Slots \in Nat
  BY DagEngineAssumption DEF TypeOK
<1> QED
  BY <1>2, <1>3

(* A snapshot is one of a node. *)
LEMMA SnapshotTypes ==
    ASSUME TypeOK
    PROVE  \A i \in DOMAIN registry : /\ registry[i].node \in DOMAIN dag
                                     /\ registry[i].effects \subseteq Command
<1> DEFINE Snapshots == [node : DOMAIN dag, effects : SUBSET Command]
<1>1. \A i \in DOMAIN registry : registry[i] \in Snapshots
  <2>1. registry \in Seq(Snapshots)
    BY DEF TypeOK
  <2> HIDE DEF Snapshots
  <2> QED
    BY <2>1, LenProperties, ElementOfSeq
<1> QED
  BY <1>1

(* Snapshots keep what they hold. *)
LEMMA SnapshotsKept ==
    ASSUME TypeOK, SnapshotsOK, UNCHANGED <<dag, image, registry>>,
           \A n \in DOMAIN dag : race'[n] = race[n] \/ race[n] = {},
           \A n \in DOMAIN dag :
               /\ pc'[n] = "register" => pc[n] = "register"
               /\ pc[n] \in {"done", "counted"} => pc'[n] \in {"done", "counted"}
    PROVE  SnapshotsOK'
<1>1. ASSUME NEW n \in DOMAIN dag, NEW content, HoldsPast(content, n)
      PROVE  \A m \in Past(n)' : (race')[m] \cap content # {}
  <2>1. Past(n)' = Past(n) /\ Past(n) \subseteq DOMAIN dag
    BY PastIsStable, PastIsSmallest DEF TypeOK
  <2> QED
    BY <1>1, <2>1 DEF HoldsPast, Holds
<1>2. ASSUME NEW i \in DOMAIN registry
      PROVE  registry[i].node \in DOMAIN dag
  BY <1>2, SnapshotTypes
<1>3. ASSUME NEW n \in DOMAIN dag, pc'[n] = "register"
      PROVE  HoldsPast(image[n], n)'
  BY <1>1, <1>3 DEF SnapshotsOK, HoldsPast, Holds
<1>4. ASSUME NEW i \in DOMAIN registry
      PROVE  /\ pc'[registry[i].node] \in {"done", "counted"}
             /\ HoldsPast(registry[i].effects, registry[i].node)'
  BY <1>1, <1>2, <1>4 DEF SnapshotsOK, HoldsPast, Holds
<1> QED
  BY <1>3, <1>4 DEF SnapshotsOK

-----------------------------------------------------------------------------
(* The loop of ExecuteGraph and its caller                                   *)

(* Starting and ending a run changes nothing in the container. *)
LEMMA CallerSteps ==
    ASSUME EngineInv, Succeed \/ Failing \/ Leave \/ Return \/ Cancel
    PROVE  EngineInv'
<1> USE DEF EngineInv
<1>1. TypeOK'
  BY DEF Succeed, Failing, Leave, Return, Cancel, Complete, nodes, session, snapshots, Active, Ended, TypeOK
<1>2. GraphOK'
  BY DEF Succeed, Failing, Leave, Return, Cancel, Complete, nodes, GraphOK
<1>3. RunOK'
  BY DEF Succeed, Failing, Leave, Return, Cancel, Complete, nodes, session, snapshots, Active, Ended, RunOK
<1>4. EffectsOK'
  BY DEF Succeed, Failing, Leave, Return, Cancel, nodes, session, snapshots, EffectsOK, Holds
<1>5. SnapshotsOK'
  BY SnapshotsKept DEF Succeed, Failing, Leave, Return, Cancel, nodes, snapshots
<1> QED
  BY <1>1, <1>2, <1>3, <1>4, <1>5

(* A node starts when its dependencies are behind it. *)
LEMMA TakeStep ==
    ASSUME EngineInv, NEW n \in DOMAIN dag, Take(n)
    PROVE  EngineInv'
<1> USE DEF EngineInv
<1>1. TypeOK'
  <2>1. Cardinality({m \in DOMAIN dag : pc[m] \in {"generate", "race"}})' <= Slots
    BY SlotsKept DEF Take, Unlocked, graph, nodes, session, snapshots, Goes, TypeOK
  <2> QED
    BY <2>1 DEF Take, Unlocked, graph, nodes, session, snapshots, Goes, TypeOK
<1>2. GraphOK'
  BY DEF Take, Unlocked, graph, nodes, session, snapshots, Goes, TypeOK, GraphOK
<1>3. RunOK'
  BY DEF Take, Unlocked, graph, nodes, session, snapshots, Goes, TypeOK, RunOK, Active, Ended
<1>4. EffectsOK'
  BY DEF Take, Unlocked, graph, nodes, session, snapshots, Goes, TypeOK, EffectsOK, HasRun, Holds
<1>5. SnapshotsOK'
  BY SnapshotsKept DEF Take, Unlocked, graph, nodes, session, snapshots, Goes, TypeOK
<1> QED
  BY <1>1, <1>2, <1>3, <1>4, <1>5

(* A node that is done is counted. *)
LEMMA CountStep ==
    ASSUME EngineInv, NEW n \in DOMAIN dag, Count(n)
    PROVE  EngineInv'
<1> USE DEF EngineInv
<1>1. TypeOK'
  <2>1. Cardinality({m \in DOMAIN dag : pc[m] \in {"generate", "race"}})' <= Slots
    BY SlotsKept DEF Count, graph, nodes, session, snapshots, Goes, TypeOK
  <2> QED
    BY <2>1 DEF Count, graph, nodes, session, snapshots, Goes, TypeOK
<1>2. GraphOK'
  BY DEF Count, graph, nodes, session, snapshots, Goes, TypeOK, GraphOK
<1>3. RunOK'
  BY DEF Count, graph, nodes, session, snapshots, Goes, TypeOK, RunOK, Active, Ended
<1>4. EffectsOK'
  BY DEF Count, graph, nodes, session, snapshots, Goes, TypeOK, EffectsOK, HasRun, Holds
<1>5. SnapshotsOK'
  BY SnapshotsKept DEF Count, graph, nodes, session, snapshots, Goes, TypeOK
<1> QED
  BY <1>1, <1>2, <1>3, <1>4, <1>5

(* The first report decides a race. *)
LEMMA OutcomeStep ==
    ASSUME EngineInv, NEW n \in DOMAIN dag, Outcome(n)
    PROVE  EngineInv'
<1> USE DEF EngineInv
<1>1. TypeOK'
  <2>1. Cardinality({m \in DOMAIN dag : pc[m] \in {"generate", "race"}})' <= Slots
    BY SlotsKept DEF Outcome, Fails, graph, nodes, session, snapshots, Goes, TypeOK
  <2> QED
    BY <2>1 DEF Outcome, Fails, graph, nodes, session, snapshots, Goes, TypeOK
<1>2. GraphOK'
  BY DEF Outcome, Fails, graph, nodes, session, snapshots, Goes, TypeOK, GraphOK
<1>3. RunOK'
  BY DEF Outcome, Fails, graph, nodes, session, snapshots, Goes, TypeOK, RunOK, Active, Ended
<1>4. EffectsOK'
  BY DEF Outcome, Fails, graph, nodes, session, snapshots, Goes, TypeOK, EffectsOK, HasRun, Holds
<1>5. SnapshotsOK'
  BY SnapshotsKept DEF Outcome, Fails, graph, nodes, session, snapshots, Goes, TypeOK
<1> QED
  BY <1>1, <1>2, <1>3, <1>4, <1>5

(* A node gives up. *)
LEMMA StopStep ==
    ASSUME EngineInv, NEW n \in DOMAIN dag, NodeTimeout(n) \/ Quit(n)
    PROVE  EngineInv'
<1> USE DEF EngineInv
<1>1. TypeOK'
  <2>1. Cardinality({m \in DOMAIN dag : pc[m] \in {"generate", "race"}})' <= Slots
    BY SlotsKept DEF NodeTimeout, Quit, Fails, graph, nodes, session, snapshots, Goes, TypeOK
  <2> QED
    BY <2>1 DEF NodeTimeout, Quit, Fails, graph, nodes, session, snapshots, Goes, TypeOK
<1>2. GraphOK'
  BY DEF NodeTimeout, Quit, Fails, graph, nodes, session, snapshots, Goes, TypeOK, GraphOK
<1>3. RunOK'
  BY DEF NodeTimeout, Quit, Fails, graph, nodes, session, snapshots, Goes, TypeOK, RunOK, Active, Ended
<1>4. EffectsOK'
  BY DEF NodeTimeout, Quit, Fails, graph, nodes, session, snapshots, Goes, TypeOK, EffectsOK, HasRun, Holds
<1>5. SnapshotsOK'
  BY SnapshotsKept DEF NodeTimeout, Quit, Fails, graph, nodes, session, snapshots, Goes, TypeOK
<1> QED
  BY <1>1, <1>2, <1>3, <1>4, <1>5

(* One more element. *)
LEMMA OneMore ==
    ASSUME NEW S, NEW x, NEW T \in SUBSET (S \cup {x}), IsFiniteSet(S)
    PROVE  /\ Cardinality(S) \in Nat /\ Cardinality(T) \in Nat
           /\ Cardinality(T) <= Cardinality(S) + 1
<1>1. /\ IsFiniteSet(S \cup {x})
      /\ Cardinality(S \cup {x}) = IF x \in S THEN Cardinality(S) ELSE Cardinality(S) + 1
  BY FS_AddElement
<1>2. IsFiniteSet(T) /\ Cardinality(T) <= Cardinality(S \cup {x})
  BY <1>1, FS_Subset
<1>3. Cardinality(S) \in Nat /\ Cardinality(T) \in Nat
  BY <1>2, FS_CardinalityType
<1> QED
  BY <1>1, <1>2, <1>3

(* A node that gets a slot leaves no more of them than there are. *)
LEMMA SlotTaken ==
    ASSUME TypeOK, dag' = dag, NEW n \in DOMAIN dag,
           Cardinality({m \in DOMAIN dag : pc[m] \in {"generate", "race"}}) < Slots,
           \A m \in DOMAIN dag : m # n => pc'[m] = pc[m]
    PROVE  Cardinality({m \in DOMAIN dag : pc[m] \in {"generate", "race"}})' <= Slots
<1> DEFINE busy == {m \in DOMAIN dag : pc[m] \in {"generate", "race"}}
<1>1. IsFiniteSet(busy) /\ busy' \in SUBSET (busy \cup {n})
  <2>1. IsFiniteSet(DOMAIN dag)
    BY DagEngineAssumption, FS_Subset DEF TypeOK
  <2> QED
    BY <2>1, FS_Subset
<1>2. /\ Cardinality(busy) \in Nat /\ Cardinality(busy') \in Nat
      /\ Cardinality(busy') <= Cardinality(busy) + 1
  <2> HIDE DEF busy
  <2> QED
    BY <1>1, OneMore
<1>3. Slots \in Nat
  BY DagEngineAssumption
<1> QED
  BY <1>2, <1>3

(* A node gets a slot. *)
LEMMA AcquireStep ==
    ASSUME EngineInv, NEW n \in DOMAIN dag, Acquire(n)
    PROVE  EngineInv'
<1> USE DEF EngineInv
<1>1. TypeOK'
  <2>1. Cardinality({m \in DOMAIN dag : pc[m] \in {"generate", "race"}})' <= Slots
    BY SlotTaken DEF Acquire, Starts, graph, nodes, session, snapshots, Goes, TypeOK
  <2>2. exec' \in [Command -> {"none", "queued", "typed", "zero", "nonzero", "left"}]
    BY DEF Acquire, Starts, graph, nodes, session, snapshots, Goes, TypeOK
  <2>3. \A c, d \in Command : exec'[c] = "typed" /\ exec'[d] = "typed" => c = d
    BY DEF Acquire, Starts, graph, nodes, session, snapshots, Goes, TypeOK
  <2>4. /\ pc' \in [DOMAIN dag -> {"waiting", "acquire", "generate", "race", "commit", "register",
                              "done", "counted", "failed"}]
        /\ race' \in [DOMAIN dag -> SUBSET Command]
    BY DagEngineAssumption DEF Acquire, Starts, graph, nodes, session, snapshots, Goes, TypeOK
  <2>5. UNCHANGED <<graph, result, shell, lines, expired, interrupts, effects, snapshots>>
    BY DEF Acquire, Starts, graph, nodes, session, snapshots, Goes
  <2> QED
    BY <2>1, <2>2, <2>3, <2>4, <2>5 DEF graph, snapshots, TypeOK
<1>2. GraphOK'
  BY DEF Acquire, Starts, graph, nodes, session, snapshots, Goes, TypeOK, GraphOK
<1>3. RunOK'
  BY DEF Acquire, Starts, graph, nodes, session, snapshots, Goes, TypeOK, RunOK, Active, Ended
<1>4. EffectsOK'
  <2>1. \A c \in Command : exec'[c] = "zero" => exec[c] = "zero"
    BY DEF Acquire, Starts, graph, nodes, session, snapshots, Goes, TypeOK
  <2>2. \A m \in DOMAIN dag : race'[m] = race[m] \/ race[m] = {}
    BY DEF Acquire, Starts, graph, nodes, session, snapshots, Goes, TypeOK, GraphOK
  <2> QED
    BY <2>1, <2>2 DEF Acquire, Starts, graph, nodes, session, snapshots, Goes, TypeOK, EffectsOK, HasRun, Holds
<1>5. SnapshotsOK'
  BY SnapshotsKept DEF Acquire, Starts, graph, nodes, session, snapshots, Goes, TypeOK, GraphOK
<1> QED
  BY <1>1, <1>2, <1>3, <1>4, <1>5

(* The commands of a node are only made up before it runs any. *)
LEMMA GenerateStep ==
    ASSUME EngineInv, NEW n \in DOMAIN dag, Generate(n)
    PROVE  EngineInv'
<1> USE DEF EngineInv
<1>1. TypeOK'
  <2>1. Cardinality({m \in DOMAIN dag : pc[m] \in {"generate", "race"}})' <= Slots
    BY SlotsKept DEF Generate, Starts, graph, nodes, session, snapshots, Goes, TypeOK
  <2>2. exec' \in [Command -> {"none", "queued", "typed", "zero", "nonzero", "left"}]
    BY DEF Generate, Starts, graph, nodes, session, snapshots, Goes, TypeOK
  <2>3. \A c, d \in Command : exec'[c] = "typed" /\ exec'[d] = "typed" => c = d
    BY DEF Generate, Starts, graph, nodes, session, snapshots, Goes, TypeOK
  <2>4. /\ pc' \in [DOMAIN dag -> {"waiting", "acquire", "generate", "race", "commit", "register",
                              "done", "counted", "failed"}]
        /\ race' \in [DOMAIN dag -> SUBSET Command]
    BY DagEngineAssumption DEF Generate, Starts, graph, nodes, session, snapshots, Goes, TypeOK
  <2>5. UNCHANGED <<graph, result, shell, lines, expired, interrupts, effects, snapshots>>
    BY DEF Generate, Starts, graph, nodes, session, snapshots, Goes
  <2> QED
    BY <2>1, <2>2, <2>3, <2>4, <2>5 DEF graph, snapshots, TypeOK
<1>2. GraphOK'
  BY DEF Generate, Starts, graph, nodes, session, snapshots, Goes, TypeOK, GraphOK
<1>3. RunOK'
  BY DEF Generate, Starts, graph, nodes, session, snapshots, Goes, TypeOK, RunOK, Active, Ended
<1>4. EffectsOK'
  <2>1. \A c \in Command : exec'[c] = "zero" => exec[c] = "zero"
    BY DEF Generate, Starts, graph, nodes, session, snapshots, Goes, TypeOK
  <2>2. \A m \in DOMAIN dag : race'[m] = race[m] \/ race[m] = {}
    BY DEF Generate, Starts, graph, nodes, session, snapshots, Goes, TypeOK, GraphOK
  <2> QED
    BY <2>1, <2>2 DEF Generate, Starts, graph, nodes, session, snapshots, Goes, TypeOK, EffectsOK, HasRun, Holds
<1>5. SnapshotsOK'
  BY SnapshotsKept DEF Generate, Starts, graph, nodes, session, snapshots, Goes, TypeOK, GraphOK
<1> QED
  BY <1>1, <1>2, <1>3, <1>4, <1>5

-----------------------------------------------------------------------------
(* Commands in the session and the shell                                     *)

(* A piece of a sequence has nothing else in it. *)
LEMMA PieceOfSeq ==
    ASSUME NEW S, NEW s \in Seq(S), NEW i \in 1..(Len(s) + 1), NEW j \in 0..Len(s)
    PROVE  /\ SubSeq(s, i, j) \in Seq(S)
           /\ \A k \in DOMAIN SubSeq(s, i, j) : k + i - 1 \in DOMAIN s /\ SubSeq(s, i, j)[k] = s[k + i - 1]
<1>1. \A k \in i..j : s[k] \in S
  BY LenProperties, ElementOfSeq
<1>2. /\ SubSeq(s, i, j) \in Seq(S)
      /\ Len(SubSeq(s, i, j)) = IF i <= j THEN j - i + 1 ELSE 0
      /\ \A k \in 1..(j - i + 1) : SubSeq(s, i, j)[k] = s[i + k - 1]
  BY <1>1, SubSeqProperties
<1>3. DOMAIN SubSeq(s, i, j) = 1..Len(SubSeq(s, i, j)) /\ DOMAIN s = 1..Len(s) /\ Len(s) \in Nat
  BY <1>2, LenProperties
<1> QED
  BY <1>2, <1>3

(* One command is typed at a time. *)
LEMMA TypeStep ==
    ASSUME EngineInv, NEW c \in Command, Type(c)
    PROVE  EngineInv'
<1> USE DEF EngineInv
<1>1. TypeOK'
  <2>1. exec' \in [Command -> {"none", "queued", "typed", "zero", "nonzero", "left"}]
    BY DEF Type, Becomes, graph, nodes, session, snapshots, TypeOK
  <2>2. \A e, d \in Command : exec'[e] = "typed" /\ exec'[d] = "typed" => e = d
    BY DEF Type, Becomes, graph, nodes, session, snapshots, TypeOK
  <2>3. shell' \in Seq([of : Command, echo : BOOLEAN])
    BY DEF Type, Becomes, graph, nodes, session, snapshots, TypeOK
  <2> QED
    BY <2>1, <2>2, <2>3 DEF Type, Becomes, graph, nodes, session, snapshots, TypeOK
<1>2. GraphOK'
  BY DEF Type, Becomes, graph, nodes, session, snapshots, GraphOK
<1>3. RunOK'
  BY DEF Type, Becomes, graph, nodes, session, snapshots, RunOK, Active
<1>4. EffectsOK'
  BY DEF Type, Becomes, graph, nodes, session, snapshots, TypeOK, EffectsOK, HasRun, Holds
<1>5. SnapshotsOK'
  BY SnapshotsKept DEF Type, Becomes, graph, nodes, session, snapshots
<1> QED
  BY <1>1, <1>2, <1>3, <1>4, <1>5

(* A timeout or a Ctrl-C touches neither the container nor what has been reported. *)
LEMMA ExpireStep ==
    ASSUME EngineInv, NEW c \in Command, Expire(c) \/ Interrupt(c)
    PROVE  EngineInv'
<1> USE DEF EngineInv
<1>1. TypeOK'
  <2>1. shell' \in Seq([of : Command, echo : BOOLEAN])
    <3>1. CASE shell' = shell \/ shell' = << >>
      BY <3>1, EmptySeq DEF TypeOK
    <3>2. CASE shell # << >> /\ shell' = <<[Head(shell) EXCEPT !.echo = FALSE]>>
      <4> DEFINE Typed == [of : Command, echo : BOOLEAN]
      <4>1. Head(shell) \in Typed
        <5>1. shell \in Seq(Typed)
          BY DEF TypeOK
        <5> HIDE DEF Typed
        <5> QED
          BY <3>2, <5>1, HeadTailProperties
      <4>2. [Head(shell) EXCEPT !.echo = FALSE] \in Typed
        BY <4>1
      <4>3. \A e \in Typed : <<e>> \in Seq(Typed)
        OBVIOUS
      <4> QED
        BY <3>2, <4>2, <4>3
    <3> QED
      BY <3>1, <3>2 DEF Expire, Interrupt, graph, nodes, session, snapshots
  <2> QED
    BY <2>1 DEF Expire, Interrupt, graph, nodes, session, snapshots, TypeOK
<1>2. GraphOK'
  BY DEF Expire, Interrupt, graph, nodes, session, snapshots, GraphOK
<1>3. RunOK'
  BY DEF Expire, Interrupt, graph, nodes, session, snapshots, RunOK, Active
<1>4. EffectsOK'
  BY DEF Expire, Interrupt, graph, nodes, session, snapshots, EffectsOK, HasRun, Holds
<1>5. SnapshotsOK'
  BY SnapshotsKept DEF Expire, Interrupt, graph, nodes, session, snapshots
<1> QED
  BY <1>1, <1>2, <1>3, <1>4, <1>5

(* A command reads the exit code of its own delimiter. *)
LEMMA ReadStep ==
    ASSUME EngineInv, NEW c \in Command, Read(c)
    PROVE  EngineInv'
<1> USE DEF EngineInv
<1>1. TypeOK'
  <2> DEFINE Lines == [of : Command, code : {"zero", "nonzero"}]
  <2>1. PICK i \in DOMAIN lines : /\ Returns(c, lines[i].code)
                                   /\ lines' = SubSeq(lines, i + 1, Len(lines))
    BY DEF Read
  <2>2. lines \in Seq(Lines)
    BY DEF TypeOK
  <2>3. lines' \in Seq(Lines) /\ lines[i] \in Lines
    <3> HIDE DEF Lines
    <3>1. /\ i + 1 \in 1..(Len(lines) + 1) /\ Len(lines) \in 0..Len(lines) /\ i \in 1..Len(lines)
      BY <2>2, LenProperties
    <3> QED
      BY <2>1, <2>2, <3>1, PieceOfSeq, ElementOfSeq
  <2>4. exec' \in [Command -> {"none", "queued", "typed", "zero", "nonzero", "left"}]
    BY <2>1, <2>3 DEF Returns, Becomes, TypeOK
  <2>5. \A e, d \in Command : exec'[e] = "typed" /\ exec'[d] = "typed" => e = d
    BY <2>1, <2>3 DEF Returns, Becomes, TypeOK
  <2> QED
    BY <2>3, <2>4, <2>5 DEF Read, Matches, Returns, Becomes, graph, nodes, session, snapshots, TypeOK
<1>2. GraphOK'
  BY DEF Read, Matches, Returns, Becomes, graph, nodes, session, snapshots, GraphOK
<1>3. RunOK'
  BY DEF Read, Matches, Returns, Becomes, graph, nodes, session, snapshots, RunOK, Active
<1>4. EffectsOK'
  <2> SUFFICES ASSUME run \notin {"restored", "broken"}
             PROVE  EffectsOK'
    BY DEF EffectsOK, Read, Matches, Returns, Becomes, graph, nodes, session, snapshots
  <2>1. PICK i \in DOMAIN lines : /\ lines[i].of = c /\ Returns(c, lines[i].code)
                                   /\ lines' = SubSeq(lines, i + 1, Len(lines))
    BY DEF Read, Matches
  <2>2. \A k \in DOMAIN lines' : \E l \in DOMAIN lines : (lines')[k] = lines[l]
    <3>1. PICK Lines : lines \in Seq(Lines)
      BY DEF TypeOK
    <3>2. /\ i + 1 \in 1..(Len(lines) + 1) /\ Len(lines) \in 0..Len(lines)
      BY <3>1, LenProperties
    <3> QED
      BY <2>1, <3>1, <3>2, PieceOfSeq
  <2>3. \A k \in DOMAIN lines' : (lines')[k].code = "zero" => (lines')[k].of \in effects
    BY <2>2 DEF EffectsOK
  <2>4. \A d \in Command : exec'[d] = "zero" => d \in effects
    BY <2>1 DEF EffectsOK, Returns, Becomes, TypeOK
  <2> QED
    BY <2>3, <2>4 DEF Read, Matches, Returns, Becomes, graph, nodes, session, snapshots, EffectsOK, HasRun, Holds
<1>5. SnapshotsOK'
  BY SnapshotsKept DEF Read, Matches, Returns, Becomes, graph, nodes, session, snapshots
<1> QED
  BY <1>1, <1>2, <1>3, <1>4, <1>5

(* A command that is given up has not succeeded. *)
LEMMA GiveUpStep ==
    ASSUME EngineInv, NEW c \in Command, GiveUp(c)
    PROVE  EngineInv'
<1> USE DEF EngineInv
<1>1. TypeOK'
  <2>0. \E code \in {"left", "nonzero"} : exec' = [exec EXCEPT ![c] = code]
    BY DEF GiveUp, Returns, Becomes
  <2>1. exec' \in [Command -> {"none", "queued", "typed", "zero", "nonzero", "left"}]
    BY <2>0 DEF TypeOK
  <2>2. \A e, d \in Command : exec'[e] = "typed" /\ exec'[d] = "typed" => e = d
    BY <2>0 DEF TypeOK
  <2>3. lines' = << >> /\ UNCHANGED <<graph, nodes, shell, interrupts, effects, snapshots>> /\ expired' = FALSE
    BY DEF GiveUp
  <2>4. << >> \in Seq([of : Command, code : {"zero", "nonzero"}])
    BY EmptySeq
  <2> QED
    BY <2>1, <2>2, <2>3, <2>4 DEF graph, nodes, snapshots, TypeOK
<1>2. GraphOK'
  BY DEF GiveUp, Returns, Becomes, graph, nodes, session, snapshots, GraphOK
<1>3. RunOK'
  BY DEF GiveUp, Returns, Becomes, graph, nodes, session, snapshots, RunOK, Active
<1>4. EffectsOK'
  <2>1. \A d \in Command : exec'[d] = "zero" => exec[d] = "zero"
    BY DEF GiveUp, Returns, Becomes, graph, nodes, session, snapshots, TypeOK
  <2> QED
    BY <2>1 DEF GiveUp, Returns, Becomes, graph, nodes, session, snapshots, EffectsOK, HasRun, Holds
<1>5. SnapshotsOK'
  BY SnapshotsKept DEF GiveUp, Returns, Becomes, graph, nodes, session, snapshots
<1> QED
  BY <1>1, <1>2, <1>3, <1>4, <1>5

(* A command that is reported to have won has done its work. *)
LEMMA ReportStep ==
    ASSUME EngineInv, NEW c \in Command, Report(c)
    PROVE  EngineInv'
<1> USE DEF EngineInv
<1>1. TypeOK'
  <2>1. exec' \in [Command -> {"none", "queued", "typed", "zero", "nonzero", "left"}]
    BY DEF Report, Becomes, Verdicts, Racing, graph, nodes, session, snapshots, TypeOK
  <2>2. \A e, d \in Command : exec'[e] = "typed" /\ exec'[d] = "typed" => e = d
    BY DEF Report, Becomes, Verdicts, Racing, graph, nodes, session, snapshots, TypeOK
  <2>3. result' \in [DOMAIN dag -> {"none", "won", "lost"}]
    BY DEF Report, Becomes, Verdicts, Racing, graph, nodes, session, snapshots, TypeOK
  <2> QED
    BY <2>1, <2>2, <2>3 DEF Report, Becomes, Verdicts, Racing, graph, nodes, session, snapshots, TypeOK
<1>2. GraphOK'
  BY DEF Report, Becomes, Verdicts, Racing, graph, nodes, session, snapshots, GraphOK
<1>3. RunOK'
  BY DEF Report, Becomes, Verdicts, Racing, graph, nodes, session, snapshots, RunOK, Active
<1>4. EffectsOK'
  <2> SUFFICES ASSUME run \notin {"restored", "broken"}
             PROVE  EffectsOK'
    BY DEF EffectsOK, Report, Becomes, Verdicts, Racing, graph, nodes, session, snapshots
  <2>1. \A d \in Command : exec'[d] = "zero" => exec[d] = "zero"
    <3>1. exec' = [exec EXCEPT ![c] = "left"]
      BY DEF Report, Becomes
    <3> QED
      BY <3>1 DEF TypeOK
  <2>2. ASSUME NEW n \in DOMAIN dag, result'[n] = "won"
        PROVE  result[n] = "won" \/ (c \in race[n] /\ exec[c] = "zero")
    <3>1. PICK verdict \in Verdicts(exec[c]) :
              result' = [m \in DOMAIN dag |->
                  IF m \notin Racing(c) \/ Canceled(c) THEN result[m]
                  ELSE IF verdict # "error" THEN verdict
                  ELSE IF AllFailed(m, c) THEN "lost" ELSE result[m]]
      BY DEF Report
    <3>2. verdict # "error" => exec[c] = "zero"
      BY DEF Verdicts
    <3>3. n \in Racing(c) => c \in race[n]
      BY DEF Racing
    <3>4. CASE n \notin Racing(c) \/ Canceled(c)
      BY <2>2, <3>1, <3>4
    <3>5. CASE ~(n \notin Racing(c) \/ Canceled(c)) /\ verdict # "error"
      BY <3>2, <3>3, <3>5
    <3>6. CASE ~(n \notin Racing(c) \/ Canceled(c)) /\ verdict = "error"
      BY <2>2, <3>1, <3>6
    <3> QED
      BY <3>4, <3>5, <3>6
  <2>3. \A n \in DOMAIN dag : result'[n] = "won" \/ pc[n] \in HasRun => Holds(effects, n)
    BY <2>2 DEF EffectsOK, Holds
  <2> QED
    BY <2>1, <2>3 DEF Report, Becomes, Verdicts, Racing, graph, nodes, session, snapshots, EffectsOK, HasRun, Holds
<1>5. SnapshotsOK'
  BY SnapshotsKept DEF Report, Becomes, Verdicts, Racing, graph, nodes, session, snapshots
<1> QED
  BY <1>1, <1>2, <1>3, <1>4, <1>5

(* What a command has done stays done. *)
LEMMA ExitStep ==
    ASSUME EngineInv, NEW code \in {"zero", "nonzero"}, Exit(code)
    PROVE  EngineInv'
<1> USE DEF EngineInv
<1>1. TypeOK'
  <2> DEFINE Typed == [of : Command, echo : BOOLEAN]
             Lines == [of : Command, code : {"zero", "nonzero"}]
  <2>1. shell \in Seq(Typed) /\ lines \in Seq(Lines)
    BY DEF TypeOK
  <2>2. Head(shell) \in Typed /\ shell' \in Seq(Typed)
    <3> HIDE DEF Typed
    <3> QED
      BY <2>1, HeadTailProperties DEF Exit
  <2>3. lines' \in Seq(Lines)
    <3>1. [of |-> Head(shell).of, code |-> code] \in Lines
      BY <2>2
    <3> HIDE DEF Lines
    <3> QED
      BY <2>1, <3>1 DEF Exit
  <2>4. effects' \subseteq Command
    BY <2>2 DEF Exit, TypeOK
  <2> QED
    BY <2>2, <2>3, <2>4 DEF Exit, graph, nodes, session, snapshots, TypeOK
<1>2. GraphOK'
  BY DEF Exit, graph, nodes, session, snapshots, GraphOK
<1>3. RunOK'
  BY DEF Exit, graph, nodes, session, snapshots, RunOK, Active
<1>4. EffectsOK'
  <2> SUFFICES ASSUME run \notin {"restored", "broken"}
             PROVE  EffectsOK'
    BY DEF EffectsOK, Exit, graph, nodes, session, snapshots
  <2>1. effects \subseteq effects'
    BY DEF Exit
  <2>2. ASSUME NEW i \in DOMAIN lines', (lines')[i].code = "zero"
        PROVE  (lines')[i].of \in effects'
    <3> DEFINE line == [of |-> Head(shell).of, code |-> code]
    <3>1. (i \in DOMAIN lines /\ (lines')[i] = lines[i]) \/ (lines')[i] = line
      <4>1. PICK Lines : lines \in Seq(Lines)
        BY DEF TypeOK
      <4>2. lines' = lines \/ lines' = Append(lines, line)
        BY DEF Exit
      <4> HIDE DEF line
      <4>3. Append(lines, line) \in Seq(Lines \cup {line}) /\ lines \in Seq(Lines \cup {line})
        BY <4>1
      <4>4. DOMAIN Append(lines, line) = 1..(Len(lines) + 1) /\ DOMAIN lines = 1..Len(lines)
            /\ Len(lines) \in Nat
        BY <4>3
      <4> QED
        BY <2>2, <4>1, <4>2, <4>3, <4>4
    <3>2. CASE i \in DOMAIN lines /\ (lines')[i] = lines[i]
      BY <2>1, <2>2, <3>2 DEF EffectsOK
    <3>3. CASE (lines')[i] = line
      BY <2>2, <3>3 DEF Exit
    <3> QED
      BY <3>1, <3>2, <3>3
  <2>3. ASSUME NEW n \in DOMAIN dag, result[n] = "won" \/ pc[n] \in HasRun
        PROVE  Holds(effects', n)
    BY <2>1, <2>3 DEF EffectsOK, Holds
  <2> QED
    BY <2>1, <2>2, <2>3 DEF Exit, graph, nodes, session, snapshots, EffectsOK, Holds
<1>5. SnapshotsOK'
  BY SnapshotsKept DEF Exit, graph, nodes, session, snapshots
<1> QED
  BY <1>1, <1>2, <1>3, <1>4, <1>5

-----------------------------------------------------------------------------
(* Snapshots                                                                 *)

(* The image of a node that has run holds the past of the node. *)
LEMMA ImageHoldsPast ==
    ASSUME EngineInv, NEW n \in DOMAIN dag, pc[n] = "commit"
    PROVE  HoldsPast(effects, n)
<1> USE DEF EngineInv
<1>1. run \notin {"restored", "broken"}
  BY DEF RunOK, Ended, Active
<1>2. \A m \in DOMAIN dag : pc[m] \in HasRun => Holds(effects, m)
  BY <1>1 DEF EffectsOK
<1>3. \A m \in Past(n) : m \in DOMAIN dag /\ (m = n \/ pc[m] = "counted")
  BY PastIsCounted, PastIsSmallest DEF TypeOK
<1> QED
  BY <1>2, <1>3 DEF HoldsPast, HasRun

(* What a content holds of a past does not depend on where the nodes are. *)
LEMMA HoldsPastKept ==
    ASSUME dag' = dag, race' = race, NEW content, NEW n
    PROVE  HoldsPast(content, n) => \A m \in Past(n)' : (race')[m] \cap content # {}
BY PastIsStable DEF HoldsPast, Holds

(* An image of the container is one of a container in which the node has run. *)
LEMMA CommitStep ==
    ASSUME EngineInv, NEW n \in DOMAIN dag, Commit(n)
    PROVE  EngineInv'
<1> USE DEF EngineInv
<1>1. TypeOK'
  <2>1. Cardinality({m \in DOMAIN dag : pc[m] \in {"generate", "race"}})' <= Slots
    BY SlotsKept DEF Commit, graph, nodes, session, snapshots, Goes, TypeOK
  <2> QED
    BY <2>1 DEF Commit, graph, nodes, session, snapshots, Goes, TypeOK
<1>2. GraphOK'
  BY DEF Commit, graph, nodes, session, snapshots, Goes, TypeOK, GraphOK
<1>3. RunOK'
  BY DEF Commit, graph, nodes, session, snapshots, Goes, TypeOK, RunOK, Active, Ended
<1>4. EffectsOK'
  BY DEF Commit, graph, nodes, session, snapshots, Goes, TypeOK, EffectsOK, HasRun, Holds
<1>5. SnapshotsOK'
  <2>1. UNCHANGED <<dag, race, registry, effects>>
    BY DEF Commit, graph, nodes, session, snapshots, Goes
  <2>2. ASSUME NEW m \in DOMAIN dag, pc'[m] = "register"
        PROVE  HoldsPast(image[m], m)'
    <3>1. CASE m = n
      <4>1. image'[m] = effects
        BY <2>2, <3>1 DEF Commit, graph, nodes, session, snapshots, Goes, TypeOK
      <4> QED
        BY <2>1, <3>1, <4>1, ImageHoldsPast, HoldsPastKept DEF HoldsPast, Holds, Commit
    <3>2. CASE m # n
      <4>1. image'[m] = image[m] /\ pc[m] = "register"
        BY <2>2, <3>2 DEF Commit, graph, nodes, session, snapshots, Goes, TypeOK
      <4>2. HoldsPast(image[m], m)
        BY <4>1 DEF SnapshotsOK
      <4> QED
        BY <2>1, <4>1, <4>2, HoldsPastKept DEF HoldsPast, Holds
    <3> QED
      BY <3>1, <3>2
  <2>3. ASSUME NEW i \in DOMAIN registry
        PROVE  /\ pc'[registry[i].node] \in {"done", "counted"}
               /\ HoldsPast(registry[i].effects, registry[i].node)'
    <3>1. /\ pc[registry[i].node] \in {"done", "counted"}
          /\ HoldsPast(registry[i].effects, registry[i].node) /\ registry[i].node \in DOMAIN dag
      BY SnapshotTypes DEF SnapshotsOK
    <3>2. pc'[registry[i].node] = pc[registry[i].node]
      BY <3>1 DEF Commit, graph, nodes, session, snapshots, Goes, TypeOK
    <3> QED
      BY <2>1, <3>1, <3>2, HoldsPastKept DEF HoldsPast, Holds
  <2> QED
    BY <2>1, <2>2, <2>3 DEF SnapshotsOK
<1> QED
  BY <1>1, <1>2, <1>3, <1>4, <1>5

(* A new snapshot replaces the one of its node or comes last. *)
LEMMA RegisteredSeq ==
    ASSUME TypeOK, NEW snap \in [node : DOMAIN dag, effects : SUBSET Command]
    PROVE  /\ Registered(snap) \in Seq([node : DOMAIN dag, effects : SUBSET Command])
           /\ \A i \in DOMAIN Registered(snap) :
                 Registered(snap)[i] = snap \/ (i \in DOMAIN registry /\ Registered(snap)[i] = registry[i])
<1> DEFINE Snapshots == [node : DOMAIN dag, effects : SUBSET Command]
           same == {i \in DOMAIN registry : registry[i].node = snap.node}
<1>1. registry \in Seq(Snapshots)
  BY DEF TypeOK
<1>2. Registered(snap) = IF same = {} THEN Append(registry, snap)
                         ELSE [i \in DOMAIN registry |-> IF i \in same THEN snap ELSE registry[i]]
  BY DEF Registered
<1> HIDE DEF Snapshots, same
<1>3. snap \in Snapshots
  BY DEF Snapshots
<1>4. /\ DOMAIN registry = 1..Len(registry) /\ Len(registry) \in Nat
      /\ \A i \in 1..Len(registry) : registry[i] \in Snapshots
  BY <1>1, LenProperties, ElementOfSeq
<1>5. CASE same = {}
  BY <1>1, <1>2, <1>3, <1>4, <1>5 DEF Snapshots
<1>6. CASE same # {}
  <2>1. Registered(snap) = [i \in 1..Len(registry) |-> IF i \in same THEN snap ELSE registry[i]]
    BY <1>2, <1>4, <1>6
  <2>2. \A i \in 1..Len(registry) : Registered(snap)[i] \in Snapshots
    BY <1>3, <1>4, <2>1
  <2>3. Registered(snap) \in [1..Len(registry) -> Snapshots]
    BY <2>1, <2>2
  <2>4. Registered(snap) \in Seq(Snapshots)
    BY <1>4, <2>3
  <2> QED
    BY <1>4, <2>1, <2>4 DEF Snapshots
<1> QED
  BY <1>5, <1>6

(* The image of a node becomes its snapshot. *)
LEMMA RegisterStep ==
    ASSUME EngineInv, NEW n \in DOMAIN dag, Register(n)
    PROVE  EngineInv'
<1> USE DEF EngineInv
<1>1. TypeOK'
  <2>1. Cardinality({m \in DOMAIN dag : pc[m] \in {"generate", "race"}})' <= Slots
    BY SlotsKept DEF Register, graph, nodes, session, snapshots, Goes, TypeOK
  <2>2. Snapshot(n, image[n]) \in [node : DOMAIN dag, effects : SUBSET Command]
    BY DEF Snapshot, TypeOK
  <2>3. registry' \in Seq([node : DOMAIN dag, effects : SUBSET Command])
    BY <2>2, RegisteredSeq DEF Register
  <2>4. /\ pc' \in [DOMAIN dag -> {"waiting", "acquire", "generate", "race", "commit", "register",
                              "done", "counted", "failed"}]
        /\ image' \in [DOMAIN dag -> SUBSET Command]
    BY DEF Register, graph, nodes, session, snapshots, Goes, TypeOK
  <2>5. UNCHANGED <<graph, race, result, session, effects>>
    BY DEF Register
  <2> QED
    BY <2>1, <2>3, <2>4, <2>5 DEF graph, session, TypeOK
<1>2. GraphOK'
  BY DEF Register, graph, nodes, session, snapshots, Goes, TypeOK, GraphOK
<1>3. RunOK'
  BY DEF Register, graph, nodes, session, snapshots, Goes, TypeOK, RunOK, Active, Ended
<1>4. EffectsOK'
  BY DEF Register, graph, nodes, session, snapshots, Goes, TypeOK, EffectsOK, HasRun, Holds
<1>5. SnapshotsOK'
  <2>1. UNCHANGED <<dag, race>>
    BY DEF Register, graph, nodes, session, snapshots, Goes
  <2>2. ASSUME NEW m \in DOMAIN dag, pc'[m] = "register"
        PROVE  HoldsPast(image[m], m)'
    <3>1. image'[m] = image[m] /\ pc[m] = "register"
      BY <2>2 DEF Register, graph, nodes, session, snapshots, Goes, TypeOK
    <3>2. HoldsPast(image[m], m)
      BY <3>1 DEF SnapshotsOK
    <3> QED
      BY <2>1, <3>1, <3>2, HoldsPastKept DEF HoldsPast, Holds
  <2>3. ASSUME NEW i \in DOMAIN registry'
        PROVE  /\ pc'[(registry')[i].node] \in {"done", "counted"}
               /\ HoldsPast((registry')[i].effects, (registry')[i].node)
    <3> DEFINE snap == Snapshot(n, image[n])
    <3>1. snap \in [node : DOMAIN dag, effects : SUBSET Command]
      BY DEF Snapshot, TypeOK
    <3>2. (registry')[i] = snap \/ (i \in DOMAIN registry /\ (registry')[i] = registry[i])
      BY <2>3, <3>1, RegisteredSeq DEF Register
    <3>3. CASE (registry')[i] = snap
      BY <3>3 DEF Register, graph, nodes, session, snapshots, Goes, TypeOK, Snapshot, SnapshotsOK
    <3>4. CASE i \in DOMAIN registry /\ (registry')[i] = registry[i]
      <4>1. /\ pc[registry[i].node] \in {"done", "counted"}
            /\ HoldsPast(registry[i].effects, registry[i].node) /\ registry[i].node \in DOMAIN dag
        BY <3>4, SnapshotTypes DEF SnapshotsOK
      <4>2. pc'[registry[i].node] \in {"done", "counted"}
        BY <4>1 DEF Register, graph, nodes, session, snapshots, Goes, TypeOK
      <4> QED
        BY <3>4, <4>1, <4>2
    <3> QED
      BY <3>2, <3>3, <3>4
  <2>4. ASSUME NEW i \in DOMAIN registry'
        PROVE  HoldsPast(registry[i].effects, registry[i].node)'
    BY <2>1, <2>3, HoldsPastKept DEF HoldsPast, Holds
  <2> QED
    BY <2>1, <2>2, <2>3, <2>4 DEF SnapshotsOK
<1> QED
  BY <1>1, <1>2, <1>3, <1>4, <1>5

(* Going back leaves the snapshots that are older. *)
LEMMA RollbackStep ==
    ASSUME EngineInv, NEW i0 \in DOMAIN registry,
           \/ Rollback(i0)
           \/ RollbackFails(i0) /\ ~UNCHANGED <<session, effects>>
    PROVE  EngineInv'
<1> USE DEF EngineInv
<1>0. /\ \E W : Drop(W)
      /\ effects' = {} \/ effects' = Container(registry[i0])
      /\ registry' = registry \/ registry' = Until(i0)
      /\ UNCHANGED <<dag, parent, over, failure, nodes, image>>
      /\ run' \in {"restored", "broken"} /\ run = "error"
  BY DEF Rollback, RollbackFails, snapshots
<1>1. TypeOK'
  <2>1. effects' \subseteq Command
    BY <1>0, SnapshotTypes DEF Container, TypeOK
  <2>2. registry' \in Seq([node : DOMAIN dag, effects : SUBSET Command])
    <3> DEFINE Snapshots == [node : DOMAIN dag, effects : SUBSET Command]
    <3>1. registry \in Seq(Snapshots)
      BY DEF TypeOK
    <3> HIDE DEF Snapshots
    <3>2. \A i \in DOMAIN registry : SubSeq(registry, 1, i) \in Seq(Snapshots)
      BY <3>1, PieceOfSeq, LenProperties
    <3>3. registry' \in Seq(Snapshots)
      BY <1>0, <3>1, <3>2 DEF Until
    <3> QED
      BY <3>3 DEF Snapshots
  <2>3. \E W : exec' = [c \in Command |-> IF c \in W \/ exec[c] = "typed" THEN "left" ELSE exec[c]]
    BY <1>0 DEF Drop
  <2>4. exec' \in [Command -> {"none", "queued", "typed", "zero", "nonzero", "left"}]
    BY <2>3 DEF TypeOK
  <2>5. \A c, d \in Command : exec'[c] = "typed" /\ exec'[d] = "typed" => c = d
    BY <2>3
  <2>6. shell' = << >> /\ lines' = << >> /\ expired' = FALSE /\ interrupts' = {}
    BY <1>0 DEF Drop
  <2>7. UNCHANGED <<dag, parent, over, failure, nodes, image>> /\ run' \in {"restored", "broken"}
    BY <1>0
  <2> QED
    BY <2>1, <2>2, <2>4, <2>5, <2>6, <2>7, EmptySeq DEF nodes, TypeOK
<1>2. GraphOK'
  BY <1>0 DEF nodes, GraphOK
<1>3. RunOK'
  BY <1>0 DEF nodes, RunOK, Active, Ended
<1>4. EffectsOK'
  BY <1>0 DEF EffectsOK
<1>5. SnapshotsOK'
  <2>1. UNCHANGED <<dag, pc, race, image>>
    BY <1>0 DEF nodes
  <2>2. \A i \in DOMAIN registry' : i \in DOMAIN registry /\ (registry')[i] = registry[i]
    <3>1. PICK Snapshots : registry \in Seq(Snapshots)
      BY DEF TypeOK
    <3>2. \A j \in DOMAIN registry : \A i \in DOMAIN SubSeq(registry, 1, j) :
              i \in DOMAIN registry /\ SubSeq(registry, 1, j)[i] = registry[i]
      <4>1. ASSUME NEW j \in DOMAIN registry, NEW i \in DOMAIN SubSeq(registry, 1, j)
            PROVE  i \in DOMAIN registry /\ SubSeq(registry, 1, j)[i] = registry[i]
        <5>1. 1 \in 1..(Len(registry) + 1) /\ j \in 0..Len(registry) /\ Len(registry) \in Nat
          BY <3>1, LenProperties
        <5>2. /\ SubSeq(registry, 1, j) \in Seq(Snapshots)
              /\ i + 1 - 1 \in DOMAIN registry /\ SubSeq(registry, 1, j)[i] = registry[i + 1 - 1]
          BY <3>1, <5>1, PieceOfSeq
        <5>3. i \in Nat
          BY <5>2, LenProperties
        <5> QED
          BY <5>2, <5>3
      <4> QED
        BY <4>1
    <3> QED
      BY <1>0, <3>2 DEF Until
  <2>3. ASSUME NEW m \in DOMAIN dag, pc[m] = "register"
        PROVE  HoldsPast(image[m], m)'
    BY <2>1, <2>3, HoldsPastKept DEF SnapshotsOK, HoldsPast, Holds
  <2>4. ASSUME NEW i \in DOMAIN registry'
        PROVE  /\ pc[(registry')[i].node] \in {"done", "counted"}
               /\ HoldsPast((registry')[i].effects, (registry')[i].node)
    BY <2>2, <2>4 DEF SnapshotsOK
  <2>5. ASSUME NEW i \in DOMAIN registry'
        PROVE  HoldsPast(registry[i].effects, registry[i].node)'
    BY <2>1, <2>4, <2>5, HoldsPastKept DEF HoldsPast, Holds
  <2> QED
    BY <2>1, <2>3, <2>4, <2>5 DEF SnapshotsOK
<1> QED
  BY <1>1, <1>2, <1>3, <1>4, <1>5

(* A removal that fails leaves everything where it is. *)
LEMMA NoRollbackStep ==
    ASSUME EngineInv, NEW i0 \in DOMAIN registry, RollbackFails(i0),
           UNCHANGED <<session, effects>>
    PROVE  EngineInv'
<1>1. /\ UNCHANGED <<dag, parent, over, failure, pc, race, result, exec, shell, lines, expired,
                     interrupts, effects, image, registry>>
      /\ run' = "broken" /\ run = "error"
  BY DEF RollbackFails, nodes, session, snapshots
<1>2. TypeOK' /\ EffectsOK'
  BY <1>1 DEF EngineInv, TypeOK, EffectsOK
<1>3. GraphOK' /\ RunOK'
  BY <1>1 DEF EngineInv, GraphOK, RunOK, Active, Ended
<1>4. SnapshotsOK'
  BY <1>1, SnapshotsKept DEF EngineInv
<1> QED
  BY <1>2, <1>3, <1>4 DEF EngineInv

-----------------------------------------------------------------------------
(* The engine                                                                *)

LEMMA InitHolds == ASSUME Init PROVE EngineInv
<1> PICK plan \in Plans : /\ dag = Edges(plan)
                          /\ race = [n \in DOMAIN plan |-> plan[n].commands]
  BY DEF Init
<1>1. /\ DOMAIN plan \subseteq Node
      /\ \A n \in DOMAIN plan : plan[n].commands \subseteq Command
  BY DagEngineAssumption DEF Planned
<1>2. DOMAIN dag = DOMAIN plan /\ dag \in [DOMAIN dag -> SUBSET DOMAIN dag]
  BY DEF Edges
<1>3. {n \in DOMAIN dag : pc[n] \in {"generate", "race"}} = {}
  BY DEF Init
<1>4. Cardinality({n \in DOMAIN dag : pc[n] \in {"generate", "race"}}) <= Slots
  <2>1. Cardinality({n \in DOMAIN dag : pc[n] \in {"generate", "race"}}) = 0
    BY <1>3, FS_EmptySet
  <2> QED
    BY <2>1, DagEngineAssumption
<1>5. race \in [DOMAIN dag -> SUBSET Command]
  BY <1>1, <1>2
<1>6. /\ pc \in [DOMAIN dag -> {"waiting", "acquire", "generate", "race", "commit", "register",
                               "done", "counted", "failed"}]
      /\ result \in [DOMAIN dag -> {"none", "won", "lost"}]
      /\ image \in [DOMAIN dag -> SUBSET Command]
  BY DEF Init
<1>7. /\ exec \in [Command -> {"none", "queued", "typed", "zero", "nonzero", "left"}]
      /\ \A c, d \in Command : exec[c] = "typed" /\ exec[d] = "typed" => c = d
  BY DEF Init
<1>8. /\ shell \in Seq([of : Command, echo : BOOLEAN])
      /\ lines \in Seq([of : Command, code : {"zero", "nonzero"}])
      /\ registry \in Seq([node : DOMAIN dag, effects : SUBSET Command])
  BY EmptySeq DEF Init
<1>9. /\ run = "running" /\ parent = FALSE /\ over = FALSE /\ failure = FALSE
      /\ expired = FALSE /\ interrupts = {} /\ effects = {}
  BY DEF Init
<1>10. TypeOK
  BY <1>1, <1>2, <1>4, <1>5, <1>6, <1>7, <1>8, <1>9 DEF TypeOK
<1>11. GraphOK /\ RunOK
  BY DEF Init, GraphOK, RunOK, Ended
<1>12. EffectsOK /\ SnapshotsOK
  BY DEF Init, EffectsOK, SnapshotsOK, HasRun
<1> QED
  BY <1>10, <1>11, <1>12 DEF EngineInv

LEMMA StepHolds == ASSUME EngineInv, [Next]_vars PROVE EngineInv'
<1>1. CASE Succeed \/ Failing \/ Leave \/ Return \/ Cancel
  BY <1>1, CallerSteps
<1>2. ASSUME NEW n \in DOMAIN dag, Works(n)
      PROVE  EngineInv'
  BY <1>2, TakeStep, AcquireStep, GenerateStep, OutcomeStep, StopStep, CommitStep,
     RegisterStep, CountStep DEF Works
<1>3. ASSUME NEW c \in Command, Executes(c)
      PROVE  EngineInv'
  BY <1>3, TypeStep, ExpireStep, ReadStep, GiveUpStep, ReportStep DEF Executes
<1>4. ASSUME NEW code \in {"zero", "nonzero"}, Exit(code)
      PROVE  EngineInv'
  BY <1>4, ExitStep
<1>5. ASSUME NEW i \in DOMAIN registry, Rollback(i) \/ RollbackFails(i)
      PROVE  EngineInv'
  <2>1. CASE RollbackFails(i) /\ UNCHANGED <<session, effects>>
    BY <1>5, <2>1, NoRollbackStep
  <2>2. CASE ~UNCHANGED <<session, effects>>
    BY <1>5, <2>2, RollbackStep
  <2>3. CASE Rollback(i) /\ UNCHANGED <<session, effects>>
    BY <1>5, <2>3, RollbackStep
  <2> QED
    BY <1>5, <2>1, <2>2, <2>3
<1>6. CASE UNCHANGED vars
  <2>1. UNCHANGED <<dag, run, parent, over, failure, pc, race, result, exec, shell, lines,
                    expired, interrupts, effects, image, registry>>
    BY <1>6 DEF vars, graph, nodes, session, snapshots
  <2>2. TypeOK' /\ GraphOK' /\ RunOK' /\ EffectsOK'
    BY <2>1 DEF EngineInv, TypeOK, GraphOK, RunOK, EffectsOK, Active, Holds
  <2>3. SnapshotsOK'
    BY <2>1, SnapshotsKept DEF EngineInv
  <2> QED
    BY <2>2, <2>3 DEF EngineInv
<1> QED
  BY <1>1, <1>2, <1>3, <1>4, <1>5, <1>6 DEF Next

(* Whatever the plan and the commands, in whatever order commands, interrupts and   *)
(* timeouts fall: the gatekeeper never gives away more slots than it has, one       *)
(* command is in the session, and what the engine believes of the container is      *)
(* true (engine.go:155-165, session.go:60-75).                                      *)
THEOREM EngineInvariant == Spec => []EngineInv
<1>1. Init => EngineInv
  BY InitHolds
<1>2. EngineInv /\ [Next]_vars => EngineInv'
  BY StepHolds
<1> QED
  BY <1>1, <1>2, PTL DEF Spec

(* A snapshot can be built on: it holds what its node and each node before it has   *)
(* done (engine.go:59-70, manager.go:44-73).                                        *)
THEOREM SnapshotsAreWhole == Spec => []SnapshotHasItsPast
<1>1. EngineInv => SnapshotHasItsPast
  BY DEF EngineInv, SnapshotsOK, SnapshotHasItsPast, HoldsPast
<1> QED
  BY <1>1, EngineInvariant, PTL

(* ExecuteGraph returns without an error only when all has been done, unless its    *)
(* caller gave up, and with one only when a node failed (engine.go:80-133).         *)
THEOREM SuccessMeansDone == Spec => []SuccessIsComplete
<1>1. EngineInv => SuccessIsComplete
  BY DEF EngineInv, RunOK, EffectsOK, HasRun, SuccessIsComplete
<1> QED
  BY <1>1, EngineInvariant, PTL
=============================================================================
