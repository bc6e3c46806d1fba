-------------------------- MODULE EventStreamProofs --------------------------
(***************************************************************************)
(* Proofs about EventStream for any workers, streams, capacity and bounds:   *)
(* no event is lost silently, a replay heals a stream, and a stream ends     *)
(* exactly with a terminal event.                                           *)
(***************************************************************************)
EXTENDS EventStream, TLAPS

Entries == [terminal : BOOLEAN, run : Nat]

(* Appending to a sequence keeps what was there. *)
LEMMA AppendShape ==
  ASSUME NEW S, NEW s \in Seq(S), NEW w \in S
  PROVE  /\ Append(s, w) \in Seq(S)
         /\ Len(Append(s, w)) = Len(s) + 1
         /\ \A i \in 1..Len(s) : Append(s, w)[i] = s[i]
         /\ Append(s, w)[Len(s) + 1] = w
  OBVIOUS

(* A channel's tail has everything but its head. *)
LEMMA TailShape ==
  ASSUME NEW S, NEW q \in Seq(S), q # <<>>
  PROVE  /\ Head(q) \in S /\ Tail(q) \in Seq(S)
         /\ Len(Tail(q)) = Len(q) - 1
         /\ q[1] = Head(q)
         /\ \A k \in 1..Len(Tail(q)) : Tail(q)[k] = q[k + 1]
  OBVIOUS

(* A queue of events stays one when the history grows. *)
LEMMA SeqGrows ==
  ASSUME NEW S, NEW T, S \subseteq T, NEW q \in Seq(S)
  PROVE  q \in Seq(T)
  OBVIOUS

-----------------------------------------------------------------------------
(* How the history and the events in flight may change *)

StoreLike(p, terminal) ==
  /\ p \in Publishers /\ terminal \in BOOLEAN
  /\ Store(p, terminal)

(* Storing an event adds it at the end of the history.                       *)
LEMMA StoreShape ==
  ASSUME TypeOK, NEW p, NEW terminal, StoreLike(p, terminal)
  PROVE  /\ history' \in Seq(Entries)
         /\ Len(history') = Len(history) + 1
         /\ Len(history) \in Nat
         /\ \A i \in Events : history'[i] = history[i]
         /\ Events' = Events \cup {Len(history) + 1}
         /\ inflight' \in [Publishers -> Events' \cup {0}]
         /\ inflight'[p] = Len(history) + 1
         /\ inflight[p] = 0
         /\ \A q \in Publishers \ {p} : inflight'[q] = inflight[q]
  <1> DEFINE e == [terminal |-> terminal, run |-> run]
  <1>1. e \in Entries /\ history \in Seq(Entries)
    BY DEF TypeOK, StoreLike, Entries
  <1>2. history' = Append(history, e)
    BY DEF StoreLike, Store
  <1> HIDE DEF e
  <1>3. /\ history' \in Seq(Entries) /\ Len(history') = Len(history) + 1
        /\ \A i \in 1..Len(history) : history'[i] = history[i]
    BY <1>1, <1>2, AppendShape
  <1>4. Len(history) \in Nat
    BY <1>1
  <1>5. Events' = Events \cup {Len(history) + 1}
    BY <1>3, <1>4 DEF Events
  <1>6. inflight' = [inflight EXCEPT ![p] = Len(history) + 1] /\ inflight[p] = 0
    BY DEF StoreLike, Store
  <1>7. inflight \in [Publishers -> Events \cup {0}] /\ p \in Publishers
    BY DEF TypeOK, StoreLike
  <1> QED BY <1>3, <1>4, <1>5, <1>6, <1>7 DEF Events

(* The steps of the plan that store an event. *)
LEMMA PlanSteps ==
  ASSUME TypeOK,
         (\E w \in Workers : Log(w) \/ Report(w)) \/ Announce \/ Conclude
  PROVE  /\ \E p, terminal : StoreLike(p, terminal)
         /\ plan' \in {"open", "closing", "closed"}
         /\ run' \in Nat
         /\ work' \in [Workers -> {"running", "committed", "idle"}]
  <1>1. CASE \E w \in Workers : Log(w) \/ Report(w)
    <2>1. PICK w \in Workers : Log(w) \/ Report(w)
      BY <1>1
    <2>2. StoreLike(w, FALSE)
      BY <2>1 DEF StoreLike, Log, Report, Publishers
    <2>3. plan' = plan /\ run' = run
      BY <2>1 DEF Log, Report, planVars
    <2>4. work' \in [Workers -> {"running", "committed", "idle"}]
      BY <2>1 DEF Log, Report, planVars, TypeOK
    <2> QED BY <2>2, <2>3, <2>4 DEF TypeOK
  <1>2. CASE Conclude
    <2>1. StoreLike(Closer, TRUE)
      BY <1>2 DEF StoreLike, Conclude, Publishers
    <2> QED BY <1>2, <2>1 DEF Conclude, TypeOK
  <1>3. CASE Announce
    <2>1. StoreLike(Closer, FALSE)
      BY <1>3 DEF StoreLike, Announce, Publishers
    <2> QED BY <1>3, <2>1 DEF Announce, planVars, TypeOK
  <1> QED BY <1>1, <1>2, <1>3

-----------------------------------------------------------------------------
(* The steps of the publishers *)

LEMMA StoreStep ==
  ASSUME IInv, (\E w \in Workers : Log(w) \/ Report(w)) \/ Announce \/ Conclude
  PROVE  IInv'
  <1>1. PICK p, terminal : StoreLike(p, terminal)
    BY PlanSteps DEF IInv
  <1>2. /\ plan' \in {"open", "closing", "closed"} /\ run' \in Nat
        /\ work' \in [Workers -> {"running", "committed", "idle"}]
    BY PlanSteps DEF IInv
  <1> DEFINE n == Len(history) + 1
  <1>3. /\ history' \in Seq(Entries) /\ Len(history') = n /\ Len(history) \in Nat
        /\ \A i \in Events : history'[i] = history[i]
        /\ Events' = Events \cup {n}
        /\ inflight' \in [Publishers -> Events' \cup {0}]
        /\ inflight'[p] = n /\ inflight[p] = 0
        /\ \A q \in Publishers \ {p} : inflight'[q] = inflight[q]
    BY <1>1, StoreShape DEF IInv
  <1>4. /\ stream' = stream /\ seen' = seen /\ cursor' = cursor
        /\ limit' = limit /\ connects' = connects
        /\ channel' = channel /\ dropped' = dropped /\ p \in Publishers
    BY <1>1 DEF StoreLike, Store, streamVars
  <1> HIDE DEF n
  <1>5. TypeOK'
    <2>1. channel' \in [Streams -> Seq(Events')]
      <3>1. \A s \in Streams : channel[s] \in Seq(Events')
        BY <1>3, SeqGrows DEF IInv, TypeOK
      <3> QED BY <1>4, <3>1 DEF IInv, TypeOK
    <2>2. limit' \in [Streams -> 0..Len(history')]
      BY <1>3, <1>4 DEF IInv, TypeOK, n
    <2>3. seen' \in [Streams -> SUBSET Events'] /\ dropped' \in [Streams -> SUBSET Events']
      BY <1>3, <1>4 DEF IInv, TypeOK
    <2>4. /\ stream' \in [Streams -> StreamStates] /\ cursor' \in [Streams -> Nat]
          /\ connects' \in Nat
          /\ \A s \in Streams : Len(channel'[s]) <= Capacity
      BY <1>4 DEF IInv, TypeOK
    <2> QED BY <1>2, <1>3, <2>1, <2>2, <2>3, <2>4 DEF TypeOK, Entries
  <1>6. ReplayHeals'
    BY <1>4 DEF IInv, ReplayHeals
  <1>7. NoSilentLoss'
    <2> SUFFICES ASSUME NEW s \in Streams, Subscribed(s)', NEW i \in Events'
                 PROVE  (\/ i \in seen[s] \/ InChannel(s, i) \/ InFlight(i)
                         \/ i \in dropped[s] \/ stream[s] = "list"
                         \/ stream[s] = "replay" /\ i \in cursor[s]+1..limit[s])'
      BY DEF NoSilentLoss
    <2>1. CASE i = n
      BY <1>3, <1>4, <2>1 DEF InFlight
    <2>2. CASE i \in Events
      <3>1. Subscribed(s)
        BY <1>4 DEF Subscribed
      <3>2. InFlight(i) => InFlight(i)'
        <4> SUFFICES ASSUME InFlight(i) PROVE InFlight(i)'
          OBVIOUS
        <4>1. PICK q \in Publishers : inflight[q] = i
          BY DEF InFlight
        <4>2. i # 0
          BY <2>2 DEF Events
        <4>3. q # p
          BY <1>3, <4>1, <4>2
        <4> QED BY <1>3, <4>1, <4>3 DEF InFlight
      <3>3. InChannel(s, i)' = InChannel(s, i)
        BY <1>4 DEF InChannel
      <3> QED BY <1>4, <2>2, <3>1, <3>2, <3>3 DEF IInv, NoSilentLoss
    <2> QED BY <1>3, <2>1, <2>2
  <1>8. EndsWithTerminal'
    <2>1. \A s \in Streams : \A i \in seen[s] : Terminal(i)' = Terminal(i)
      BY <1>3 DEF IInv, TypeOK, Terminal
    <2>2. \A s \in Streams : {i \in seen'[s] : Terminal(i)'} = {i \in seen[s] : Terminal(i)}
      BY <1>4, <2>1
    <2> QED BY <1>4, <2>2 DEF IInv, EndsWithTerminal, Subscribed
  <1> QED BY <1>5, <1>6, <1>7, <1>8 DEF IInv

(* A transaction, the closing of the plan and a new run leave the events and  *)
(* the streams alone.                                                        *)
LEMMA QuietStep ==
  ASSUME IInv, UNCHANGED <<busVars, streamVars, channel, dropped>>,
         plan' \in {"open", "closing", "closed"}, run' \in Nat,
         work' \in [Workers -> {"running", "committed", "idle"}]
  PROVE  IInv'
  <1>1. /\ history' = history /\ inflight' = inflight
        /\ stream' = stream /\ seen' = seen /\ cursor' = cursor
        /\ limit' = limit /\ connects' = connects
        /\ channel' = channel /\ dropped' = dropped
    BY DEF busVars, streamVars
  <1>2. TypeOK'
    BY <1>1 DEF IInv, TypeOK, Events
  <1>3. ReplayHeals' /\ EndsWithTerminal'
    BY <1>1 DEF IInv, ReplayHeals, EndsWithTerminal, Subscribed, Terminal
  <1>4. NoSilentLoss'
    BY <1>1 DEF IInv, NoSilentLoss, Subscribed, Events, InChannel, InFlight
  <1> QED BY <1>2, <1>3, <1>4 DEF IInv

(* The bus puts the event into the channels that have room. *)
LEMMA PublishStep ==
  ASSUME IInv, NEW p \in Publishers, Publish(p)
  PROVE  IInv'
  <1> DEFINE e == inflight[p]
  <1>1. e \in Events
    BY DEF Publish, IInv, TypeOK
  <1>2. /\ history' = history /\ plan' = plan /\ run' = run /\ work' = work
        /\ stream' = stream /\ seen' = seen /\ cursor' = cursor
        /\ limit' = limit /\ connects' = connects
        /\ inflight' = [inflight EXCEPT ![p] = 0]
    BY DEF Publish, planVars, streamVars
  <1>3. /\ channel' = [s \in Streams |-> IF Subscribed(s) THEN Offer(channel[s], e)
                                         ELSE channel[s]]
        /\ dropped' = [s \in Streams |->
                         IF Subscribed(s) /\ Len(channel[s]) >= Capacity
                         THEN dropped[s] \cup {e} ELSE dropped[s]]
    BY DEF Publish
  <1> HIDE DEF e
  <1>4. \A s \in Streams :
          /\ channel'[s] \in Seq(Events) /\ Len(channel'[s]) <= Capacity
          /\ Len(channel'[s]) >= Len(channel[s])
          /\ \A k \in 1..Len(channel[s]) : channel'[s][k] = channel[s][k]
          /\ Subscribed(s) /\ Len(channel[s]) < Capacity =>
               /\ Len(channel'[s]) = Len(channel[s]) + 1
               /\ channel'[s][Len(channel[s]) + 1] = e
    <2> TAKE s \in Streams
    <2>1. channel[s] \in Seq(Events) /\ Len(channel[s]) <= Capacity /\ Capacity \in Nat
      BY StreamAssumption DEF IInv, TypeOK, StreamAssumption
    <2>2. Len(channel[s]) \in Nat
      BY <2>1
    <2>3. CASE Subscribed(s) /\ Len(channel[s]) < Capacity
      <3>1. channel'[s] = Append(channel[s], e)
        BY <1>3, <2>3 DEF Offer
      <3>2. /\ channel'[s] \in Seq(Events) /\ Len(channel'[s]) = Len(channel[s]) + 1
            /\ \A k \in 1..Len(channel[s]) : channel'[s][k] = channel[s][k]
            /\ channel'[s][Len(channel[s]) + 1] = e
        BY <1>1, <2>1, <3>1, AppendShape
      <3> QED BY <2>1, <2>2, <2>3, <3>2
    <2>4. CASE ~(Subscribed(s) /\ Len(channel[s]) < Capacity)
      <3>1. channel'[s] = channel[s]
        BY <1>3, <2>4 DEF Offer
      <3> QED BY <2>1, <2>2, <2>4, <3>1
    <2> QED BY <2>3, <2>4
  <1>5. TypeOK'
    <2>1. channel' \in [Streams -> Seq(Events)] /\ \A s \in Streams : Len(channel'[s]) <= Capacity
      BY <1>3, <1>4
    <2>2. dropped' \in [Streams -> SUBSET Events]
      BY <1>1, <1>3 DEF IInv, TypeOK
    <2>3. inflight' \in [Publishers -> Events \cup {0}]
      BY <1>2 DEF IInv, TypeOK
    <2>4. Events' = Events
      BY <1>2 DEF Events
    <2> QED BY <1>2, <2>1, <2>2, <2>3, <2>4 DEF IInv, TypeOK
  <1>6. ReplayHeals' /\ EndsWithTerminal'
    BY <1>2 DEF IInv, ReplayHeals, EndsWithTerminal, Subscribed, Terminal
  <1>7. NoSilentLoss'
    <2> SUFFICES ASSUME NEW s \in Streams, Subscribed(s)', NEW i \in Events'
                 PROVE  (\/ i \in seen[s] \/ InChannel(s, i) \/ InFlight(i)
                         \/ i \in dropped[s] \/ stream[s] = "list"
                         \/ stream[s] = "replay" /\ i \in cursor[s]+1..limit[s])'
      BY DEF NoSilentLoss
    <2>1. Subscribed(s) /\ i \in Events /\ Len(channel[s]) \in Nat
      BY <1>2 DEF Subscribed, Events, IInv, TypeOK
    <2>2. InChannel(s, i) => InChannel(s, i)'
      <3> SUFFICES ASSUME InChannel(s, i) PROVE InChannel(s, i)'
        OBVIOUS
      <3>1. PICK k \in 1..Len(channel[s]) : channel[s][k] = i
        BY DEF InChannel
      <3>2. Len(channel'[s]) \in Nat /\ Len(channel'[s]) >= Len(channel[s])
        BY <1>4
      <3>3. k \in 1..Len(channel'[s]) /\ channel'[s][k] = i
        BY <1>4, <2>1, <3>1, <3>2
      <3> QED BY <3>3 DEF InChannel
    <2>3. i \in dropped[s] => i \in dropped'[s]
      BY <1>3
    <2>4. CASE i = e
      <3>1. CASE Len(channel[s]) < Capacity
        <4>1. Len(channel'[s]) = Len(channel[s]) + 1 /\ channel'[s][Len(channel[s]) + 1] = e
          BY <1>4, <2>1, <3>1
        <4>2. Len(channel[s]) + 1 \in 1..Len(channel'[s])
          BY <2>1, <4>1
        <4> QED BY <2>4, <4>1, <4>2 DEF InChannel
      <3>2. CASE Len(channel[s]) >= Capacity
        BY <1>3, <2>1, <2>4, <3>2
      <3> QED BY <2>1, <3>1, <3>2, StreamAssumption DEF StreamAssumption
    <2>5. CASE i # e
      <3>1. InFlight(i) => InFlight(i)'
        BY <1>2, <2>1, <2>5 DEF InFlight, IInv, TypeOK, e
      <3> QED BY <1>2, <2>1, <2>2, <2>3, <3>1 DEF IInv, NoSilentLoss
    <2> QED BY <2>4, <2>5
  <1> QED BY <1>5, <1>6, <1>7 DEF IInv

-----------------------------------------------------------------------------
(* The steps of a stream *)

(* What the invariants say of one stream. *)
Heals(s) ==
  /\ stream[s] = "replay" => \A i \in 1..cursor[s] : i \in seen[s]
  /\ stream[s] = "live" => \A i \in 1..limit[s] : i \in seen[s]
Lossless(s) ==
  Subscribed(s) =>
    \A i \in Events : \/ i \in seen[s] \/ InChannel(s, i) \/ InFlight(i)
                      \/ i \in dropped[s] \/ stream[s] = "list"
                      \/ stream[s] = "replay" /\ i \in cursor[s]+1..limit[s]
Last(s) == {i \in seen[s] : Terminal(i)}
Ends(s) == /\ Subscribed(s) => Last(s) = {}
           /\ stream[s] = "ended" => \E i \in Last(s) : Last(s) = {i}
StreamOK(s) == Heals(s) /\ Lossless(s) /\ Ends(s)

LEMMA StreamByStream ==
  (ReplayHeals /\ NoSilentLoss /\ EndsWithTerminal) <=> \A s \in Streams : StreamOK(s)
  BY DEF ReplayHeals, NoSilentLoss, EndsWithTerminal, StreamOK, Heals, Lossless, Ends, Last

(* A step of one stream leaves the publishers and the other streams alone. *)
Only(s) ==
  /\ UNCHANGED <<planVars, busVars>>
  /\ \A r \in Streams \ {s} :
       /\ stream'[r] = stream[r] /\ channel'[r] = channel[r] /\ seen'[r] = seen[r]
       /\ cursor'[r] = cursor[r] /\ limit'[r] = limit[r] /\ dropped'[r] = dropped[r]

LEMMA OneStream ==
  ASSUME IInv, NEW s \in Streams, Only(s), TypeOK', StreamOK(s)'
  PROVE  IInv'
  <1>1. history' = history /\ inflight' = inflight
    BY DEF Only, busVars
  <1>2. \A r \in Streams \ {s} : StreamOK(r)'
    <2> TAKE r \in Streams \ {s}
    <2>1. /\ stream'[r] = stream[r] /\ channel'[r] = channel[r] /\ seen'[r] = seen[r]
          /\ cursor'[r] = cursor[r] /\ limit'[r] = limit[r] /\ dropped'[r] = dropped[r]
      BY DEF Only
    <2>2. StreamOK(r)
      BY StreamByStream DEF IInv
    <2>3. Heals(r)'
      BY <2>1, <2>2 DEF StreamOK, Heals
    <2>4. Lossless(r)'
      BY <1>1, <2>1, <2>2 DEF StreamOK, Lossless, Subscribed, InChannel, InFlight, Events
    <2>5. Ends(r)'
      BY <1>1, <2>1, <2>2 DEF StreamOK, Ends, Subscribed, Last, Terminal
    <2> QED BY <2>3, <2>4, <2>5 DEF StreamOK
  <1>3. \A r \in Streams : StreamOK(r)'
    BY <1>2
  <1>4. (ReplayHeals /\ NoSilentLoss /\ EndsWithTerminal)'
    BY <1>3 DEF ReplayHeals, NoSilentLoss, EndsWithTerminal, StreamOK, Heals, Lossless, Ends, Last
  <1> QED BY <1>4 DEF IInv

(* The types of one stream's variables. *)
LEMMA StreamTypes ==
  ASSUME IInv, NEW s \in Streams
  PROVE  /\ stream[s] \in StreamStates /\ channel[s] \in Seq(Events)
         /\ Len(channel[s]) \in Nat /\ Len(channel[s]) <= Capacity
         /\ seen[s] \in SUBSET Events /\ dropped[s] \in SUBSET Events
         /\ cursor[s] \in Nat /\ limit[s] \in 0..Len(history) /\ limit[s] \in Nat
         /\ history \in Seq(Entries) /\ Len(history) \in Nat
  <1>1. history \in Seq(Entries)
    BY DEF IInv, TypeOK, Entries
  <1>2. Len(history) \in Nat
    BY <1>1
  <1>3. channel[s] \in Seq(Events)
    BY DEF IInv, TypeOK
  <1>4. Len(channel[s]) \in Nat
    BY <1>3
  <1>5. limit[s] \in 0..Len(history)
    BY DEF IInv, TypeOK
  <1> QED BY <1>1, <1>2, <1>3, <1>4, <1>5 DEF IInv, TypeOK

LEMMA ConnectStep ==
  ASSUME IInv, NEW s \in Streams, Connect(s)
  PROVE  IInv'
  <1>1. /\ stream' = [stream EXCEPT ![s] = "list"] /\ channel' = [channel EXCEPT ![s] = <<>>]
        /\ seen' = [seen EXCEPT ![s] = {}] /\ cursor' = [cursor EXCEPT ![s] = 0]
        /\ limit' = [limit EXCEPT ![s] = 0]
        /\ dropped' = [dropped EXCEPT ![s] = {}] /\ connects' = connects + 1
        /\ UNCHANGED <<planVars, busVars>>
    BY DEF Connect
  <1>2. history' = history /\ Events' = Events /\ inflight' = inflight
    BY <1>1 DEF busVars, Events
  <1>3. TypeOK'
    <2>1. channel' \in [Streams -> Seq(Events)] /\ \A r \in Streams : Len(channel'[r]) <= Capacity
      <3>1. <<>> \in Seq(Events) /\ Len(<<>>) = 0
        OBVIOUS
      <3> QED BY <1>1, <3>1, StreamAssumption DEF IInv, TypeOK, StreamAssumption
    <2>2. limit' \in [Streams -> 0..Len(history)]
      BY <1>1, StreamTypes DEF IInv, TypeOK
    <2>3. /\ stream' \in [Streams -> StreamStates] /\ seen' \in [Streams -> SUBSET Events]
          /\ cursor' \in [Streams -> Nat]
          /\ dropped' \in [Streams -> SUBSET Events] /\ connects' \in Nat
      BY <1>1 DEF IInv, TypeOK, StreamStates
    <2>4. /\ plan' \in {"open", "closing", "closed"} /\ run' \in Nat
          /\ work' \in [Workers -> {"running", "committed", "idle"}]
          /\ history' \in Seq([terminal : BOOLEAN, run : Nat])
          /\ inflight' \in [Publishers -> Events \cup {0}]
      BY <1>1 DEF IInv, TypeOK, planVars, busVars
    <2> QED BY <1>2, <2>1, <2>2, <2>3, <2>4 DEF TypeOK
  <1>4. Only(s)
    BY <1>1 DEF IInv, TypeOK, Only
  <1>5. stream'[s] = "list" /\ seen'[s] = {}
    BY <1>1 DEF IInv, TypeOK
  <1>6. StreamOK(s)'
    BY <1>5 DEF StreamOK, Heals, Lossless, Ends, Last
  <1> QED BY <1>3, <1>4, <1>6, OneStream

(* The steps that only move the handler, and the replay's listing. *)
LEMMA MoveStep ==
  ASSUME IInv, NEW s \in Streams,
         ListHistory(s) \/ EndReplay(s) \/ Heartbeat(s) \/ Disconnect(s)
  PROVE  IInv'
  <1> DEFINE next == stream'[s]
  <1>1. /\ stream' = [stream EXCEPT ![s] = next]
        /\ next \in {"replay", "live", "list", "closed"}
    BY DEF ListHistory, EndReplay, Heartbeat, Disconnect, IInv, TypeOK
  <1>2. /\ channel' = channel /\ seen' = seen /\ dropped' = dropped
        /\ connects' = connects /\ UNCHANGED <<planVars, busVars>>
        /\ Subscribed(s)
    BY DEF ListHistory, EndReplay, Heartbeat, Disconnect, Subscribed
  <1>3. \/ cursor' = cursor /\ limit' = limit
        \/ cursor' = [cursor EXCEPT ![s] = 0] /\ limit' = [limit EXCEPT ![s] = Len(history)]
    BY DEF ListHistory, EndReplay, Heartbeat, Disconnect
  <1>4. history' = history /\ Events' = Events /\ inflight' = inflight
    BY <1>2 DEF busVars, Events
  <1>5. TypeOK'
    <2>1. limit' \in [Streams -> 0..Len(history)] /\ cursor' \in [Streams -> Nat]
      <3>1. Len(history) \in 0..Len(history)
        BY StreamTypes
      <3>2. limit \in [Streams -> 0..Len(history)] /\ cursor \in [Streams -> Nat]
        BY DEF IInv, TypeOK
      <3>3. CASE cursor' = cursor /\ limit' = limit
        BY <3>2, <3>3
      <3>4. CASE /\ cursor' = [cursor EXCEPT ![s] = 0]
                 /\ limit' = [limit EXCEPT ![s] = Len(history)]
        BY <3>1, <3>2, <3>4
      <3> QED BY <1>3, <3>3, <3>4
    <2>2. stream' \in [Streams -> StreamStates]
      BY <1>1 DEF IInv, TypeOK, StreamStates
    <2>3. /\ plan' \in {"open", "closing", "closed"} /\ run' \in Nat
          /\ work' \in [Workers -> {"running", "committed", "idle"}]
          /\ history' \in Seq([terminal : BOOLEAN, run : Nat])
          /\ inflight' \in [Publishers -> Events \cup {0}]
      BY <1>2 DEF IInv, TypeOK, planVars, busVars
    <2> QED BY <1>2, <1>4, <2>1, <2>2, <2>3 DEF IInv, TypeOK
  <1>6. Only(s)
    BY <1>1, <1>2, <1>3 DEF IInv, TypeOK, Only
  <1>7. StreamOK(s)
    BY StreamByStream DEF IInv
  <1>8. Ends(s)'
    <2>1. Last(s)' = Last(s)
      BY <1>2, <1>4 DEF Last, Terminal
    <2> QED BY <1>1, <1>2, <1>7, <2>1 DEF StreamOK, Ends, IInv, TypeOK
  <1>9. Heals(s)' /\ Lossless(s)'
    <2>1. CASE ListHistory(s)
      <3>1. stream'[s] = "replay" /\ cursor'[s] = 0 /\ limit'[s] = Len(history)
        BY <2>1 DEF ListHistory, IInv, TypeOK
      <3>2. Len(history) \in Nat
        BY StreamTypes
      <3> QED BY <1>4, <3>1, <3>2 DEF Heals, Lossless, Events
    <2>2. CASE EndReplay(s)
      <3>1. /\ stream[s] = "replay" /\ stream'[s] = "live"
            /\ cursor' = cursor /\ limit' = limit
            /\ ~(cursor[s] < limit[s])
        BY <2>2 DEF EndReplay, MoreToReplay, IInv, TypeOK
      <3>2. cursor[s] \in Nat /\ limit[s] \in Nat
        BY StreamTypes
      <3>3. 1..limit[s] \subseteq 1..cursor[s] /\ cursor[s]+1..limit[s] = {}
        BY <3>1, <3>2
      <3>4. Heals(s)'
        BY <1>2, <1>7, <3>1, <3>3 DEF StreamOK, Heals
      <3>5. Lossless(s)'
        BY <1>2, <1>4, <1>7, <3>1, <3>3 DEF StreamOK, Lossless, InChannel, InFlight
      <3> QED BY <3>4, <3>5
    <2>3. CASE Heartbeat(s) \/ Disconnect(s)
      <3>1. stream'[s] \in {"list", "closed"}
        BY <2>3 DEF Heartbeat, Disconnect, IInv, TypeOK
      <3> QED BY <3>1 DEF Heals, Lossless, Subscribed
    <2> QED BY <2>1, <2>2, <2>3
  <1> QED BY <1>5, <1>6, <1>8, <1>9, OneStream DEF StreamOK

(* Writing an event, and ending with a terminal one. *)
LEMMA DeliverShape ==
  ASSUME IInv, NEW s \in Streams, NEW i \in Events,
         NEW next \in {"replay", "live"}, Subscribed(s),
         Deliver(s, i, next), history' = history
  PROVE  /\ stream' \in [Streams -> StreamStates] /\ seen' \in [Streams -> SUBSET Events]
         /\ \A r \in Streams \ {s} : stream'[r] = stream[r] /\ seen'[r] = seen[r]
         /\ seen'[s] = seen[s] \cup {i}
         /\ stream'[s] \in {next, "ended"}
         /\ Ends(s)'
  <1>1. seen' = [seen EXCEPT ![s] = seen[s] \cup {i}]
    BY DEF Deliver
  <1>2. stream' = [stream EXCEPT ![s] = IF i \notin seen[s] /\ Terminal(i) THEN "ended" ELSE next]
    BY DEF Deliver
  <1>3. seen'[s] = seen[s] \cup {i} /\ seen' \in [Streams -> SUBSET Events]
    BY <1>1 DEF IInv, TypeOK
  <1>4. stream'[s] = IF i \notin seen[s] /\ Terminal(i) THEN "ended" ELSE next
    BY <1>2 DEF IInv, TypeOK
  <1>5. stream' \in [Streams -> StreamStates]
    BY <1>2 DEF IInv, TypeOK, StreamStates
  <1>6. \A j : Terminal(j)' = Terminal(j)
    BY DEF Terminal
  <1>7. Last(s) = {}
    BY StreamByStream DEF IInv, StreamOK, Ends
  <1>8. Last(s)' = {j \in seen[s] \cup {i} : Terminal(j)}
    BY <1>3, <1>6 DEF Last
  <1>9. Ends(s)'
    <2>1. CASE i \notin seen[s] /\ Terminal(i)
      <3>1. Last(s)' = {i}
        BY <1>7, <1>8, <2>1 DEF Last
      <3>2. stream'[s] = "ended"
        BY <1>4, <2>1
      <3> QED BY <3>1, <3>2 DEF Ends, Subscribed
    <2>2. CASE ~(i \notin seen[s] /\ Terminal(i))
      <3>1. Last(s)' = {}
        BY <1>7, <1>8, <2>2 DEF Last
      <3>2. stream'[s] = next
        BY <1>4, <2>2
      <3> QED BY <3>1, <3>2 DEF Ends
    <2> QED BY <2>1, <2>2
  <1> QED BY <1>1, <1>2, <1>3, <1>4, <1>5, <1>9 DEF IInv, TypeOK

LEMMA ReplayStep ==
  ASSUME IInv, NEW s \in Streams, ReplayNext(s)
  PROVE  IInv'
  <1> DEFINE i == cursor[s] + 1
  <1>1. /\ stream[s] = "replay" /\ cursor[s] < limit[s]
        /\ cursor' = [cursor EXCEPT ![s] = cursor[s] + 1]
        /\ Deliver(s, i, "replay")
        /\ UNCHANGED <<planVars, busVars, channel, limit, dropped, connects>>
    BY DEF ReplayNext, MoreToReplay
  <1>2. history' = history /\ Events' = Events /\ inflight' = inflight
    BY <1>1 DEF busVars, Events
  <1>3. i \in Events /\ i \in 1..limit[s] /\ cursor[s] \in Nat /\ limit[s] \in Nat
    BY <1>1, StreamTypes DEF Events
  <1>4. Subscribed(s)
    BY <1>1 DEF Subscribed
  <1>5. /\ stream' \in [Streams -> StreamStates] /\ seen' \in [Streams -> SUBSET Events]
        /\ \A r \in Streams \ {s} : stream'[r] = stream[r] /\ seen'[r] = seen[r]
        /\ seen'[s] = seen[s] \cup {i} /\ stream'[s] \in {"replay", "ended"} /\ Ends(s)'
    BY <1>1, <1>2, <1>3, <1>4, DeliverShape
  <1>6. cursor' \in [Streams -> Nat] /\ cursor'[s] = i
    BY <1>1, <1>3 DEF IInv, TypeOK
  <1>7. TypeOK'
    <2>1. /\ plan' \in {"open", "closing", "closed"} /\ run' \in Nat
          /\ work' \in [Workers -> {"running", "committed", "idle"}]
          /\ history' \in Seq([terminal : BOOLEAN, run : Nat])
          /\ inflight' \in [Publishers -> Events \cup {0}]
      BY <1>1 DEF IInv, TypeOK, planVars, busVars
    <2> QED BY <1>1, <1>2, <1>5, <1>6, <2>1 DEF IInv, TypeOK
  <1>8. Only(s)
    BY <1>1, <1>5 DEF IInv, TypeOK, Only
  <1>9. StreamOK(s)
    BY StreamByStream DEF IInv
  <1> HIDE DEF i
  <1>10. Heals(s)'
    <2>1. \A j \in 1..i : j \in 1..cursor[s] \/ j = i
      BY <1>3 DEF i
    <2> QED BY <1>1, <1>5, <1>6, <1>9, <2>1 DEF StreamOK, Heals
  <1>11. Lossless(s)'
    <2>1. \A j \in cursor[s]+1..limit[s] : j = i \/ j \in i+1..limit[s]
      BY <1>3 DEF i
    <2>2. \A j : InChannel(s, j)' = InChannel(s, j) /\ InFlight(j)' = InFlight(j)
      BY <1>1, <1>2 DEF InChannel, InFlight
    <2>3. dropped' = dropped /\ limit' = limit
      BY <1>1
    <2> SUFFICES ASSUME Subscribed(s)', NEW j \in Events
                 PROVE  \/ j \in seen'[s] \/ InChannel(s, j)' \/ InFlight(j)'
                        \/ j \in dropped'[s] \/ stream'[s] = "list"
                        \/ stream'[s] = "replay" /\ j \in cursor'[s]+1..limit'[s]
      BY <1>2 DEF Lossless
    <2>4. stream'[s] = "replay"
      BY <1>5 DEF Subscribed
    <2>5. \/ j \in seen[s] \/ InChannel(s, j) \/ InFlight(j)
          \/ j \in dropped[s] \/ j \in cursor[s]+1..limit[s]
      BY <1>1, <1>4, <1>9 DEF StreamOK, Lossless
    <2> QED BY <1>5, <1>6, <2>1, <2>2, <2>3, <2>4, <2>5
  <1> QED BY <1>5, <1>7, <1>8, <1>10, <1>11, OneStream DEF StreamOK

LEMMA ReceiveStep ==
  ASSUME IInv, NEW s \in Streams, Receive(s)
  PROVE  IInv'
  <1> DEFINE q == channel[s]
             i == Head(q)
  <1>1. /\ stream[s] = "live" /\ q # <<>>
        /\ channel' = [channel EXCEPT ![s] = Tail(q)]
        /\ Deliver(s, i, "live")
        /\ UNCHANGED <<planVars, busVars, cursor, limit, dropped, connects>>
    BY DEF Receive
  <1>2. history' = history /\ Events' = Events /\ inflight' = inflight
    BY <1>1 DEF busVars, Events
  <1>3. q \in Seq(Events) /\ Len(q) \in Nat /\ Len(q) <= Capacity
    BY StreamTypes
  <1>4. /\ i \in Events /\ Tail(q) \in Seq(Events) /\ Len(Tail(q)) = Len(q) - 1
        /\ q[1] = i /\ \A k \in 1..Len(Tail(q)) : Tail(q)[k] = q[k + 1]
    BY <1>1, <1>3, TailShape
  <1>5. Subscribed(s)
    BY <1>1 DEF Subscribed
  <1>6. /\ stream' \in [Streams -> StreamStates] /\ seen' \in [Streams -> SUBSET Events]
        /\ \A r \in Streams \ {s} : stream'[r] = stream[r] /\ seen'[r] = seen[r]
        /\ seen'[s] = seen[s] \cup {i} /\ stream'[s] \in {"live", "ended"} /\ Ends(s)'
    BY <1>1, <1>2, <1>4, <1>5, DeliverShape
  <1>7. channel'[s] = Tail(q)
    BY <1>1 DEF IInv, TypeOK
  <1> HIDE DEF q, i
  <1>8. TypeOK'
    <2>1. /\ plan' \in {"open", "closing", "closed"} /\ run' \in Nat
          /\ work' \in [Workers -> {"running", "committed", "idle"}]
          /\ history' \in Seq([terminal : BOOLEAN, run : Nat])
          /\ inflight' \in [Publishers -> Events \cup {0}]
      BY <1>1 DEF IInv, TypeOK, planVars, busVars
    <2>2. channel' \in [Streams -> Seq(Events)]
      BY <1>1, <1>4 DEF IInv, TypeOK
    <2>3. Capacity \in Nat
      BY StreamAssumption DEF StreamAssumption
    <2>4. Len(Tail(q)) <= Capacity
      BY <1>3, <1>4, <2>3
    <2>5. \A r \in Streams : Len(channel'[r]) <= Capacity
      BY <1>1, <2>4 DEF IInv, TypeOK
    <2> QED BY <1>1, <1>2, <1>6, <2>1, <2>2, <2>5 DEF IInv, TypeOK
  <1>9. Only(s)
    BY <1>1, <1>6 DEF IInv, TypeOK, Only
  <1>10. StreamOK(s)
    BY StreamByStream DEF IInv
  <1>11. Heals(s)'
    BY <1>1, <1>6, <1>10 DEF StreamOK, Heals
  <1>12. Lossless(s)'
    <2> SUFFICES ASSUME Subscribed(s)', NEW j \in Events
                 PROVE  \/ j \in seen'[s] \/ InChannel(s, j)' \/ InFlight(j)'
                        \/ j \in dropped'[s]
      BY <1>2 DEF Lossless
    <2>1. \/ j \in seen[s] \/ InChannel(s, j) \/ InFlight(j) \/ j \in dropped[s]
      BY <1>1, <1>5, <1>10 DEF StreamOK, Lossless
    <2>2. InChannel(s, j) => j = i \/ InChannel(s, j)'
      <3> SUFFICES ASSUME InChannel(s, j), j # i PROVE InChannel(s, j)'
        OBVIOUS
      <3>1. PICK k \in 1..Len(q) : q[k] = j
        BY DEF InChannel, q
      <3>2. k - 1 \in 1..Len(Tail(q)) /\ k = (k - 1) + 1
        BY <1>3, <1>4, <3>1
      <3>3. Tail(q)[k - 1] = j
        BY <1>4, <3>1, <3>2
      <3> QED BY <1>7, <3>2, <3>3 DEF InChannel
    <2>3. InFlight(j)' = InFlight(j) /\ dropped' = dropped
      BY <1>1, <1>2 DEF InFlight
    <2> QED BY <1>6, <2>1, <2>2, <2>3
  <1> QED BY <1>6, <1>8, <1>9, <1>11, <1>12, OneStream DEF StreamOK

-----------------------------------------------------------------------------
LEMMA InitInvariant == Init => IInv
  <1> SUFFICES ASSUME Init PROVE IInv
    OBVIOUS
  <1>1. <<>> \in Seq(Entries) /\ <<>> \in Seq(Events) /\ Len(<<>>) = 0
    OBVIOUS
  <1>2. history = <<>> /\ 0 \in 0..Len(history)
    BY <1>1 DEF Init
  <1>3. TypeOK
    <2>1. /\ plan \in {"open", "closing", "closed"} /\ run \in Nat
          /\ work \in [Workers -> {"running", "committed", "idle"}]
          /\ history \in Seq([terminal : BOOLEAN, run : Nat])
          /\ inflight \in [Publishers -> Events \cup {0}]
      BY <1>1, <1>2 DEF Init, Entries
    <2>2. channel \in [Streams -> Seq(Events)] /\ \A s \in Streams : Len(channel[s]) <= Capacity
      BY <1>1, StreamAssumption DEF Init, StreamAssumption
    <2>3. /\ stream \in [Streams -> StreamStates] /\ seen \in [Streams -> SUBSET Events]
          /\ cursor \in [Streams -> Nat] /\ limit \in [Streams -> 0..Len(history)]
          /\ dropped \in [Streams -> SUBSET Events]
          /\ connects \in Nat
      BY <1>2 DEF Init, StreamStates
    <2> QED BY <2>1, <2>2, <2>3 DEF TypeOK
  <1>4. \A s \in Streams : StreamOK(s)
    BY DEF Init, StreamOK, Heals, Lossless, Ends, Subscribed
  <1> QED BY <1>3, <1>4, StreamByStream DEF IInv

LEMMA NextInvariant == IInv /\ [Next]_vars => IInv'
  <1> SUFFICES ASSUME IInv, [Next]_vars PROVE IInv'
    OBVIOUS
  <1>1. CASE UNCHANGED vars
    <2>1. /\ UNCHANGED <<busVars, streamVars, channel, dropped>>
          /\ plan' = plan /\ run' = run /\ work' = work
      BY <1>1 DEF vars, planVars
    <2> QED BY <2>1, QuietStep DEF IInv, TypeOK
  <1>2. CASE (\E w \in Workers : Log(w) \/ Report(w)) \/ Announce \/ Conclude
    BY <1>2, StoreStep
  <1>3. CASE \E p \in Publishers : Publish(p)
    BY <1>3, PublishStep
  <1>4. CASE \/ \E w \in Workers : Commit(w)
             \/ \E canceled \in BOOLEAN : Close(canceled)
             \/ \E W \in SUBSET Workers : Rerun(W)
    <2>1. /\ UNCHANGED <<busVars, streamVars, channel, dropped>>
          /\ plan' \in {"open", "closing", "closed"} /\ run' \in Nat
          /\ work' \in [Workers -> {"running", "committed", "idle"}]
      <3>1. CASE \E w \in Workers : Commit(w)
        BY <3>1 DEF Commit, IInv, TypeOK
      <3>2. CASE \E canceled \in BOOLEAN : Close(canceled)
        BY <3>2 DEF Close, IInv, TypeOK
      <3>3. CASE \E W \in SUBSET Workers : Rerun(W)
        BY <3>3 DEF Rerun, IInv, TypeOK
      <3> QED BY <1>4, <3>1, <3>2, <3>3
    <2> QED BY <2>1, QuietStep
  <1>5. CASE \E s \in Streams : Connect(s)
    BY <1>5, ConnectStep
  <1>6. CASE \E s \in Streams : ListHistory(s) \/ EndReplay(s) \/ Heartbeat(s) \/ Disconnect(s)
    BY <1>6, MoveStep
  <1>7. CASE \E s \in Streams : ReplayNext(s)
    BY <1>7, ReplayStep
  <1>8. CASE \E s \in Streams : Receive(s)
    BY <1>8, ReceiveStep
  <1> QED BY <1>1, <1>2, <1>3, <1>4, <1>5, <1>6, <1>7, <1>8
          DEF Next, PublisherStep, StreamStep

(* The inductive invariant of publishAndStore, the bus and streamPlanEvents. *)
THEOREM StreamInvariant == Spec => []IInv
  BY InitInvariant, NextInvariant, PTL DEF Spec

(* No event falls between the replayed history and the channel. *)
THEOREM NothingIsLostSilently == Spec => []NoSilentLoss
  <1>1. IInv => NoSilentLoss
    BY DEF IInv
  <1> QED BY <1>1, StreamInvariant, PTL

(* After a replay everything it listed has been written. *)
THEOREM ReplaysHeal == Spec => []ReplayHeals
  <1>1. IInv => ReplayHeals
    BY DEF IInv
  <1> QED BY <1>1, StreamInvariant, PTL

(* A stream ends exactly with the one terminal event it writes. *)
THEOREM StreamsEndWithTerminal == Spec => []EndsWithTerminal
  <1>1. IInv => EndsWithTerminal
    BY DEF IInv
  <1> QED BY <1>1, StreamInvariant, PTL
=============================================================================
