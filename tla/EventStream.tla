----------------------------- MODULE EventStream -----------------------------
(***************************************************************************)
(* The events of one plan on their way to the browsers that watch it: the    *)
(* scheduler's publishAndStore, the in-memory bus (internal/events/bus.go)   *)
(* and the SSE handler streamPlanEvents (internal/api/plan_runtime.go).      *)
(*                                                                          *)
(* A goroutine first changes the plan, then appends the event to the stored  *)
(* history, then offers it to the bus; these are three separate steps and    *)
(* several goroutines take them at once.  The bus never waits: an event is   *)
(* dropped for a subscriber whose channel is full.  A stream subscribes,     *)
(* replays the history, then follows its channel and replays the history     *)
(* again at every heartbeat; it writes an event once (by its fingerprint)    *)
(* and ends with the first terminal event it writes.                         *)
(*                                                                          *)
(* An event is its index in the history.  That fingerprints differ (they     *)
(* contain a time in nanoseconds) is an abstraction.                         *)
(***************************************************************************)
EXTENDS Naturals, Sequences

CONSTANTS
  Workers,     \* the worker goroutines of the plan, one per task
  Closer,      \* who publishes for the plan and closes it: its runner or a handler
  Streams,     \* the SSE requests
  Capacity,    \* the capacity of a subscriber's channel
  MaxEvents,   \* bound: events in the history
  MaxRuns,     \* bound: runs of the plan
  MaxConnects  \* bound: connections

ASSUME StreamAssumption ==
  /\ Closer \notin Workers
  /\ Capacity \in Nat \ {0}
  /\ MaxEvents \in Nat /\ MaxRuns \in Nat /\ MaxConnects \in Nat

Publishers == Workers \cup {Closer}

VARIABLES
  plan,      \* the plan is "open", "closing" (event to come) or "closed"
  run,       \* the number of the current run
  work,      \* work[w]: "running", "committed" (event to come) or "idle"
  history,   \* PlanStore's events: [terminal, run]
  inflight,  \* inflight[p]: the event p has stored but not published, or 0
  stream,    \* stream[s]: where the handler is
  channel,   \* channel[s]: the subscription
  seen,      \* seen[s]: the events this connection has written
  cursor,    \* cursor[s]: how far the current replay has come
  limit,     \* limit[s]: the length of the history it listed
  dropped,   \* dropped[s]: what the bus dropped for s (history variable)
  connects   \* connections made so far

planVars == <<plan, run, work>>
busVars == <<history, inflight>>
streamVars == <<stream, seen, cursor, limit, connects>>
vars == <<planVars, busVars, streamVars, channel, dropped>>

Events == 1..Len(history)
Terminal(i) == history[i].terminal

(* Between Subscribe and the deferred Unsubscribe. Mutant: subscribe only     *)
(* after the history has been replayed.                                      *)
SubscribedLate(s) == stream[s] = "live"
Subscribed(s) == stream[s] \in {"list", "replay", "live"}

-----------------------------------------------------------------------------
Init ==
  /\ plan = "open"
  /\ run = 1
  /\ work = [w \in Workers |-> "running"]
  /\ history = <<>>
  /\ inflight = [p \in Publishers |-> 0]
  /\ stream = [s \in Streams |-> "closed"]
  /\ channel = [s \in Streams |-> <<>>]
  /\ seen = [s \in Streams |-> {}]
  /\ cursor = [s \in Streams |-> 0]
  /\ limit = [s \in Streams |-> 0]
  /\ dropped = [s \in Streams |-> {}]
  /\ connects = 0

-----------------------------------------------------------------------------
(* The scheduler *)

(* The first half of publishAndStore. *)
Store(p, terminal) ==
  /\ inflight[p] = 0
  /\ Len(history) < MaxEvents
  /\ history' = Append(history, [terminal |-> terminal, run |-> run])
  /\ inflight' = [inflight EXCEPT ![p] = Len(history) + 1]
  /\ UNCHANGED <<streamVars, channel, dropped>>

(* Its second half: Bus.Publish drops the event for a subscriber that is     *)
(* Capacity events behind.                                                   *)
Offer(queue, i) == IF Len(queue) < Capacity THEN Append(queue, i) ELSE queue
Publish(p) ==
  /\ inflight[p] # 0
  /\ channel' = [s \in Streams |-> IF Subscribed(s)
                                   THEN Offer(channel[s], inflight[p])
                                   ELSE channel[s]]
  /\ dropped' = [s \in Streams |->
                   IF Subscribed(s) /\ Len(channel[s]) >= Capacity
                   THEN dropped[s] \cup {inflight[p]} ELSE dropped[s]]
  /\ inflight' = [inflight EXCEPT ![p] = 0]
  /\ UNCHANGED <<planVars, history, streamVars>>

(* plan_started, task_ready, task_started, and the events of user commands. *)
Announce == /\ plan # "closing"
            /\ Store(Closer, FALSE)
            /\ UNCHANGED planVars

(* task_log: forwardTaskLogs is drained before the commit. *)
Log(w) == /\ work[w] = "running"
          /\ Store(w, FALSE)
          /\ UNCHANGED planVars

(* The transaction of markTaskCompleted or markTaskFailed, or a discard. *)
Commit(w) ==
  /\ work[w] = "running"
  /\ inflight[w] = 0
  /\ work' = [work EXCEPT ![w] = "committed"]
  /\ UNCHANGED <<plan, run, busVars, streamVars, channel, dropped>>

(* Its events: artifact_created and task_completed, task_retrying, or         *)
(* task_failed and a task_blocked for each dependent.                        *)
Report(w) ==
  /\ work[w] = "committed"
  /\ \E next \in {"committed", "idle"} : work' = [work EXCEPT ![w] = next]
  /\ Store(w, FALSE)
  /\ UNCHANGED <<plan, run>>

(* ExecutePlan finds every task committed, or the user cancels the plan ... *)
Close(canceled) ==
  /\ plan = "open"
  /\ canceled \/ \A w \in Workers : work[w] # "running"
  /\ plan' = "closing"
  /\ UNCHANGED <<run, work, busVars, streamVars, channel, dropped>>

(* ... and only then plan_completed, plan_failed or plan_canceled is stored. *)
Conclude ==
  /\ plan = "closing"
  /\ plan' = "closed"
  /\ Store(Closer, TRUE)
  /\ UNCHANGED <<run, work>>

(* Some tasks are retried and the plan is executed again. *)
Rerun(W) ==
  /\ plan = "closed"
  /\ inflight[Closer] = 0
  /\ run < MaxRuns
  /\ W # {} /\ \A w \in W : work[w] = "idle" /\ inflight[w] = 0
  /\ plan' = "open"
  /\ run' = run + 1
  /\ work' = [w \in Workers |-> IF w \in W THEN "running" ELSE work[w]]
  /\ UNCHANGED <<busVars, streamVars, channel, dropped>>

PublisherStep == \/ \E w \in Workers : Log(w) \/ Commit(w) \/ Report(w)
                 \/ \E p \in Publishers : Publish(p)
                 \/ Announce \/ Conclude

-----------------------------------------------------------------------------
(* streamPlanEvents *)

Connect(s) ==
  /\ stream[s] \in {"closed", "ended"}
  /\ connects < MaxConnects
  /\ connects' = connects + 1
  /\ stream' = [stream EXCEPT ![s] = "list"]
  /\ channel' = [channel EXCEPT ![s] = <<>>]
  /\ seen' = [seen EXCEPT ![s] = {}]
  /\ cursor' = [cursor EXCEPT ![s] = 0]
  /\ limit' = [limit EXCEPT ![s] = 0]
  /\ dropped' = [dropped EXCEPT ![s] = {}]
  /\ UNCHANGED <<planVars, busVars>>

(* replayUnseen begins with ListEvents. *)
ListHistory(s) ==
  /\ stream[s] = "list"
  /\ stream' = [stream EXCEPT ![s] = "replay"]
  /\ cursor' = [cursor EXCEPT ![s] = 0]
  /\ limit' = [limit EXCEPT ![s] = Len(history)]
  /\ UNCHANGED <<planVars, busVars, channel, seen, dropped, connects>>

(* An unseen event is written; a terminal one ends the stream. Mutant: it     *)
(* does not.                                                                 *)
DeliverOnly(s, i, next) ==
  /\ seen' = [seen EXCEPT ![s] = @ \cup {i}]
  /\ stream' = [stream EXCEPT ![s] = next]
Deliver(s, i, next) ==
  /\ seen' = [seen EXCEPT ![s] = @ \cup {i}]
  /\ stream' = [stream EXCEPT ![s] = IF i \notin seen[s] /\ Terminal(i)
                                     THEN "ended" ELSE next]

(* The loop of replayUnseen. Mutant: the last event listed is left out. *)
MoreThanOne(s) == cursor[s] + 1 < limit[s]
MoreToReplay(s) == cursor[s] < limit[s]
ReplayNext(s) ==
  /\ stream[s] = "replay"
  /\ MoreToReplay(s)
  /\ cursor' = [cursor EXCEPT ![s] = @ + 1]
  /\ Deliver(s, cursor[s] + 1, "replay")
  /\ UNCHANGED <<planVars, busVars, channel, limit, dropped, connects>>

EndReplay(s) ==
  /\ stream[s] = "replay"
  /\ ~MoreToReplay(s)
  /\ stream' = [stream EXCEPT ![s] = "live"]
  /\ UNCHANGED <<planVars, busVars, channel, seen, cursor, limit,
                 dropped, connects>>

(* case event := <-subscription *)
Receive(s) ==
  /\ stream[s] = "live"
  /\ channel[s] # <<>>
  /\ channel' = [channel EXCEPT ![s] = Tail(@)]
  /\ Deliver(s, Head(channel[s]), "live")
  /\ UNCHANGED <<planVars, busVars, cursor, limit, dropped, connects>>

(* case <-heartbeat.C. Mutant: it only keeps the connection alive. *)
HeartbeatOnly(s) == stream[s] = "live" /\ UNCHANGED vars
Heartbeat(s) ==
  /\ stream[s] = "live"
  /\ stream' = [stream EXCEPT ![s] = "list"]
  /\ UNCHANGED <<planVars, busVars, channel, seen, cursor, limit,
                 dropped, connects>>

(* The client goes away, or a write fails. *)
Disconnect(s) ==
  /\ Subscribed(s)
  /\ stream' = [stream EXCEPT ![s] = "closed"]
  /\ UNCHANGED <<planVars, busVars, channel, seen, cursor, limit,
                 dropped, connects>>

StreamStep(s) == ListHistory(s) \/ ReplayNext(s) \/ EndReplay(s) \/ Receive(s)

Next == \/ PublisherStep
        \/ \E canceled \in BOOLEAN : Close(canceled)
        \/ \E W \in SUBSET Workers : Rerun(W)
        \/ \E s \in Streams : \/ Connect(s) \/ StreamStep(s)
                              \/ Heartbeat(s) \/ Disconnect(s)

Spec == Init /\ [][Next]_vars

(* A stored event is published, and a stream whose client stays goes on: its  *)
(* select serves the channel and the ticker.                                 *)
FairSpec == /\ Spec
            /\ \A p \in Publishers : WF_vars(Publish(p))
            /\ \A s \in Streams : WF_vars(StreamStep(s)) /\ WF_vars(Heartbeat(s))

-----------------------------------------------------------------------------
StreamStates == {"closed", "list", "replay", "live", "ended"}

TypeOK ==
  /\ plan \in {"open", "closing", "closed"}
  /\ run \in Nat
  /\ work \in [Workers -> {"running", "committed", "idle"}]
  /\ history \in Seq([terminal : BOOLEAN, run : Nat])
  /\ inflight \in [Publishers -> Events \cup {0}]
  /\ stream \in [Streams -> StreamStates]
  /\ channel \in [Streams -> Seq(Events)]
  /\ \A s \in Streams : Len(channel[s]) <= Capacity
  /\ seen \in [Streams -> SUBSET Events]
  /\ cursor \in [Streams -> Nat]
  /\ limit \in [Streams -> 0..Len(history)]
  /\ dropped \in [Streams -> SUBSET Events]
  /\ connects \in Nat

(* Once a replay is over everything it listed has been written, whatever the  *)
(* bus dropped before: the heartbeat's replay heals the stream.              *)
ReplayHeals ==
  \A s \in Streams :
    /\ stream[s] = "replay" => \A i \in 1..cursor[s] : i \in seen[s]
    /\ stream[s] = "live" => \A i \in 1..limit[s] : i \in seen[s]

InChannel(s, i) == \E k \in 1..Len(channel[s]) : channel[s][k] = i
InFlight(i) == \E p \in Publishers : inflight[p] = i

(* No event falls between the replayed history and the channel: while a       *)
(* stream is open, an event it has not written waits in its channel, is      *)
(* about to be published, is still to be replayed, or met a full channel.    *)
NoSilentLoss ==
  \A s \in Streams : Subscribed(s) =>
    \A i \in Events : \/ i \in seen[s] \/ InChannel(s, i) \/ InFlight(i)
                      \/ i \in dropped[s] \/ stream[s] = "list"
                      \/ stream[s] = "replay" /\ i \in cursor[s]+1..limit[s]

(* A stream ends exactly when it has written a terminal event, and it has     *)
(* written only one.                                                         *)
EndsWithTerminal ==
  \A s \in Streams :
    LET last == {i \in seen[s] : Terminal(i)}
    IN /\ Subscribed(s) => last = {}
       /\ stream[s] = "ended" => \E i \in last : last = {i}

(* The invariant the proofs rest on. *)
IInv == TypeOK /\ ReplayHeals /\ NoSilentLoss /\ EndsWithTerminal

(* What a stream whose client stays has not written it writes, or it ends. *)
EventuallyDelivered ==
  \A s \in Streams, i \in 1..MaxEvents :
    (Subscribed(s) /\ i \in Events) ~> (i \in seen[s] \/ ~Subscribed(s))
=============================================================================
