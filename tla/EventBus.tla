------------------------------ MODULE EventBus ------------------------------
(***************************************************************************)
(* The way of events from capability services to the shell: the bounded    *)
(* queue of each service (services/*/internal/eventpub), the event hub     *)
(* with its progress coalescer (platform/internal/eventhub) and the        *)
(* exclusive stream connections (platform/internal/streamserver).          *)
(*                                                                         *)
(* Actors: a service and its ingest goroutine per source, the goroutines   *)
(* of the coalescer's timer, a writer per shell connection and per stream  *)
(* connection.  A service's queue and the pipe behind it are one queue.    *)
(***************************************************************************)
EXTENDS Integers, Sequences, FiniteSets

CONSTANTS
    Sources,        \* services, each with one terminal and one task
    Kinds,          \* the kinds of events they emit in an instance
    Sinks,          \* shell connections to the events pipe
    Streams,        \* stream connections
    Flushers,       \* goroutines of the coalescer's timer
    Bound,          \* the source whose terminal a stream is bound to
    InQueue, OutQueue, StreamQueue, \* capacities
    MaxEvents,      \* bound: events of one kind a source emits
    NoSink

ASSUME EventBusAssumption ==
    /\ Kinds \subseteq {"state", "data", "progress"}
    /\ Bound \in [Streams -> Sources]
    /\ InQueue \in Nat \ {0} /\ OutQueue \in Nat \ {0} /\ StreamQueue \in Nat \ {0}
    /\ MaxEvents \in Nat
    /\ NoSink \notin Sinks

VARIABLES
    sent,           \* [source -> [kind -> events emitted so far]]
    inbox,          \* [source -> its events on the way to the hub]
    ipc, frame, todo, at,   \* per source, its ingest goroutine: where it is,
                    \* its event, the receivers still to serve, the sink it is at
    shared,         \* per source: its event goes to the shell connections too
    sink, out, seen,        \* per sink: life, queue, last event seen per source and kind
    strm, squeue, sseen,    \* per stream: life, queue, last data event received
    latest, timer,  \* progressCoalescer.latest, and whether its timer is set
    fpc, batch, ftodo       \* per flusher: whether it runs, its batch, the sinks left

emitting  == <<sent, inbox>>
ingesting == <<ipc, frame, todo, at, shared>>
sinks     == <<sink, out, seen>>
streams   == <<strm, squeue, sseen>>
progress  == <<latest, timer>>
flushing  == <<fpc, batch, ftodo>>
vars == <<emitting, ingesting, sinks, streams, progress, flushing>>

-----------------------------------------------------------------------------
Number == 0..MaxEvents
Nobody == [s \in Sources |-> 0]
NoEvent == [kind |-> "none"]
Event  == [src : Sources, kind : Kinds, n : Number]
Batch  == [kind : {"batch"}, values : [Sources -> Number]]

Queues(size, items) == {q \in Seq(items) : Len(q) <= size}

TypeOK ==
    /\ sent \in [Sources -> [Kinds -> Number]]
    /\ inbox \in [Sources -> Queues(InQueue, Event)]
    /\ ipc \in [Sources -> {"read", "match", "stream", "route", "fan"}]
    /\ frame \in [Sources -> Event \cup {NoEvent}]
    /\ todo \in [Sources -> (SUBSET Streams) \cup (SUBSET Sinks)]
    /\ at \in [Sources -> Sinks \cup {NoSink}]
    /\ shared \in [Sources -> BOOLEAN]
    /\ sink \in [Sinks -> {"new", "open", "dead", "gone"}]
    /\ out \in [Sinks -> Queues(OutQueue, Event \cup Batch)]
    /\ seen \in [Sinks -> [Sources -> [Kinds -> Number]]]
    /\ strm \in [Streams -> {"new", "open", "closing", "overflowed", "gone"}]
    /\ squeue \in [Streams -> Queues(StreamQueue, Event)]
    /\ sseen \in [Streams -> Number]
    /\ latest \in [Sources -> Number]
    /\ timer \in BOOLEAN
    /\ fpc \in [Flushers -> BOOLEAN]
    /\ batch \in [Flushers -> [Sources -> Number]]
    /\ ftodo \in [Flushers -> SUBSET Sinks]

Init ==
    /\ sent = [s \in Sources |-> [k \in Kinds |-> 0]]
    /\ inbox = [s \in Sources |-> <<>>]
    /\ ipc = [s \in Sources |-> "read"]
    /\ frame = [s \in Sources |-> NoEvent]
    /\ todo = [s \in Sources |-> {}]
    /\ at = [s \in Sources |-> NoSink]
    /\ shared = [s \in Sources |-> FALSE]
    /\ sink = [k \in Sinks |-> "new"]
    /\ out = [k \in Sinks |-> <<>>]
    /\ seen = [k \in Sinks |-> [s \in Sources |-> [d \in Kinds |-> 0]]]
    /\ strm = [k \in Streams |-> "new"]
    /\ squeue = [k \in Streams |-> <<>>]
    /\ sseen = [k \in Streams |-> 0]
    /\ latest = Nobody
    /\ timer = FALSE
    /\ fpc = [f \in Flushers |-> FALSE]
    /\ batch = [f \in Flushers |-> Nobody]
    /\ ftodo = [f \in Flushers |-> {}]

-----------------------------------------------------------------------------
(* A service emits (Async.Emit): progress is dropped when its queue is     *)
(* full, anything else waits for room.                                     *)

Emit(s, kind) ==
    /\ sent[s][kind] < MaxEvents
    /\ sent' = [sent EXCEPT ![s][kind] = @ + 1]
    /\ LET e == [src |-> s, kind |-> kind, n |-> sent[s][kind] + 1]
       IN  IF Len(inbox[s]) < InQueue
             THEN inbox' = [inbox EXCEPT ![s] = Append(@, e)]
             ELSE kind = "progress" /\ UNCHANGED inbox
    /\ UNCHANGED <<ingesting, sinks, streams, progress, flushing>>

-----------------------------------------------------------------------------
(* The ingest goroutine of a source.                                       *)

\* handleIngestConn reads a frame; DeliverExclusive copies the sessions.
Read(s) ==
    /\ ipc[s] = "read"
    /\ inbox[s] # <<>>
    /\ frame' = [frame EXCEPT ![s] = Head(inbox[s])]
    /\ inbox' = [inbox EXCEPT ![s] = Tail(@)]
    /\ ipc' = [ipc EXCEPT ![s] = "match"]
    /\ UNCHANGED <<sent, todo, at, shared, sinks, streams, progress, flushing>>

\* Spec.Match: only the terminal's data events have a stream.
Match(s) ==
    /\ ipc[s] = "match"
    /\ todo' = [todo EXCEPT ![s] =
                 {k \in Streams : /\ frame[s].kind = "data" /\ Bound[k] = s
                                  /\ strm[k] \in {"open", "closing"}}]
    /\ shared' = [shared EXCEPT ![s] = TRUE]
    /\ ipc' = [ipc EXCEPT ![s] = "stream"]
    /\ UNCHANGED <<frame, at, emitting, sinks, streams, progress, flushing>>

\* Mutant: what finds no room is dropped.
EnqueueStreamLossy(k, e) ==
    /\ squeue' = [squeue EXCEPT ![k] = IF Len(@) < StreamQueue THEN Append(@, e) ELSE @]
    /\ UNCHANGED strm

\* Mutant: the queue has no bound.
EnqueueStreamUnbounded(k, e) ==
    /\ squeue' = [squeue EXCEPT ![k] = Append(@, e)]
    /\ UNCHANGED strm

\* enqueueStream: a session without room is removed and closed.
EnqueueStream(k, e) ==
    IF Len(squeue[k]) < StreamQueue
      THEN squeue' = [squeue EXCEPT ![k] = Append(@, e)] /\ UNCHANGED strm
      ELSE /\ strm' = [strm EXCEPT ![k] = IF @ \in {"open", "closing"}
                                          THEN "overflowed" ELSE @]
           /\ UNCHANGED squeue

\* One session of the copy; it counts as delivered once it is queued.
DeliverExclusive(s) ==
    /\ ipc[s] = "stream"
    /\ IF todo[s] = {}
         THEN /\ ipc' = [ipc EXCEPT ![s] = IF shared[s] THEN "route" ELSE "read"]
              /\ UNCHANGED <<todo, shared, strm, squeue>>
         ELSE \E k \in todo[s] :
              /\ todo' = [todo EXCEPT ![s] = @ \ {k}]
              /\ EnqueueStream(k, frame[s])
              /\ shared' = [shared EXCEPT ![s] = @ /\ Len(squeue[k]) = StreamQueue]
              /\ UNCHANGED ipc
    /\ UNCHANGED <<frame, at, sseen, emitting, sinks, progress, flushing>>

\* progressCoalescer.handle: keep progress, fan everything else out.
Route(s) ==
    /\ ipc[s] = "route"
    /\ IF frame[s].kind = "progress"
         THEN /\ latest' = [latest EXCEPT ![s] = frame[s].n]
              /\ timer' = TRUE
              /\ ipc' = [ipc EXCEPT ![s] = "read"]
              /\ UNCHANGED todo
         ELSE /\ todo' = [todo EXCEPT ![s] = {k \in Sinks : sink[k] \in {"open", "dead"}}]
              /\ ipc' = [ipc EXCEPT ![s] = "fan"]
              /\ UNCHANGED progress
    /\ UNCHANGED <<frame, at, shared, emitting, sinks, streams, flushing>>

\* fanOut goes to the next connection, in any order ...
FanOutNext(s) ==
    /\ ipc[s] = "fan" /\ at[s] = NoSink
    /\ IF todo[s] = {}
         THEN ipc' = [ipc EXCEPT ![s] = "read"] /\ UNCHANGED at
         ELSE (\E k \in todo[s] : at' = [at EXCEPT ![s] = k]) /\ UNCHANGED ipc
    /\ UNCHANGED <<frame, todo, shared, emitting, sinks, streams, progress, flushing>>

\* Mutant: a full queue loses the event.
EnqueueEventLossy(s) ==
    /\ ipc[s] = "fan" /\ at[s] # NoSink
    /\ IF Len(out[at[s]]) < OutQueue
         THEN out' = [out EXCEPT ![at[s]] = Append(@, frame[s])]
         ELSE UNCHANGED out
    /\ todo' = [todo EXCEPT ![s] = @ \ {at[s]}]
    /\ at' = [at EXCEPT ![s] = NoSink]
    /\ UNCHANGED <<ipc, frame, shared, sink, seen, emitting, streams, progress, flushing>>

\* Mutant: a connection that died is waited for.
EnqueueEventOnly(s) ==
    /\ ipc[s] = "fan" /\ at[s] # NoSink
    /\ Len(out[at[s]]) < OutQueue
    /\ out' = [out EXCEPT ![at[s]] = Append(@, frame[s])]
    /\ todo' = [todo EXCEPT ![s] = @ \ {at[s]}]
    /\ at' = [at EXCEPT ![s] = NoSink]
    /\ UNCHANGED <<ipc, frame, shared, sink, seen, emitting, streams, progress, flushing>>

\* ... and waits there until there is room or the connection is dead.
EnqueueEvent(s) ==
    /\ ipc[s] = "fan" /\ at[s] # NoSink
    /\ \/ /\ Len(out[at[s]]) < OutQueue
          /\ out' = [out EXCEPT ![at[s]] = Append(@, frame[s])]
       \/ sink[at[s]] \in {"dead", "gone"} /\ UNCHANGED out
    /\ todo' = [todo EXCEPT ![s] = @ \ {at[s]}]
    /\ at' = [at EXCEPT ![s] = NoSink]
    /\ UNCHANGED <<ipc, frame, shared, sink, seen, emitting, streams, progress, flushing>>

Ingest(s) ==
    \/ Read(s) \/ Match(s) \/ DeliverExclusive(s) \/ Route(s)
    \/ FanOutNext(s) \/ EnqueueEvent(s)

-----------------------------------------------------------------------------
(* The coalescer's timer.                                                  *)

\* flush, up to the unlock, and the copy of the connections.
Flush(f) ==
    /\ timer
    /\ ~fpc[f]
    /\ timer' = FALSE
    /\ latest' = Nobody
    /\ batch' = [batch EXCEPT ![f] = latest]
    /\ ftodo' = [ftodo EXCEPT ![f] = {k \in Sinks : sink[k] \in {"open", "dead"}}]
    /\ fpc' = [fpc EXCEPT ![f] = TRUE]
    /\ UNCHANGED <<emitting, ingesting, sinks, streams>>

\* The batch is dropped where there is no room or the connection is dead.
FlushTo(f) ==
    /\ fpc[f]
    /\ \E k \in ftodo[f] :
         /\ ftodo' = [ftodo EXCEPT ![f] = @ \ {k}]
         /\ \/ /\ Len(out[k]) < OutQueue
               /\ out' = [out EXCEPT ![k] =
                           Append(@, [kind |-> "batch", values |-> batch[f]])]
            \/ /\ Len(out[k]) = OutQueue \/ sink[k] \in {"dead", "gone"}
               /\ UNCHANGED out
    /\ UNCHANGED <<fpc, batch, sink, seen, emitting, ingesting, streams, progress>>

FlushEnd(f) ==
    /\ fpc[f] /\ ftodo[f] = {}
    /\ fpc' = [fpc EXCEPT ![f] = FALSE]
    /\ batch' = [batch EXCEPT ![f] = Nobody]
    /\ UNCHANGED <<ftodo, emitting, ingesting, sinks, streams, progress>>

-----------------------------------------------------------------------------
(* Shell connections.                                                      *)

Subscribe(k) ==
    /\ sink[k] = "new"
    /\ sink' = [sink EXCEPT ![k] = "open"]
    /\ UNCHANGED <<out, seen, emitting, ingesting, streams, progress, flushing>>

\* writeLoop: the shell receives the head of the queue.
Write(k) ==
    /\ sink[k] = "open"
    /\ out[k] # <<>>
    /\ LET e == Head(out[k])
       IN  seen' = [seen EXCEPT ![k] =
             IF e.kind = "batch"
             THEN [s \in Sources |-> IF e.values[s] # 0
                   THEN [@[s] EXCEPT !["progress"] = e.values[s]] ELSE @[s]]
             ELSE [@ EXCEPT ![e.src][e.kind] = e.n]]
    /\ out' = [out EXCEPT ![k] = Tail(@)]
    /\ UNCHANGED <<sink, emitting, ingesting, streams, progress, flushing>>

\* A write fails: the connection is dead, ...
WriteFails(k) ==
    /\ sink[k] = "open"
    /\ out[k] # <<>>
    /\ sink' = [sink EXCEPT ![k] = "dead"]
    /\ UNCHANGED <<out, seen, emitting, ingesting, streams, progress, flushing>>

\* ... and then leaves the hub.
Unsubscribe(k) ==
    /\ sink[k] = "dead"
    /\ sink' = [sink EXCEPT ![k] = "gone"]
    /\ UNCHANGED <<out, seen, emitting, ingesting, streams, progress, flushing>>

-----------------------------------------------------------------------------
(* Stream connections.                                                     *)

OpenStream(k) ==
    /\ strm[k] = "new"
    /\ strm' = [strm EXCEPT ![k] = "open"]
    /\ UNCHANGED <<squeue, sseen, emitting, ingesting, sinks, progress, flushing>>

\* The shell closes it; handleConn notices and removes the session.
PeerCloses(k) ==
    /\ strm[k] = "open"
    /\ strm' = [strm EXCEPT ![k] = "closing"]
    /\ UNCHANGED <<squeue, sseen, emitting, ingesting, sinks, progress, flushing>>

CloseStream(k) ==
    /\ strm[k] = "closing"
    /\ strm' = [strm EXCEPT ![k] = "gone"]
    /\ UNCHANGED <<squeue, sseen, emitting, ingesting, sinks, progress, flushing>>

\* writeLoop of a session.
WriteStream(k) ==
    /\ strm[k] = "open"
    /\ squeue[k] # <<>>
    /\ sseen' = [sseen EXCEPT ![k] = Head(squeue[k]).n]
    /\ squeue' = [squeue EXCEPT ![k] = Tail(@)]
    /\ UNCHANGED <<strm, emitting, ingesting, sinks, progress, flushing>>

-----------------------------------------------------------------------------
Next ==
    \/ \E s \in Sources : Ingest(s) \/ \E d \in Kinds : Emit(s, d)
    \/ \E f \in Flushers : Flush(f) \/ FlushTo(f) \/ FlushEnd(f)
    \/ \E k \in Sinks : Subscribe(k) \/ Write(k) \/ WriteFails(k) \/ Unsubscribe(k)
    \/ \E k \in Streams : OpenStream(k) \/ PeerCloses(k) \/ CloseStream(k) \/ WriteStream(k)

Spec == Init /\ [][Next]_vars

\* Goroutines run, and the shell reads from a connection or loses it.
Fairness ==
    /\ \A s \in Sources : WF_vars(Ingest(s))
    /\ \A f \in Flushers : WF_vars(FlushTo(f) \/ FlushEnd(f))
    /\ \A k \in Sinks : WF_vars(Write(k) \/ WriteFails(k)) /\ WF_vars(Unsubscribe(k))

FairSpec == Spec /\ Fairness

-----------------------------------------------------------------------------
(* Properties.                                                             *)

\* A shell connection sees the state events of a service in order and
\* without a gap, from the first it sees on, however slow it is.
StatesWithoutGap ==
    [][\A k \in Sinks, s \in Sources :
        seen'[k][s]["state"] # seen[k][s]["state"] =>
            \/ seen[k][s]["state"] = 0
            \/ seen'[k][s]["state"] = seen[k][s]["state"] + 1]_vars

\* A stream receives the data of its terminal in order and without a gap: it
\* is closed rather than left with a hole.
StreamWithoutGap ==
    [][\A k \in Streams : sseen'[k] # sseen[k] =>
        sseen[k] = 0 \/ sseen'[k] = sseen[k] + 1]_vars

\* A state event is received by every connection it was meant for, unless
\* the connection dies; slow and dead ones only delay it.
StatesArrive ==
    \A k \in Sinks, s \in Sources, n \in 1..MaxEvents :
        (ipc[s] = "fan" /\ k \in todo[s] /\ frame[s].kind = "state" /\ frame[s].n = n)
            ~> seen[k][s]["state"] >= n \/ sink[k] # "open"

\* Whatever a service emits leaves its queue.
InboxDrains == \A s \in Sources : inbox[s] # <<>> ~> inbox[s] = <<>>
=============================================================================
