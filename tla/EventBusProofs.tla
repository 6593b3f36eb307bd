--------------------------- MODULE EventBusProofs ---------------------------
(* Proofs about EventBus, for any services, shell connections, streams,    *)
(* flushers and sizes of the queues.                                       *)
EXTENDS EventBus, TLAPS

-----------------------------------------------------------------------------
(* Numbered events of one kind of one source in a queue.                   *)

Is(e, s, d) == e.kind = d /\ e.src = s

\* The events of kind d of source s in q are numbered a+1, a+2, ..., b.
Chain(q, s, d, a, b) ==
    \E p \in [0..Len(q) -> Number] :
        /\ p[0] = a /\ p[Len(q)] = b
        /\ \A i \in 1..Len(q) :
             IF Is(q[i], s, d) THEN q[i].n = p[i] /\ p[i] = p[i - 1] + 1 ELSE p[i] = p[i - 1]

LEMMA ChainEmpty ==
    ASSUME NEW s, NEW d, NEW a \in Number
    PROVE  Chain(<<>>, s, d, a, a)
<1>. DEFINE p == [i \in 0..Len(<<>>) |-> a]
<1>1. Len(<<>>) = 0 /\ p \in [0..Len(<<>>) -> Number] /\ p[0] = a /\ 1..Len(<<>>) = {}
    OBVIOUS
<1>. HIDE DEF p
<1>. QED  BY <1>1 DEF Chain

LEMMA ChainAppend ==
    ASSUME NEW S, NEW q \in Seq(S), NEW e, NEW s, NEW d, NEW a, NEW b, NEW c \in Number,
           Chain(q, s, d, a, b), Is(e, s, d) => e.n = c /\ c = b + 1, ~Is(e, s, d) => c = b
    PROVE  Chain(Append(q, e), s, d, a, c)
<1>1. PICK p \in [0..Len(q) -> Number] :
        /\ p[0] = a /\ p[Len(q)] = b
        /\ \A i \in 1..Len(q) :
             IF Is(q[i], s, d) THEN q[i].n = p[i] /\ p[i] = p[i - 1] + 1 ELSE p[i] = p[i - 1]
    BY DEF Chain
<1>. DEFINE r == Append(q, e)
            o == [i \in 0..Len(r) |-> IF i <= Len(q) THEN p[i] ELSE c]
<1>2. Len(q) \in Nat /\ Len(r) = Len(q) + 1 /\ r[Len(q) + 1] = e /\ \A i \in 1..Len(q) : r[i] = q[i]
    OBVIOUS
<1>3. o \in [0..Len(r) -> Number] /\ o[0] = a /\ o[Len(r)] = c /\ o[Len(q)] = b
    BY <1>1, <1>2
<1>4. ASSUME NEW i \in 1..Len(r)
      PROVE  IF Is(r[i], s, d) THEN r[i].n = o[i] /\ o[i] = o[i - 1] + 1 ELSE o[i] = o[i - 1]
    <2>1. CASE i = Len(q) + 1
        <3>1. r[i] = e /\ o[i] = c /\ o[i - 1] = b
            BY <2>1, <1>2, <1>3
        <3>. QED  BY <3>1
    <2>2. CASE i \in 1..Len(q)
        <3>1. r[i] = q[i] /\ o[i] = p[i] /\ o[i - 1] = p[i - 1]
            BY <2>2, <1>2
        <3>. QED  BY <3>1, <2>2, <1>1
    <2>. QED  BY <2>1, <2>2, <1>2
<1>. HIDE DEF o
<1>. QED  BY <1>3, <1>4 DEF Chain

LEMMA ChainTail ==
    ASSUME NEW S, NEW q \in Seq(S), q # <<>>, NEW s, NEW d, NEW a, NEW b, Chain(q, s, d, a, b)
    PROVE  IF Is(Head(q), s, d)
           THEN Head(q).n = a + 1 /\ a + 1 \in Number /\ Chain(Tail(q), s, d, a + 1, b)
           ELSE Chain(Tail(q), s, d, a, b)
<1>1. PICK p \in [0..Len(q) -> Number] :
        /\ p[0] = a /\ p[Len(q)] = b
        /\ \A i \in 1..Len(q) :
             IF Is(q[i], s, d) THEN q[i].n = p[i] /\ p[i] = p[i - 1] + 1 ELSE p[i] = p[i - 1]
    BY DEF Chain
<1>. DEFINE r == Tail(q)
            o == [i \in 0..Len(r) |-> p[i + 1]]
<1>2. Len(q) \in Nat \ {0} /\ Len(r) = Len(q) - 1 /\ Head(q) = q[1] /\ \A i \in 1..Len(r) : r[i] = q[i + 1]
    OBVIOUS
<1>3. o \in [0..Len(r) -> Number] /\ o[0] = p[1] /\ o[Len(r)] = b
    BY <1>1, <1>2
<1>4. ASSUME NEW i \in 1..Len(r)
      PROVE  IF Is(r[i], s, d) THEN r[i].n = o[i] /\ o[i] = o[i - 1] + 1 ELSE o[i] = o[i - 1]
    <2>1. r[i] = q[i + 1] /\ o[i] = p[i + 1] /\ o[i - 1] = p[i] /\ i + 1 \in 1..Len(q) /\ (i + 1) - 1 = i
        BY <1>2
    <2>. QED  BY <2>1, <1>1
<1>. HIDE DEF o
<1>5. Chain(r, s, d, p[1], b)
    BY <1>3, <1>4 DEF Chain
<1>6. 1 \in 1..Len(q) /\ 1 - 1 = 0 /\ p[1] \in Number
    BY <1>2
<1>. HIDE DEF r
<1>7. IF Is(q[1], s, d) THEN q[1].n = p[1] /\ p[1] = a + 1 ELSE p[1] = a
    <2>1. p[1 - 1] = a
        BY <1>1, <1>6
    <2>. QED  BY <2>1, <1>1, <1>6
<1>. QED  BY <1>2, <1>5, <1>6, <1>7

LEMMA ChainEnds ==
    ASSUME NEW q, Len(q) \in Nat, NEW s, NEW d, NEW a, NEW b, Chain(q, s, d, a, b)
    PROVE  a \in Number /\ b \in Number /\ (q = <<>> => a = b)
BY DEF Chain
-----------------------------------------------------------------------------
(* The inductive invariant.                                                *)

\* What an ingest goroutine has in hand, and whom it may still serve.
PlaceInv ==
    \A s \in Sources :
        /\ ipc[s] # "read" => frame[s] \in Event /\ frame[s].src = s
        /\ \A i \in 1..Len(inbox[s]) : inbox[s][i].src = s
        /\ at[s] # NoSink => ipc[s] = "fan" /\ at[s] \in todo[s]
        /\ ipc[s] = "stream" =>
             /\ todo[s] \subseteq Streams
             /\ frame[s].kind # "data" => todo[s] = {} /\ shared[s]
             /\ \A k \in todo[s] : Bound[k] = s /\ strm[k] # "new"
        /\ ipc[s] = "fan" => todo[s] \subseteq Sinks /\ \A k \in todo[s] : sink[k] # "new"

\* A receiver that has not come yet has received nothing.
NewInv ==
    /\ \A k \in Sinks : sink[k] = "new" =>
         out[k] = <<>> /\ \A s \in Sources, d \in Kinds : seen[k][s][d] = 0
    /\ \A k \in Streams : strm[k] = "new" => squeue[k] = <<>> /\ sseen[k] = 0
    /\ \A f \in Flushers : \A k \in ftodo[f] : sink[k] # "new"

\* A stream's queue holds the data of its terminal only.
StreamInv ==
    \A k \in Streams : \A i \in 1..Len(squeue[k]) : Is(squeue[k][i], Bound[k], "data")

TypeInv == TypeOK /\ PlaceInv /\ NewInv /\ StreamInv

\* The ingest goroutine of s is busy with an event of kind d.
Hot(s, d) == ipc[s] # "read" /\ frame[s].kind = d

\* r events of kind d have been taken from the queue of service s.
Taken(s, d, r) ==
    /\ Chain(inbox[s], s, d, r, sent[s][d])
    /\ Hot(s, d) => frame[s].n = r /\ r >= 1

\* A receiver that has v events behind it, or has seen none, and the events
\* in its queue q: together they reach up to event c.
Holds(q, s, d, c, v) == \E a \in Number : Chain(q, s, d, a, c) /\ v \in {0, a}

\* What a living connection has not read yet follows what it has seen and
\* reaches up to what its service's goroutine has queued, which may have one
\* more in hand for it.
WaitsForState(k, s) == Hot(s, "state") /\ (ipc[s] = "fan" => k \in todo[s])

StateFlow(k, s) ==
    \E r \in Number :
        /\ Taken(s, "state", r)
        /\ sink[k] \in {"new", "open"} =>
             Holds(out[k], s, "state", IF WaitsForState(k, s) THEN r - 1 ELSE r, seen[k][s]["state"])

WaitsForData(k) ==
    Hot(Bound[k], "data") /\ (ipc[Bound[k]] = "match" \/ (ipc[Bound[k]] = "stream" /\ k \in todo[Bound[k]]))

DataFlow(k) ==
    \E r \in Number :
        /\ Taken(Bound[k], "data", r)
        /\ strm[k] \in {"new", "open"} =>
             Holds(squeue[k], Bound[k], "data", IF WaitsForData(k) THEN r - 1 ELSE r, sseen[k])

StatesFlow == \A k \in Sinks, s \in Sources : StateFlow(k, s)
DataFlows == \A k \in Streams : DataFlow(k)

-----------------------------------------------------------------------------
(* Types and places.                                                       *)

LEMMA QueueAppend ==
    ASSUME NEW I, NEW size \in Nat, NEW q \in Queues(size, I), Len(q) < size, NEW e \in I
    PROVE  /\ Append(q, e) \in Queues(size, I)
           /\ \A i \in 1..Len(Append(q, e)) : Append(q, e)[i] = e \/ (i \in 1..Len(q) /\ Append(q, e)[i] = q[i])
BY DEF Queues

LEMMA QueueTail ==
    ASSUME NEW I, NEW size \in Nat, NEW q \in Queues(size, I), q # <<>>
    PROVE  /\ Head(q) \in I /\ Tail(q) \in Queues(size, I)
           /\ 1 \in 1..Len(q) /\ Head(q) = q[1]
           /\ \A i \in 1..Len(Tail(q)) : i + 1 \in 1..Len(q) /\ Tail(q)[i] = q[i + 1]
BY DEF Queues

LEMMA QueueEmpty ==
    ASSUME NEW I, NEW size \in Nat
    PROVE  <<>> \in Queues(size, I)
BY DEF Queues

LEMMA InitTypes == Init => TypeInv
<1>. SUFFICES ASSUME Init PROVE TypeInv
    OBVIOUS
<1>. USE EventBusAssumption
<1>1. TypeOK
    <2>. HIDE DEF Queues
    <2>1. 0 \in Number
        BY DEF Number
    <2>2. inbox \in [Sources -> Queues(InQueue, Event)] /\ out \in [Sinks -> Queues(OutQueue, Event \cup Batch)]
          /\ squeue \in [Streams -> Queues(StreamQueue, Event)]
        BY QueueEmpty DEF Init
    <2>. QED  BY <2>1, <2>2 DEF Init, TypeOK, Nobody
<1>2. PlaceInv /\ NewInv /\ StreamInv
    BY DEF Init, PlaceInv, NewInv, StreamInv
<1>. QED  BY <1>1, <1>2 DEF TypeInv

-----------------------------------------------------------------------------
USE DEF emitting, ingesting, sinks, streams, progress, flushing

LEMMA EmitTypes ==
    ASSUME TypeInv, NEW s \in Sources, NEW d \in Kinds, Emit(s, d)
    PROVE  TypeInv'
<1>. USE EventBusAssumption
<1>. DEFINE e == [src |-> s, kind |-> d, n |-> sent[s][d] + 1]
<1>1. TypeOK /\ PlaceInv /\ NewInv /\ StreamInv
    BY DEF TypeInv
<1>2. sent[s][d] \in Number /\ sent[s][d] + 1 \in Number /\ sent \in [Sources -> [Kinds -> Number]]
    BY <1>1 DEF TypeOK, Emit, Number
<1>3. sent' \in [Sources -> [Kinds -> Number]]
    BY <1>2 DEF Emit
<1>4. e \in Event /\ e.src = s
    BY <1>2 DEF Event
<1>5. inbox \in [Sources -> Queues(InQueue, Event)]
    BY <1>1 DEF TypeOK
<1>. HIDE DEF e
<1>6. \/ inbox' = [inbox EXCEPT ![s] = Append(inbox[s], e)] /\ Len(inbox[s]) < InQueue
      \/ inbox' = inbox
    BY DEF Emit, e
<1>7. inbox' \in [Sources -> Queues(InQueue, Event)]
    <2>1. Len(inbox[s]) < InQueue => Append(inbox[s], e) \in Queues(InQueue, Event)
        BY <1>4, <1>5, QueueAppend
    <2>. QED  BY <1>5, <1>6, <2>1
<1>8. \A x \in Sources : \A i \in 1..Len(inbox'[x]) : inbox'[x][i].src = x
    <2>1. \A x \in Sources : \A i \in 1..Len(inbox[x]) : inbox[x][i].src = x
        BY <1>1 DEF PlaceInv
    <2>2. CASE inbox' = [inbox EXCEPT ![s] = Append(inbox[s], e)] /\ Len(inbox[s]) < InQueue
        <3>1. \A i \in 1..Len(Append(inbox[s], e)) : Append(inbox[s], e)[i].src = s
            BY <1>4, <1>5, <2>1, <2>2, QueueAppend
        <3>. QED  BY <2>1, <2>2, <3>1, <1>5
    <2>. QED  BY <1>6, <2>1, <2>2
<1>9. UNCHANGED <<ingesting, sinks, streams, progress, flushing>>
    BY DEF Emit
<1>10. TypeOK'
    BY <1>1, <1>3, <1>7, <1>9 DEF TypeOK
<1>11. PlaceInv'
    BY <1>1, <1>8, <1>9 DEF PlaceInv
<1>12. NewInv' /\ StreamInv'
    BY <1>1, <1>9 DEF NewInv, StreamInv
<1>. QED  BY <1>10, <1>11, <1>12 DEF TypeInv

LEMMA ReadTypes ==
    ASSUME TypeInv, NEW s \in Sources, Read(s)
    PROVE  TypeInv'
<1>. USE EventBusAssumption
<1>1. TypeOK /\ PlaceInv /\ NewInv /\ StreamInv
    BY DEF TypeInv
<1>2. inbox \in [Sources -> Queues(InQueue, Event)] /\ inbox[s] # <<>>
    BY <1>1 DEF TypeOK, Read
<1>3. /\ Head(inbox[s]) \in Event /\ Tail(inbox[s]) \in Queues(InQueue, Event)
      /\ 1 \in 1..Len(inbox[s]) /\ Head(inbox[s]) = inbox[s][1]
      /\ \A i \in 1..Len(Tail(inbox[s])) : i + 1 \in 1..Len(inbox[s]) /\ Tail(inbox[s])[i] = inbox[s][i + 1]
    <2>. HIDE DEF Queues
    <2>. QED  BY <1>2, QueueTail
<1>4. inbox' \in [Sources -> Queues(InQueue, Event)]
    BY <1>2, <1>3 DEF Read
<1>5. frame' \in [Sources -> Event \cup {NoEvent}] /\ ipc' \in [Sources -> {"read", "match", "stream", "route", "fan"}]
    BY <1>1, <1>3 DEF Read, TypeOK
<1>6. UNCHANGED <<sent, todo, at, shared, sinks, streams, progress, flushing>>
    BY DEF Read
<1>7. TypeOK'
    BY <1>1, <1>4, <1>5, <1>6 DEF TypeOK
<1>8. \A x \in Sources : \A i \in 1..Len(inbox[x]) : inbox[x][i].src = x
    BY <1>1 DEF PlaceInv
<1>9. \A x \in Sources : \A i \in 1..Len(inbox'[x]) : inbox'[x][i].src = x
    <2>1. \A i \in 1..Len(Tail(inbox[s])) : Tail(inbox[s])[i].src = s
        BY <1>3, <1>8
    <2>. QED  BY <2>1, <1>2, <1>8 DEF Read
<1>10. ipc' = [ipc EXCEPT ![s] = "match"] /\ frame' = [frame EXCEPT ![s] = Head(inbox[s])]
    BY DEF Read
<1>11. PlaceInv'
    BY <1>1, <1>3, <1>6, <1>8, <1>9, <1>10 DEF PlaceInv, TypeOK, Read
<1>12. NewInv' /\ StreamInv'
    BY <1>1, <1>6 DEF NewInv, StreamInv
<1>. QED  BY <1>7, <1>11, <1>12 DEF TypeInv

LEMMA MatchTypes ==
    ASSUME TypeInv, NEW s \in Sources, Match(s)
    PROVE  TypeInv'
<1>1. TypeOK /\ PlaceInv /\ NewInv /\ StreamInv
    BY DEF TypeInv
<1>2. UNCHANGED <<frame, at, emitting, sinks, streams, progress, flushing>>
    BY DEF Match
<1>3. /\ todo' \in [Sources -> (SUBSET Streams) \cup (SUBSET Sinks)]
      /\ shared' \in [Sources -> BOOLEAN]
      /\ ipc' \in [Sources -> {"read", "match", "stream", "route", "fan"}]
    BY <1>1 DEF Match, TypeOK
<1>4. TypeOK'
    BY <1>1, <1>2, <1>3 DEF TypeOK
<1>5. PlaceInv'
    BY <1>1, <1>2 DEF PlaceInv, TypeOK, Match
<1>6. NewInv' /\ StreamInv'
    BY <1>1, <1>2 DEF NewInv, StreamInv
<1>. QED  BY <1>4, <1>5, <1>6 DEF TypeInv

LEMMA DeliverTypes ==
    ASSUME TypeInv, NEW s \in Sources, DeliverExclusive(s)
    PROVE  TypeInv'
<1>. USE EventBusAssumption
<1>1. TypeOK /\ PlaceInv /\ NewInv /\ StreamInv
    BY DEF TypeInv
<1>2. UNCHANGED <<frame, at, sseen, emitting, sinks, progress, flushing>> /\ ipc[s] = "stream"
    BY DEF DeliverExclusive
<1>3. CASE todo[s] = {}
    <2>1. UNCHANGED <<todo, shared, strm, squeue>> /\ ipc' = [ipc EXCEPT ![s] = IF shared[s] THEN "route" ELSE "read"]
        BY <1>3 DEF DeliverExclusive
    <2>2. TypeOK'
        BY <1>1, <1>2, <2>1 DEF TypeOK
    <2>3. PlaceInv'
        BY <1>1, <1>2, <2>1 DEF PlaceInv, TypeOK
    <2>4. NewInv' /\ StreamInv'
        BY <1>1, <1>2, <2>1 DEF NewInv, StreamInv
    <2>. QED  BY <2>2, <2>3, <2>4 DEF TypeInv
<1>4. CASE todo[s] # {}
    <2>1. PICK k \in todo[s] :
            /\ todo' = [todo EXCEPT ![s] = todo[s] \ {k}]
            /\ EnqueueStream(k, frame[s])
            /\ shared' = [shared EXCEPT ![s] = shared[s] /\ Len(squeue[k]) = StreamQueue]
            /\ UNCHANGED ipc
        BY <1>4 DEF DeliverExclusive
    <2>2. /\ k \in Streams /\ frame[s] \in Event /\ frame[s].kind = "data" /\ frame[s].src = s
          /\ Bound[k] = s /\ strm[k] # "new"
        BY <1>1, <1>2 DEF PlaceInv
    <2>3. squeue \in [Streams -> Queues(StreamQueue, Event)]
        BY <1>1 DEF TypeOK
    <2>4. strm' \in [Streams -> {"new", "open", "closing", "overflowed", "gone"}]
          /\ \A j \in Streams : strm'[j] = "new" <=> strm[j] = "new"
        <3>1. strm \in [Streams -> {"new", "open", "closing", "overflowed", "gone"}]
            BY <1>1 DEF TypeOK
        <3>2. strm' = strm \/ strm' = [strm EXCEPT ![k] = IF strm[k] \in {"open", "closing"} THEN "overflowed" ELSE strm[k]]
            BY <2>1 DEF EnqueueStream
        <3>. QED  BY <2>2, <3>1, <3>2
    <2>5. /\ squeue' \in [Streams -> Queues(StreamQueue, Event)]
          /\ \A j \in Streams : \A i \in 1..Len(squeue'[j]) : Is(squeue'[j][i], Bound[j], "data")
        <3>1. \A j \in Streams : \A i \in 1..Len(squeue[j]) : Is(squeue[j][i], Bound[j], "data")
            BY <1>1 DEF StreamInv
        <3>2. CASE Len(squeue[k]) < StreamQueue
            <4>1. squeue' = [squeue EXCEPT ![k] = Append(squeue[k], frame[s])]
                BY <2>1, <3>2 DEF EnqueueStream
            <4>2. /\ Append(squeue[k], frame[s]) \in Queues(StreamQueue, Event)
                  /\ \A i \in 1..Len(Append(squeue[k], frame[s])) : Is(Append(squeue[k], frame[s])[i], Bound[k], "data")
                <5>1. Is(frame[s], Bound[k], "data")
                    BY <2>2 DEF Is
                <5>2. /\ Append(squeue[k], frame[s]) \in Queues(StreamQueue, Event)
                      /\ \A i \in 1..Len(Append(squeue[k], frame[s])) :
                           \/ Append(squeue[k], frame[s])[i] = frame[s]
                           \/ i \in 1..Len(squeue[k]) /\ Append(squeue[k], frame[s])[i] = squeue[k][i]
                    BY <2>2, <2>3, <3>2, QueueAppend
                <5>. QED  BY <3>1, <2>2, <5>1, <5>2
            <4>. QED  BY <4>1, <4>2, <3>1, <2>3
        <3>3. CASE ~(Len(squeue[k]) < StreamQueue)
            BY <2>1, <2>3, <3>1, <3>3 DEF EnqueueStream
        <3>. QED  BY <3>2, <3>3
    <2>6. TypeOK'
        <3>1. todo' \in [Sources -> (SUBSET Streams) \cup (SUBSET Sinks)] /\ shared' \in [Sources -> BOOLEAN]
            BY <1>1, <2>1 DEF TypeOK
        <3>. QED  BY <1>1, <1>2, <2>1, <2>4, <2>5, <3>1 DEF TypeOK
    <2>7. PlaceInv'
        <3>1. ASSUME NEW x \in Sources, ipc[x] = "stream"
              PROVE  /\ todo'[x] \subseteq Streams
                     /\ frame[x].kind # "data" => todo'[x] = {} /\ shared'[x]
                     /\ \A j \in todo'[x] : Bound[j] = x /\ strm'[j] # "new"
            BY <1>1, <1>2, <2>1, <2>2, <2>4, <3>1 DEF PlaceInv, TypeOK
        <3>2. \A x \in Sources : at[x] # NoSink => x # s
            BY <1>1, <1>2 DEF PlaceInv
        <3>3. \A x \in Sources : x # s => todo'[x] = todo[x]
            BY <1>1, <2>1 DEF TypeOK
        <3>. QED  BY <1>1, <1>2, <2>1, <3>1, <3>2, <3>3 DEF PlaceInv
    <2>8. NewInv'
        BY <1>1, <1>2, <2>1, <2>2, <2>4 DEF NewInv, EnqueueStream, TypeOK
    <2>9. StreamInv'
        BY <2>5 DEF StreamInv
    <2>. QED  BY <2>6, <2>7, <2>8, <2>9 DEF TypeInv
<1>. QED  BY <1>3, <1>4

LEMMA RouteTypes ==
    ASSUME TypeInv, NEW s \in Sources, Route(s)
    PROVE  TypeInv'
<1>1. TypeOK /\ PlaceInv /\ NewInv /\ StreamInv
    BY DEF TypeInv
<1>2. UNCHANGED <<frame, at, shared, emitting, sinks, streams, flushing>> /\ ipc[s] = "route"
    BY DEF Route
<1>3. CASE frame[s].kind = "progress"
    <2>1. /\ latest' = [latest EXCEPT ![s] = frame[s].n] /\ timer' = TRUE
          /\ ipc' = [ipc EXCEPT ![s] = "read"] /\ UNCHANGED todo
        BY <1>3 DEF Route
    <2>2. frame[s].n \in Number
        BY <1>1, <1>2 DEF PlaceInv, Event
    <2>3. TypeOK'
        <3>1. latest' \in [Sources -> Number] /\ ipc' \in [Sources -> {"read", "match", "stream", "route", "fan"}]
            BY <1>1, <2>1, <2>2 DEF TypeOK
        <3>. QED  BY <1>1, <1>2, <2>1, <3>1 DEF TypeOK
    <2>4. PlaceInv' /\ NewInv' /\ StreamInv'
        BY <1>1, <1>2, <2>1 DEF PlaceInv, NewInv, StreamInv, TypeOK
    <2>. QED  BY <2>3, <2>4 DEF TypeInv
<1>4. CASE frame[s].kind # "progress"
    <2>1. /\ todo' = [todo EXCEPT ![s] = {k \in Sinks : sink[k] \in {"open", "dead"}}]
          /\ ipc' = [ipc EXCEPT ![s] = "fan"] /\ UNCHANGED progress
        BY <1>4 DEF Route
    <2>2. TypeOK'
        <3>1. todo \in [Sources -> (SUBSET Streams) \cup (SUBSET Sinks)] /\ ipc \in [Sources -> {"read", "match", "stream", "route", "fan"}]
            BY <1>1 DEF TypeOK
        <3>2. todo' \in [Sources -> (SUBSET Streams) \cup (SUBSET Sinks)]
            <4>. DEFINE T == {k \in Sinks : sink[k] \in {"open", "dead"}}
            <4>1. T \in SUBSET Sinks /\ todo' = [todo EXCEPT ![s] = T]
                BY <2>1
            <4>. HIDE DEF T
            <4>. QED  BY <3>1, <4>1
        <3>3. ipc' \in [Sources -> {"read", "match", "stream", "route", "fan"}]
            BY <2>1, <3>1
        <3>. QED  BY <1>1, <1>2, <2>1, <3>2, <3>3 DEF TypeOK
    <2>3. PlaceInv' /\ NewInv' /\ StreamInv'
        BY <1>1, <1>2, <2>1 DEF PlaceInv, NewInv, StreamInv, TypeOK
    <2>. QED  BY <2>2, <2>3 DEF TypeInv
<1>. QED  BY <1>3, <1>4

LEMMA FanOutTypes ==
    ASSUME TypeInv, NEW s \in Sources, FanOutNext(s)
    PROVE  TypeInv'
<1>1. TypeOK /\ PlaceInv /\ NewInv /\ StreamInv
    BY DEF TypeInv
<1>2. UNCHANGED <<frame, todo, shared, emitting, sinks, streams, progress, flushing>> /\ ipc[s] = "fan" /\ at[s] = NoSink
    BY DEF FanOutNext
<1>3. \/ ipc' = [ipc EXCEPT ![s] = "read"] /\ UNCHANGED at
      \/ (\E k \in todo[s] : at' = [at EXCEPT ![s] = k]) /\ UNCHANGED ipc
    BY DEF FanOutNext
<1>4. todo[s] \subseteq Sinks
    BY <1>1, <1>2 DEF PlaceInv
<1>5. TypeOK'
    <2>1. at \in [Sources -> Sinks \cup {NoSink}] /\ ipc \in [Sources -> {"read", "match", "stream", "route", "fan"}]
        BY <1>1 DEF TypeOK
    <2>2. at' \in [Sources -> Sinks \cup {NoSink}]
        BY <1>3, <1>4, <2>1
    <2>3. ipc' \in [Sources -> {"read", "match", "stream", "route", "fan"}]
        BY <1>3, <2>1
    <2>. QED  BY <1>1, <1>2, <2>2, <2>3 DEF TypeOK
<1>6. PlaceInv'
    <2>1. CASE ipc' = [ipc EXCEPT ![s] = "read"] /\ UNCHANGED at
        <3>1. \A x \in Sources : ipc'[x] = IF x = s THEN "read" ELSE ipc[x]
            BY <1>1, <2>1 DEF TypeOK
        <3>. HIDE <1>4
        <3>. QED  BY <1>1, <1>2, <2>1, <3>1 DEF PlaceInv
    <2>2. CASE (\E k \in todo[s] : at' = [at EXCEPT ![s] = k]) /\ UNCHANGED ipc
        <3>1. PICK k \in todo[s] : at' = [at EXCEPT ![s] = k]
            BY <2>2
        <3>2. \A x \in Sources : at'[x] = IF x = s THEN k ELSE at[x]
            BY <1>1, <3>1 DEF TypeOK
        <3>3. \A x \in Sources : at'[x] # NoSink => ipc[x] = "fan" /\ at'[x] \in todo[x]
            BY <1>1, <1>2, <3>2 DEF PlaceInv
        <3>. QED  BY <1>1, <1>2, <2>2, <3>3 DEF PlaceInv
    <2>. QED  BY <1>3, <2>1, <2>2
<1>7. NewInv' /\ StreamInv'
    BY <1>1, <1>2 DEF NewInv, StreamInv
<1>. QED  BY <1>5, <1>6, <1>7 DEF TypeInv

LEMMA EnqueueTypes ==
    ASSUME TypeInv, NEW s \in Sources, EnqueueEvent(s)
    PROVE  TypeInv'
<1>. USE EventBusAssumption
<1>. DEFINE k == at[s]
<1>1. TypeOK /\ PlaceInv /\ NewInv /\ StreamInv
    BY DEF TypeInv
<1>2. /\ UNCHANGED <<ipc, frame, shared, sink, seen, emitting, streams, progress, flushing>>
      /\ ipc[s] = "fan" /\ at[s] # NoSink
      /\ todo' = [todo EXCEPT ![s] = todo[s] \ {k}] /\ at' = [at EXCEPT ![s] = NoSink]
    BY DEF EnqueueEvent
<1>3. k \in Sinks /\ sink[k] # "new" /\ frame[s] \in Event
    BY <1>1, <1>2 DEF PlaceInv
<1>4. \/ out' = out
      \/ out' = [out EXCEPT ![k] = Append(out[k], frame[s])] /\ Len(out[k]) < OutQueue
    BY DEF EnqueueEvent
<1>. HIDE DEF k
<1>5. out \in [Sinks -> Queues(OutQueue, Event \cup Batch)]
    BY <1>1 DEF TypeOK
<1>6. out' \in [Sinks -> Queues(OutQueue, Event \cup Batch)]
    <2>1. Len(out[k]) < OutQueue => Append(out[k], frame[s]) \in Queues(OutQueue, Event \cup Batch)
        BY <1>3, <1>5, QueueAppend
    <2>. QED  BY <1>4, <1>5, <2>1
<1>7. TypeOK'
    <2>1. todo' \in [Sources -> (SUBSET Streams) \cup (SUBSET Sinks)] /\ at' \in [Sources -> Sinks \cup {NoSink}]
        BY <1>1, <1>2 DEF TypeOK
    <2>. QED  BY <1>1, <1>2, <1>6, <2>1 DEF TypeOK
<1>8. PlaceInv'
    BY <1>1, <1>2 DEF PlaceInv, TypeOK
<1>9. NewInv' /\ StreamInv'
    <2>1. \A j \in Sinks : sink[j] = "new" => out'[j] = out[j]
        BY <1>3, <1>4, <1>5
    <2>. QED  BY <1>1, <1>2, <2>1 DEF NewInv, StreamInv
<1>. QED  BY <1>7, <1>8, <1>9 DEF TypeInv

LEMMA FlushTypes ==
    ASSUME TypeInv, NEW f \in Flushers, Flush(f) \/ FlushEnd(f)
    PROVE  TypeInv'
<1>. USE EventBusAssumption
<1>1. TypeOK /\ PlaceInv /\ NewInv /\ StreamInv
    BY DEF TypeInv
<1>2. UNCHANGED <<emitting, ingesting, sinks, streams>>
    BY DEF Flush, FlushEnd
<1>3. 0 \in Number /\ Nobody \in [Sources -> Number]
    BY DEF Number, Nobody
<1>4. /\ timer' \in BOOLEAN /\ latest' \in [Sources -> Number] /\ batch' \in [Flushers -> [Sources -> Number]]
      /\ fpc' \in [Flushers -> BOOLEAN]
    <2>1. /\ timer \in BOOLEAN /\ latest \in [Sources -> Number] /\ batch \in [Flushers -> [Sources -> Number]]
          /\ fpc \in [Flushers -> BOOLEAN]
        BY <1>1 DEF TypeOK
    <2>2. CASE Flush(f)
        BY <1>3, <2>1, <2>2 DEF Flush
    <2>3. CASE FlushEnd(f)
        BY <1>3, <2>1, <2>3 DEF FlushEnd
    <2>. QED  BY <2>2, <2>3
<1>5. ftodo' = ftodo \/ ftodo' = [ftodo EXCEPT ![f] = {k \in Sinks : sink[k] \in {"open", "dead"}}]
    BY DEF Flush, FlushEnd
<1>6. ftodo' \in [Flushers -> SUBSET Sinks]
    <2>1. ftodo \in [Flushers -> SUBSET Sinks]
        BY <1>1 DEF TypeOK
    <2>. QED  BY <1>5, <2>1
<1>7. TypeOK'
    BY <1>1, <1>2, <1>4, <1>6 DEF TypeOK
<1>8. PlaceInv' /\ StreamInv'
    BY <1>1, <1>2 DEF PlaceInv, StreamInv
<1>9. NewInv'
    <2>1. \A g \in Flushers : \A k \in ftodo'[g] : k \in ftodo[g] \/ sink[k] \in {"open", "dead"}
        <3>1. ftodo \in [Flushers -> SUBSET Sinks]
            BY <1>1 DEF TypeOK
        <3>. QED  BY <1>5, <3>1
    <2>. QED  BY <1>1, <1>2, <2>1 DEF NewInv
<1>. QED  BY <1>7, <1>8, <1>9 DEF TypeInv

LEMMA FlushToTypes ==
    ASSUME TypeInv, NEW f \in Flushers, FlushTo(f)
    PROVE  TypeInv'
<1>. USE EventBusAssumption
<1>. DEFINE e == [kind |-> "batch", values |-> batch[f]]
<1>1. TypeOK /\ PlaceInv /\ NewInv /\ StreamInv
    BY DEF TypeInv
<1>2. UNCHANGED <<fpc, batch, sink, seen, emitting, ingesting, streams, progress>>
    BY DEF FlushTo
<1>3. PICK k \in ftodo[f] :
        /\ ftodo' = [ftodo EXCEPT ![f] = ftodo[f] \ {k}]
        /\ \/ out' = out
           \/ out' = [out EXCEPT ![k] = Append(out[k], e)] /\ Len(out[k]) < OutQueue
    BY DEF FlushTo
<1>4. k \in Sinks /\ sink[k] # "new"
    BY <1>1 DEF NewInv, TypeOK
<1>5. e \in Event \cup Batch
    BY <1>1 DEF TypeOK, Batch
<1>. HIDE DEF e
<1>6. out \in [Sinks -> Queues(OutQueue, Event \cup Batch)]
    BY <1>1 DEF TypeOK
<1>7. out' \in [Sinks -> Queues(OutQueue, Event \cup Batch)]
    <2>1. Len(out[k]) < OutQueue => Append(out[k], e) \in Queues(OutQueue, Event \cup Batch)
        BY <1>4, <1>5, <1>6, QueueAppend
    <2>. QED  BY <1>3, <1>6, <2>1
<1>8. TypeOK'
    <2>1. ftodo' \in [Flushers -> SUBSET Sinks]
        BY <1>1, <1>3 DEF TypeOK
    <2>. QED  BY <1>1, <1>2, <1>7, <2>1 DEF TypeOK
<1>9. PlaceInv' /\ StreamInv'
    BY <1>1, <1>2 DEF PlaceInv, StreamInv
<1>10. NewInv'
    <2>1. \A j \in Sinks : sink[j] = "new" => out'[j] = out[j]
        BY <1>3, <1>4, <1>6
    <2>2. \A g \in Flushers : ftodo'[g] \subseteq ftodo[g]
        BY <1>1, <1>3 DEF TypeOK
    <2>. QED  BY <1>1, <1>2, <2>1, <2>2 DEF NewInv
<1>. QED  BY <1>8, <1>9, <1>10 DEF TypeInv

LEMMA SinkTypes ==
    ASSUME TypeInv, NEW k \in Sinks, Subscribe(k) \/ WriteFails(k) \/ Unsubscribe(k)
    PROVE  TypeInv'
<1>1. TypeOK /\ PlaceInv /\ NewInv /\ StreamInv
    BY DEF TypeInv
<1>2. UNCHANGED <<out, seen, emitting, ingesting, streams, progress, flushing>>
    BY DEF Subscribe, WriteFails, Unsubscribe
<1>3. /\ sink' \in [Sinks -> {"new", "open", "dead", "gone"}]
      /\ \A j \in Sinks : sink'[j] = "new" => sink[j] = "new"
    <2>1. sink \in [Sinks -> {"new", "open", "dead", "gone"}]
        BY <1>1 DEF TypeOK
    <2>2. PICK to \in {"open", "dead", "gone"} : sink' = [sink EXCEPT ![k] = to]
        BY DEF Subscribe, WriteFails, Unsubscribe
    <2>. QED  BY <2>1, <2>2
<1>4. TypeOK'
    BY <1>1, <1>2, <1>3 DEF TypeOK
<1>5. PlaceInv' /\ StreamInv'
    BY <1>1, <1>2, <1>3 DEF PlaceInv, StreamInv, TypeOK
<1>6. NewInv'
    BY <1>1, <1>2, <1>3 DEF NewInv, TypeOK
<1>. QED  BY <1>4, <1>5, <1>6 DEF TypeInv

LEMMA WriteTypes ==
    ASSUME TypeInv, NEW k \in Sinks, Write(k)
    PROVE  TypeInv'
<1>. USE EventBusAssumption
<1>. DEFINE e == Head(out[k])
            after == IF e.kind = "batch"
                     THEN [s \in Sources |-> IF e.values[s] # 0
                           THEN [seen[k][s] EXCEPT !["progress"] = e.values[s]] ELSE seen[k][s]]
                     ELSE [seen[k] EXCEPT ![e.src][e.kind] = e.n]
<1>1. TypeOK /\ PlaceInv /\ NewInv /\ StreamInv
    BY DEF TypeInv
<1>2. /\ UNCHANGED <<sink, emitting, ingesting, streams, progress, flushing>>
      /\ sink[k] = "open" /\ out[k] # <<>> /\ out' = [out EXCEPT ![k] = Tail(out[k])]
      /\ seen' = [seen EXCEPT ![k] = after]
    BY DEF Write
<1>3. out \in [Sinks -> Queues(OutQueue, Event \cup Batch)] /\ seen[k] \in [Sources -> [Kinds -> Number]]
      /\ seen \in [Sinks -> [Sources -> [Kinds -> Number]]]
    BY <1>1 DEF TypeOK
<1>4. e \in Event \cup Batch /\ Tail(out[k]) \in Queues(OutQueue, Event \cup Batch)
    <2>. HIDE DEF Queues
    <2>. QED  BY <1>2, <1>3, QueueTail
<1>. HIDE DEF e
<1>5. after \in [Sources -> [Kinds -> Number]]
    <2>1. CASE e.kind = "batch"
        <3>1. e.values \in [Sources -> Number]
            BY <1>4, <2>1 DEF Event, Batch
        <3>. QED  BY <1>3, <2>1, <3>1
    <2>2. CASE e.kind # "batch"
        <3>1. e.src \in Sources /\ e.kind \in Kinds /\ e.n \in Number
            BY <1>4, <2>2 DEF Event, Batch
        <3>. QED  BY <1>3, <2>2, <3>1
    <2>. QED  BY <2>1, <2>2
<1>. HIDE DEF after
<1>6. seen' \in [Sinks -> [Sources -> [Kinds -> Number]]]
    BY <1>2, <1>3, <1>5
<1>7. out' \in [Sinks -> Queues(OutQueue, Event \cup Batch)]
    BY <1>2, <1>3, <1>4
<1>8. TypeOK'
    BY <1>1, <1>2, <1>6, <1>7 DEF TypeOK
<1>9. PlaceInv' /\ StreamInv'
    BY <1>1, <1>2 DEF PlaceInv, StreamInv
<1>10. NewInv'
    <2>1. \A j \in Sinks : sink[j] = "new" => out'[j] = out[j] /\ seen'[j] = seen[j]
        BY <1>2, <1>3
    <2>. QED  BY <1>1, <1>2, <2>1 DEF NewInv
<1>. QED  BY <1>8, <1>9, <1>10 DEF TypeInv

LEMMA StreamTypes ==
    ASSUME TypeInv, NEW k \in Streams, OpenStream(k) \/ PeerCloses(k) \/ CloseStream(k)
    PROVE  TypeInv'
<1>1. TypeOK /\ PlaceInv /\ NewInv /\ StreamInv
    BY DEF TypeInv
<1>2. UNCHANGED <<squeue, sseen, emitting, ingesting, sinks, progress, flushing>>
    BY DEF OpenStream, PeerCloses, CloseStream
<1>3. /\ strm' \in [Streams -> {"new", "open", "closing", "overflowed", "gone"}]
      /\ \A j \in Streams : strm'[j] = "new" => strm[j] = "new"
    <2>1. strm \in [Streams -> {"new", "open", "closing", "overflowed", "gone"}]
        BY <1>1 DEF TypeOK
    <2>2. PICK to \in {"open", "closing", "gone"} : strm' = [strm EXCEPT ![k] = to]
        BY DEF OpenStream, PeerCloses, CloseStream
    <2>. QED  BY <2>1, <2>2
<1>4. TypeOK'
    BY <1>1, <1>2, <1>3 DEF TypeOK
<1>5. PlaceInv' /\ StreamInv'
    BY <1>1, <1>2, <1>3 DEF PlaceInv, StreamInv, TypeOK
<1>6. NewInv'
    BY <1>1, <1>2, <1>3 DEF NewInv, TypeOK
<1>. QED  BY <1>4, <1>5, <1>6 DEF TypeInv

LEMMA WriteStreamTypes ==
    ASSUME TypeInv, NEW k \in Streams, WriteStream(k)
    PROVE  TypeInv'
<1>. USE EventBusAssumption
<1>1. TypeOK /\ PlaceInv /\ NewInv /\ StreamInv
    BY DEF TypeInv
<1>2. /\ UNCHANGED <<strm, emitting, ingesting, sinks, progress, flushing>>
      /\ strm[k] = "open" /\ squeue[k] # <<>> /\ squeue' = [squeue EXCEPT ![k] = Tail(squeue[k])]
      /\ sseen' = [sseen EXCEPT ![k] = Head(squeue[k]).n]
    BY DEF WriteStream
<1>3. squeue \in [Streams -> Queues(StreamQueue, Event)] /\ sseen \in [Streams -> Number]
    BY <1>1 DEF TypeOK
<1>4. /\ Head(squeue[k]) \in Event /\ Tail(squeue[k]) \in Queues(StreamQueue, Event)
      /\ \A i \in 1..Len(Tail(squeue[k])) : i + 1 \in 1..Len(squeue[k]) /\ Tail(squeue[k])[i] = squeue[k][i + 1]
    <2>. HIDE DEF Queues
    <2>. QED  BY <1>2, <1>3, QueueTail
<1>5. squeue' \in [Streams -> Queues(StreamQueue, Event)] /\ sseen' \in [Streams -> Number]
    <2>1. Head(squeue[k]).n \in Number
        BY <1>4 DEF Event
    <2>. QED  BY <1>2, <1>3, <1>4, <2>1
<1>6. TypeOK'
    BY <1>1, <1>2, <1>5 DEF TypeOK
<1>7. PlaceInv'
    BY <1>1, <1>2 DEF PlaceInv
<1>8. NewInv'
    <2>1. \A j \in Streams : strm[j] = "new" => squeue'[j] = squeue[j] /\ sseen'[j] = sseen[j]
        BY <1>2, <1>3
    <2>. QED  BY <1>1, <1>2, <2>1 DEF NewInv
<1>9. StreamInv'
    <2>1. \A i \in 1..Len(Tail(squeue[k])) : Is(Tail(squeue[k])[i], Bound[k], "data")
        BY <1>1, <1>4 DEF StreamInv
    <2>. QED  BY <1>1, <1>2, <1>3, <2>1 DEF StreamInv
<1>. QED  BY <1>6, <1>7, <1>8, <1>9 DEF TypeInv

LEMMA StepTypes == TypeInv /\ [Next]_vars => TypeInv'
<1>. SUFFICES ASSUME TypeInv, [Next]_vars PROVE TypeInv'
    OBVIOUS
<1>1. CASE UNCHANGED vars
    <2>1. TypeOK'
        BY <1>1 DEF vars, TypeInv, TypeOK
    <2>2. PlaceInv' /\ NewInv' /\ StreamInv'
        BY <1>1 DEF vars, TypeInv, PlaceInv, NewInv, StreamInv
    <2>. QED  BY <2>1, <2>2 DEF TypeInv
<1>2. CASE Next
    <2>1. ASSUME NEW s \in Sources, Ingest(s) \/ \E d \in Kinds : Emit(s, d) PROVE TypeInv'
        BY <2>1, EmitTypes, ReadTypes, MatchTypes, DeliverTypes, RouteTypes, FanOutTypes, EnqueueTypes DEF Ingest
    <2>2. ASSUME NEW f \in Flushers, Flush(f) \/ FlushTo(f) \/ FlushEnd(f) PROVE TypeInv'
        BY <2>2, FlushTypes, FlushToTypes
    <2>3. ASSUME NEW k \in Sinks, Subscribe(k) \/ Write(k) \/ WriteFails(k) \/ Unsubscribe(k) PROVE TypeInv'
        BY <2>3, SinkTypes, WriteTypes
    <2>4. ASSUME NEW k \in Streams, OpenStream(k) \/ PeerCloses(k) \/ CloseStream(k) \/ WriteStream(k) PROVE TypeInv'
        BY <2>4, StreamTypes, WriteStreamTypes
    <2>. QED  BY <1>2, <2>1, <2>2, <2>3, <2>4 DEF Next
<1>. QED  BY <1>1, <1>2

LEMMA TypeInvariance == Spec => []TypeInv
BY InitTypes, StepTypes, PTL DEF Spec

\* The queues keep their bounds, and every variable its type.
THEOREM TypeCorrect == Spec => []TypeOK
<1>1. TypeInv => TypeOK
    BY DEF TypeInv
<1>. QED  BY <1>1, TypeInvariance, PTL

-----------------------------------------------------------------------------
(* Events taken from a service, and events held for a receiver.            *)

LEMMA HoldsEmpty ==
    ASSUME NEW s, NEW d, NEW c \in Number
    PROVE  Holds(<<>>, s, d, c, 0)
BY ChainEmpty DEF Holds

LEMMA HoldsHit ==
    ASSUME NEW S, NEW q \in Seq(S), NEW e, NEW s, NEW d, NEW c, c + 1 \in Number, NEW v,
           Holds(q, s, d, c, v), Is(e, s, d), e.n = c + 1
    PROVE  Holds(Append(q, e), s, d, c + 1, v)
BY ChainAppend DEF Holds

LEMMA HoldsMiss ==
    ASSUME NEW S, NEW q \in Seq(S), NEW e, NEW s, NEW d, NEW c, NEW v,
           Holds(q, s, d, c, v), ~Is(e, s, d)
    PROVE  Holds(Append(q, e), s, d, c, v)
<1>1. PICK a \in Number : Chain(q, s, d, a, c) /\ v \in {0, a}
    BY DEF Holds
<1>2. c \in Number
    BY <1>1, ChainEnds
<1>. QED  BY <1>1, <1>2, ChainAppend DEF Holds

LEMMA HoldsTail ==
    ASSUME NEW S, NEW q \in Seq(S), q # <<>>, NEW s, NEW d, NEW c, NEW v, Holds(q, s, d, c, v)
    PROVE  IF Is(Head(q), s, d)
           THEN Holds(Tail(q), s, d, c, Head(q).n) /\ (v = 0 \/ Head(q).n = v + 1)
           ELSE Holds(Tail(q), s, d, c, v)
BY ChainTail DEF Holds

LEMMA TakenKeeps ==
    ASSUME NEW s, NEW d, NEW r, Taken(s, d, r), inbox'[s] = inbox[s], sent'[s][d] = sent[s][d],
           Hot(s, d)' => Hot(s, d) /\ frame'[s] = frame[s]
    PROVE  Taken(s, d, r)'
BY DEF Taken

LEMMA TakenEmit ==
    ASSUME TypeInv, NEW x \in Sources, NEW kind \in Kinds, Emit(x, kind),
           NEW s \in Sources, NEW d \in Kinds \ {"progress"}, NEW r \in Number, Taken(s, d, r)
    PROVE  Taken(s, d, r)'
<1>. USE EventBusAssumption
<1>. DEFINE e == [src |-> x, kind |-> kind, n |-> sent[x][kind] + 1]
<1>1. inbox \in [Sources -> Queues(InQueue, Event)] /\ sent \in [Sources -> [Kinds -> Number]]
    BY DEF TypeInv, TypeOK
<1>2. UNCHANGED <<ipc, frame>> /\ sent' = [sent EXCEPT ![x] = [sent[x] EXCEPT ![kind] = sent[x][kind] + 1]]
      /\ sent[x][kind] < MaxEvents
    BY DEF Emit
<1>3. \/ inbox' = [inbox EXCEPT ![x] = Append(inbox[x], e)]
      \/ inbox' = inbox /\ kind = "progress"
    BY DEF Emit
<1>4. CASE s # x
    BY <1>1, <1>2, <1>3, <1>4, TakenKeeps DEF Hot
<1>5. CASE s = x /\ inbox' = inbox /\ kind = "progress"
    BY <1>1, <1>2, <1>5, TakenKeeps DEF Hot
<1>6. CASE s = x /\ inbox' = [inbox EXCEPT ![x] = Append(inbox[x], e)]
    <2>1. inbox[s] \in Seq(Event) /\ sent[s][d] \in Number /\ sent'[s][d] \in Number
          /\ inbox'[s] = Append(inbox[s], e)
        BY <1>1, <1>2, <1>6 DEF Queues, Number
    <2>2. Is(e, s, d) => e.n = sent'[s][d] /\ sent'[s][d] = sent[s][d] + 1
        BY <1>1, <1>2, <1>6 DEF Is
    <2>3. ~Is(e, s, d) => sent'[s][d] = sent[s][d]
        BY <1>1, <1>2, <1>6 DEF Is
    <2>. HIDE DEF e
    <2>4. Chain(Append(inbox[s], e), s, d, r, sent'[s][d])
        BY <2>1, <2>2, <2>3, ChainAppend DEF Taken
    <2>. QED  BY <1>2, <2>1, <2>4 DEF Taken, Hot
<1>. QED  BY <1>3, <1>4, <1>5, <1>6

LEMMA TakenRead ==
    ASSUME TypeInv, NEW s \in Sources, Read(s), NEW d, NEW r \in Number, Taken(s, d, r)
    PROVE  IF Hot(s, d)' THEN r + 1 \in Number /\ Taken(s, d, r + 1)' ELSE Taken(s, d, r)'
<1>. USE EventBusAssumption
<1>1. inbox \in [Sources -> Queues(InQueue, Event)] /\ ipc[s] = "read" /\ inbox[s] # <<>>
      /\ frame \in [Sources -> Event \cup {NoEvent}] /\ ipc \in [Sources -> {"read", "match", "stream", "route", "fan"}]
    BY DEF TypeInv, TypeOK, Read
<1>2. inbox[s] \in Seq(Event)
    BY <1>1 DEF Queues
<1>3. inbox'[s] = Tail(inbox[s]) /\ frame'[s] = Head(inbox[s]) /\ ipc'[s] = "match" /\ UNCHANGED sent
    BY <1>1 DEF Read
<1>4. Head(inbox[s]).src = s
    <2>1. Len(inbox[s]) \in Nat /\ 1 \in 1..Len(inbox[s]) /\ Head(inbox[s]) = inbox[s][1]
        BY <1>1, <1>2
    <2>. QED  BY <2>1 DEF TypeInv, PlaceInv
<1>5. Hot(s, d)' <=> Is(Head(inbox[s]), s, d)
    BY <1>3, <1>4 DEF Hot, Is
<1>6. IF Is(Head(inbox[s]), s, d)
      THEN /\ Head(inbox[s]).n = r + 1 /\ r + 1 \in Number
           /\ Chain(Tail(inbox[s]), s, d, r + 1, sent[s][d])
      ELSE Chain(Tail(inbox[s]), s, d, r, sent[s][d])
    BY <1>1, <1>2, ChainTail DEF Taken
<1>7. r + 1 >= 1
    BY DEF Number
<1>. QED  BY <1>3, <1>5, <1>6, <1>7 DEF Taken

-----------------------------------------------------------------------------
(* The state events of a service, up to a shell connection.                *)

LEMMA StateQuiet ==
    ASSUME NEW k, NEW s, StateFlow(k, s),
           inbox'[s] = inbox[s], sent'[s]["state"] = sent[s]["state"],
           Hot(s, "state")' => Hot(s, "state") /\ frame'[s] = frame[s],
           sink'[k] \in {"new", "open"} =>
             /\ sink[k] \in {"new", "open"} /\ out'[k] = out[k]
             /\ seen'[k][s]["state"] = seen[k][s]["state"]
             /\ WaitsForState(k, s)' <=> WaitsForState(k, s)
    PROVE  StateFlow(k, s)'
<1>1. PICK r \in Number :
        /\ Taken(s, "state", r)
        /\ sink[k] \in {"new", "open"} =>
             Holds(out[k], s, "state", IF WaitsForState(k, s) THEN r - 1 ELSE r, seen[k][s]["state"])
    BY DEF StateFlow
<1>2. Taken(s, "state", r)'
    BY <1>1, TakenKeeps
<1>3. sink'[k] \in {"new", "open"} =>
        Holds(out'[k], s, "state", IF WaitsForState(k, s)' THEN r - 1 ELSE r, seen'[k][s]["state"])
    BY <1>1
<1>. QED  BY <1>2, <1>3 DEF StateFlow, Holds

\* A connection that has not come yet holds whatever has been taken.
LEMMA StateFresh ==
    ASSUME NEW k \in Sinks, NEW s \in Sources, "state" \in Kinds, StateFlow(k, s),
           NewInv', sink'[k] \in {"new", "open"} => sink'[k] = "new",
           inbox'[s] = inbox[s], sent'[s]["state"] = sent[s]["state"],
           Hot(s, "state")' => Hot(s, "state") /\ frame'[s] = frame[s]
    PROVE  StateFlow(k, s)'
<1>1. PICK r \in Number : Taken(s, "state", r)
    BY DEF StateFlow
<1>2. Taken(s, "state", r)'
    BY <1>1, TakenKeeps
<1>. DEFINE c == IF WaitsForState(k, s)' THEN r - 1 ELSE r
<1>3. c \in Number
    BY <1>2, EventBusAssumption DEF WaitsForState, Taken, Number
<1>. HIDE DEF c
<1>4. sink'[k] = "new" => Holds(out'[k], s, "state", c, seen'[k][s]["state"])
    BY <1>3, HoldsEmpty DEF NewInv
<1>5. sink'[k] \in {"new", "open"} =>
        Holds(out'[k], s, "state", IF WaitsForState(k, s)' THEN r - 1 ELSE r, seen'[k][s]["state"])
    BY <1>4 DEF c
<1>. QED  BY <1>2, <1>5 DEF StateFlow, Holds

LEMMA StateInit ==
    ASSUME Init, "state" \in Kinds
    PROVE  StatesFlow
<1>. SUFFICES ASSUME NEW k \in Sinks, NEW s \in Sources PROVE StateFlow(k, s)
    BY DEF StatesFlow
<1>1. 0 \in Number
    BY EventBusAssumption DEF Number
<1>2. Taken(s, "state", 0)
    BY <1>1, ChainEmpty DEF Taken, Init, Hot
<1>3. Holds(out[k], s, "state", 0, seen[k][s]["state"])
    BY <1>1, HoldsEmpty DEF Init
<1>4. ~WaitsForState(k, s)
    BY DEF WaitsForState, Hot, Init
<1>. QED  BY <1>1, <1>2, <1>3, <1>4 DEF StateFlow

LEMMA StateEmit ==
    ASSUME TypeInv, "state" \in Kinds, NEW x \in Sources, NEW d \in Kinds, Emit(x, d),
           NEW k \in Sinks, NEW s \in Sources, StateFlow(k, s)
    PROVE  StateFlow(k, s)'
<1>1. PICK r \in Number :
        /\ Taken(s, "state", r)
        /\ sink[k] \in {"new", "open"} =>
             Holds(out[k], s, "state", IF WaitsForState(k, s) THEN r - 1 ELSE r, seen[k][s]["state"])
    BY DEF StateFlow
<1>2. Taken(s, "state", r)'
    BY <1>1, TakenEmit
<1>3. UNCHANGED <<ipc, frame, todo, sink, out, seen>>
    BY DEF Emit
<1>. QED  BY <1>1, <1>2, <1>3 DEF StateFlow, WaitsForState, Hot, Holds

LEMMA StateRead ==
    ASSUME TypeInv, NEW x \in Sources, Read(x),
           NEW k \in Sinks, NEW s \in Sources, StateFlow(k, s)
    PROVE  StateFlow(k, s)'
<1>1. UNCHANGED <<sent, todo, sink, out, seen>> /\ ipc[x] = "read"
      /\ ipc' = [ipc EXCEPT ![x] = "match"] /\ frame' = [frame EXCEPT ![x] = Head(inbox[x])]
      /\ inbox' = [inbox EXCEPT ![x] = Tail(inbox[x])]
    BY DEF Read
<1>2. /\ ipc \in [Sources -> {"read", "match", "stream", "route", "fan"}]
      /\ frame \in [Sources -> Event \cup {NoEvent}]
      /\ inbox \in [Sources -> Queues(InQueue, Event)]
    BY DEF TypeInv, TypeOK
<1>3. CASE s # x
    BY <1>1, <1>2, <1>3, StateQuiet DEF Hot, WaitsForState
<1>4. CASE s = x
    <2>1. PICK r \in Number :
            /\ Taken(s, "state", r)
            /\ sink[k] \in {"new", "open"} =>
                 Holds(out[k], s, "state", IF WaitsForState(k, s) THEN r - 1 ELSE r, seen[k][s]["state"])
        BY DEF StateFlow
    <2>2. ~WaitsForState(k, s)
        BY <1>1, <1>4 DEF WaitsForState, Hot
    <2>3. sink[k] \in {"new", "open"} => Holds(out[k], s, "state", r, seen[k][s]["state"])
        BY <2>1, <2>2
    <2>4. WaitsForState(k, s)' <=> Hot(s, "state")'
        BY <1>1, <1>2, <1>4 DEF WaitsForState
    <2>5. IF Hot(s, "state")' THEN r + 1 \in Number /\ Taken(s, "state", r + 1)' ELSE Taken(s, "state", r)'
        BY <1>4, <2>1, TakenRead
    <2>6. CASE Hot(s, "state")'
        <3>1. (r + 1) - 1 = r
            BY EventBusAssumption DEF Number
        <3>2. sink'[k] \in {"new", "open"} =>
                Holds(out'[k], s, "state", IF WaitsForState(k, s)' THEN (r + 1) - 1 ELSE r + 1, seen'[k][s]["state"])
            BY <1>1, <2>3, <2>4, <2>6, <3>1
        <3>. QED  BY <2>5, <2>6, <3>2 DEF StateFlow, Holds
    <2>7. CASE ~Hot(s, "state")'
        <3>1. sink'[k] \in {"new", "open"} =>
                Holds(out'[k], s, "state", IF WaitsForState(k, s)' THEN r - 1 ELSE r, seen'[k][s]["state"])
            BY <1>1, <2>3, <2>4, <2>7
        <3>. QED  BY <2>5, <2>7, <3>1 DEF StateFlow, Holds
    <2>. QED  BY <2>6, <2>7
<1>. QED  BY <1>3, <1>4

\* Going on to the next place keeps who waits for the event.
LEMMA StatePlace ==
    ASSUME TypeInv, TypeInv', "state" \in Kinds, NEW x \in Sources, Match(x) \/ DeliverExclusive(x) \/ Route(x) \/ FanOutNext(x),
           NEW k \in Sinks, NEW s \in Sources, StateFlow(k, s)
    PROVE  StateFlow(k, s)'
<1>1. UNCHANGED <<inbox, sent, frame, sink, out, seen>>
    BY DEF Match, DeliverExclusive, Route, FanOutNext
<1>2. /\ ipc \in [Sources -> {"read", "match", "stream", "route", "fan"}]
      /\ todo \in [Sources -> (SUBSET Streams) \cup (SUBSET Sinks)]
      /\ sink \in [Sinks -> {"new", "open", "dead", "gone"}]
    BY DEF TypeInv, TypeOK
<1>3. ipc[x] # "read" /\ \A y \in Sources : y # x => ipc'[y] = ipc[y] /\ todo'[y] = todo[y]
    BY <1>2 DEF Match, DeliverExclusive, Route, FanOutNext
<1>4. CASE s # x
    BY <1>1, <1>3, <1>4, StateQuiet DEF Hot, WaitsForState
<1>5. CASE s = x
    <2>1. Hot(s, "state")' => Hot(s, "state")
        BY <1>1, <1>3, <1>5 DEF Hot
    <2>2. CASE sink[k] # "open"
        BY <1>1, <2>1, <2>2, StateFresh DEF TypeInv
    <2>3. CASE sink[k] = "open"
        <3>1. CASE Hot(s, "state")
            <4>1. frame[s].kind = "state" /\ (ipc[s] = "stream" => todo[s] = {} /\ shared[s])
                BY <3>1 DEF Hot, TypeInv, PlaceInv
            <4>2. WaitsForState(k, s)' <=> WaitsForState(k, s)
                <5>1. CASE Match(x)
                    <6>1. ipc[s] = "match" /\ ipc'[s] = "stream"
                        BY <1>2, <1>5, <5>1 DEF Match
                    <6>. QED  BY <1>1, <4>1, <6>1 DEF WaitsForState, Hot
                <5>2. CASE DeliverExclusive(x)
                    <6>1. ipc[s] = "stream" /\ ipc'[s] = "route"
                        BY <1>2, <1>5, <4>1, <5>2 DEF DeliverExclusive
                    <6>. QED  BY <1>1, <4>1, <6>1 DEF WaitsForState, Hot
                <5>3. CASE Route(x)
                    <6>1. ipc[s] = "route" /\ ipc'[s] = "fan" /\ todo'[s] = {j \in Sinks : sink[j] \in {"open", "dead"}}
                        BY <1>2, <1>5, <4>1, <5>3 DEF Route
                    <6>2. k \in todo'[s]
                        BY <2>3, <6>1
                    <6>. QED  BY <1>1, <4>1, <6>1, <6>2 DEF WaitsForState, Hot
                <5>4. CASE FanOutNext(x)
                    <6>1. ipc[s] = "fan" /\ todo'[s] = todo[s] /\ (ipc'[s] = "fan" \/ (ipc'[s] = "read" /\ todo[s] = {}))
                        BY <1>2, <1>5, <5>4 DEF FanOutNext
                    <6>. QED  BY <1>1, <4>1, <6>1 DEF WaitsForState, Hot
                <5>. QED  BY <5>1, <5>2, <5>3, <5>4
            <4>. QED  BY <1>1, <2>1, <4>2, StateQuiet
        <3>2. CASE ~Hot(s, "state")
            <4>1. ~WaitsForState(k, s) /\ ~WaitsForState(k, s)'
                BY <2>1, <3>2 DEF WaitsForState
            <4>. QED  BY <1>1, <2>1, <4>1, StateQuiet
        <3>. QED  BY <3>1, <3>2
    <2>. QED  BY <2>2, <2>3
<1>. QED  BY <1>4, <1>5

LEMMA StateEnqueue ==
    ASSUME TypeInv, NEW x \in Sources, EnqueueEvent(x),
           NEW k \in Sinks, NEW s \in Sources, StateFlow(k, s)
    PROVE  StateFlow(k, s)'
<1>. DEFINE j == at[x]
<1>1. /\ UNCHANGED <<ipc, frame, inbox, sent, sink, seen>>
      /\ ipc[x] = "fan" /\ at[x] # NoSink /\ todo' = [todo EXCEPT ![x] = todo[x] \ {j}]
      /\ \/ out' = [out EXCEPT ![j] = Append(out[j], frame[x])]
         \/ sink[j] \in {"dead", "gone"} /\ out' = out
    BY DEF EnqueueEvent
<1>2. j \in Sinks /\ j \in todo[x] /\ frame[x] \in Event /\ frame[x].src = x /\ sink[j] # "new"
    BY <1>1 DEF TypeInv, PlaceInv
<1>. HIDE DEF j
<1>3. /\ todo \in [Sources -> (SUBSET Streams) \cup (SUBSET Sinks)]
      /\ out \in [Sinks -> Queues(OutQueue, Event \cup Batch)]
    BY DEF TypeInv, TypeOK
<1>4. CASE k # j
    <2>1. out'[k] = out[k] /\ (k \in todo'[s] <=> k \in todo[s])
        BY <1>1, <1>3, <1>4
    <2>. QED  BY <1>1, <2>1, StateQuiet DEF Hot, WaitsForState
<1>5. CASE k = j /\ sink[k] # "open"
    BY <1>1, <1>2, <1>5, StateQuiet DEF Hot
<1>6. CASE k = j /\ sink[k] = "open"
    <2>1. out'[k] = Append(out[k], frame[x]) /\ out[k] \in Seq(Event \cup Batch)
        BY <1>1, <1>3, <1>6 DEF Queues
    <2>2. PICK r \in Number :
            /\ Taken(s, "state", r)
            /\ Holds(out[k], s, "state", IF WaitsForState(k, s) THEN r - 1 ELSE r, seen[k][s]["state"])
        BY <1>6 DEF StateFlow
    <2>3. Taken(s, "state", r)'
        BY <1>1, <2>2, TakenKeeps DEF Hot
    <2>4. CASE Is(frame[x], s, "state")
        <3>1. s = x /\ Hot(s, "state") /\ WaitsForState(k, s) /\ frame[x].n = r /\ r >= 1
            BY <1>1, <1>2, <1>6, <2>2, <2>4 DEF Is, Hot, WaitsForState, Taken
        <3>2. ~WaitsForState(k, s)'
            BY <1>1, <1>3, <1>6, <3>1 DEF WaitsForState
        <3>3. r - 1 + 1 = r
            BY EventBusAssumption DEF Number
        <3>4. Holds(Append(out[k], frame[x]), s, "state", r, seen[k][s]["state"])
            <4>1. Holds(out[k], s, "state", r - 1, seen[k][s]["state"])
                BY <2>2, <3>1
            <4>2. Holds(Append(out[k], frame[x]), s, "state", (r - 1) + 1, seen[k][s]["state"])
                BY <2>1, <2>4, <3>1, <3>3, <4>1, HoldsHit
            <4>. QED  BY <3>3, <4>2
        <3>5. Holds(out'[k], s, "state", IF WaitsForState(k, s)' THEN r - 1 ELSE r, seen'[k][s]["state"])
            BY <1>1, <2>1, <3>2, <3>4
        <3>. QED  BY <2>3, <3>5 DEF StateFlow, Holds
    <2>5. CASE ~Is(frame[x], s, "state")
        <3>1. Holds(Append(out[k], frame[x]), s, "state", IF WaitsForState(k, s) THEN r - 1 ELSE r, seen[k][s]["state"])
            BY <2>1, <2>2, <2>5, HoldsMiss
        <3>2. WaitsForState(k, s)' <=> WaitsForState(k, s)
            BY <1>1, <1>2, <1>3, <2>5 DEF WaitsForState, Hot, Is
        <3>3. Holds(out'[k], s, "state", IF WaitsForState(k, s)' THEN r - 1 ELSE r, seen'[k][s]["state"])
            BY <1>1, <2>1, <3>1, <3>2
        <3>. QED  BY <2>3, <3>3 DEF StateFlow, Holds
    <2>. QED  BY <2>4, <2>5
<1>. QED  BY <1>4, <1>5, <1>6

LEMMA StateFlushTo ==
    ASSUME TypeInv, NEW f \in Flushers, FlushTo(f), NEW k \in Sinks, NEW s \in Sources, StateFlow(k, s)
    PROVE  StateFlow(k, s)'
<1>. DEFINE e == [kind |-> "batch", values |-> batch[f]]
<1>1. UNCHANGED <<ipc, frame, inbox, sent, todo, sink, seen>>
    BY DEF FlushTo
<1>2. out \in [Sinks -> Queues(OutQueue, Event \cup Batch)]
    BY DEF TypeInv, TypeOK
<1>3. PICK j \in ftodo[f] : out' = out \/ out' = [out EXCEPT ![j] = Append(out[j], e)]
    BY DEF FlushTo
<1>4. ~Is(e, s, "state")
    BY DEF Is
<1>. HIDE DEF e
<1>5. CASE out'[k] = out[k]
    BY <1>1, <1>5, StateQuiet DEF Hot, WaitsForState
<1>6. CASE out'[k] # out[k]
    <2>1. out'[k] = Append(out[k], e) /\ out[k] \in Seq(Event \cup Batch)
        BY <1>2, <1>3, <1>6 DEF Queues
    <2>2. PICK r \in Number :
            /\ Taken(s, "state", r)
            /\ sink[k] \in {"new", "open"} =>
                 Holds(out[k], s, "state", IF WaitsForState(k, s) THEN r - 1 ELSE r, seen[k][s]["state"])
        BY DEF StateFlow
    <2>3. Taken(s, "state", r)'
        BY <1>1, <2>2, TakenKeeps DEF Hot
    <2>4. WaitsForState(k, s)' <=> WaitsForState(k, s)
        BY <1>1 DEF WaitsForState, Hot
    <2>5. sink'[k] \in {"new", "open"} =>
            Holds(out'[k], s, "state", IF WaitsForState(k, s)' THEN r - 1 ELSE r, seen'[k][s]["state"])
        BY <1>1, <1>4, <2>1, <2>2, <2>4, HoldsMiss
    <2>. QED  BY <2>3, <2>5 DEF StateFlow, Holds
<1>. QED  BY <1>5, <1>6

\* A connection receives the event that follows the last it has seen.
LEMMA StateWrite ==
    ASSUME TypeInv, "state" \in Kinds, NEW x \in Sinks, Write(x),
           NEW k \in Sinks, NEW s \in Sources, StateFlow(k, s)
    PROVE  /\ StateFlow(k, s)'
           /\ seen'[k][s]["state"] # seen[k][s]["state"] =>
                \/ seen[k][s]["state"] = 0
                \/ seen'[k][s]["state"] = seen[k][s]["state"] + 1
<1>. DEFINE e == Head(out[x])
            after == IF e.kind = "batch"
                     THEN [y \in Sources |-> IF e.values[y] # 0
                           THEN [seen[x][y] EXCEPT !["progress"] = e.values[y]] ELSE seen[x][y]]
                     ELSE [seen[x] EXCEPT ![e.src] = [seen[x][e.src] EXCEPT ![e.kind] = e.n]]
<1>1. /\ UNCHANGED <<ipc, frame, inbox, sent, todo, sink>>
      /\ sink[x] = "open" /\ out[x] # <<>> /\ out' = [out EXCEPT ![x] = Tail(out[x])]
      /\ seen' = [seen EXCEPT ![x] = after]
    BY DEF Write
<1>2. /\ out \in [Sinks -> Queues(OutQueue, Event \cup Batch)]
      /\ seen \in [Sinks -> [Sources -> [Kinds -> Number]]]
    BY DEF TypeInv, TypeOK
<1>3. out[x] \in Seq(Event \cup Batch) /\ e \in Event \cup Batch
    BY <1>1, <1>2 DEF Queues
<1>4. after[s]["state"] = IF Is(e, s, "state") THEN e.n ELSE seen[x][s]["state"]
    <2>. HIDE DEF e
    <2>1. CASE e.kind = "batch"
        BY <1>2, <2>1 DEF Is
    <2>2. CASE e.kind # "batch"
        <3>1. e.src \in Sources /\ e.kind \in Kinds
            BY <1>3, <2>2 DEF Event, Batch
        <3>. QED  BY <1>2, <2>2, <3>1 DEF Is
    <2>. QED  BY <2>1, <2>2
<1>. HIDE DEF after
<1>5. CASE k # x
    <2>1. out'[k] = out[k] /\ seen'[k] = seen[k]
        BY <1>1, <1>2, <1>5
    <2>. QED  BY <1>1, <2>1, StateQuiet DEF Hot, WaitsForState
<1>6. CASE k = x
    <2>1. out'[k] = Tail(out[k]) /\ seen'[k][s]["state"] = IF Is(Head(out[k]), s, "state") THEN Head(out[k]).n ELSE seen[k][s]["state"]
        BY <1>1, <1>2, <1>4, <1>6
    <2>2. PICK r \in Number :
            /\ Taken(s, "state", r)
            /\ Holds(out[k], s, "state", IF WaitsForState(k, s) THEN r - 1 ELSE r, seen[k][s]["state"])
        BY <1>1, <1>6 DEF StateFlow
    <2>3. Taken(s, "state", r)'
        BY <1>1, <2>2, TakenKeeps DEF Hot
    <2>4. WaitsForState(k, s)' <=> WaitsForState(k, s)
        BY <1>1 DEF WaitsForState, Hot
    <2>. DEFINE c == IF WaitsForState(k, s) THEN r - 1 ELSE r
    <2>5. Holds(out[k], s, "state", c, seen[k][s]["state"])
        BY <2>2
    <2>6. c = IF WaitsForState(k, s)' THEN r - 1 ELSE r
        BY <2>4
    <2>. HIDE DEF c, e
    <2>7. IF Is(Head(out[k]), s, "state")
          THEN /\ Holds(Tail(out[k]), s, "state", c, Head(out[k]).n)
               /\ seen[k][s]["state"] = 0 \/ Head(out[k]).n = seen[k][s]["state"] + 1
          ELSE Holds(Tail(out[k]), s, "state", c, seen[k][s]["state"])
        BY <1>1, <1>3, <1>6, <2>5, HoldsTail
    <2>8. Holds(out'[k], s, "state", c, seen'[k][s]["state"])
        BY <2>1, <2>7
    <2>9. StateFlow(k, s)'
        <3>1. Holds(out'[k], s, "state", IF WaitsForState(k, s)' THEN r - 1 ELSE r, seen'[k][s]["state"])
            BY <2>6, <2>8
        <3>. QED  BY <2>3, <3>1 DEF StateFlow, Holds
    <2>. QED  BY <2>1, <2>7, <2>9
<1>. QED  BY <1>5, <1>6

LEMMA StateOther ==
    ASSUME TypeInv, NEW k \in Sinks, NEW s \in Sources, StateFlow(k, s),
           \/ \E f \in Flushers : Flush(f) \/ FlushEnd(f)
           \/ \E x \in Sinks : Subscribe(x) \/ WriteFails(x) \/ Unsubscribe(x)
           \/ \E x \in Streams : OpenStream(x) \/ PeerCloses(x) \/ CloseStream(x) \/ WriteStream(x)
           \/ UNCHANGED vars
    PROVE  StateFlow(k, s)'
<1>1. UNCHANGED <<ipc, frame, inbox, sent, todo, out, seen>>
    BY DEF Flush, FlushEnd, Subscribe, WriteFails, Unsubscribe, OpenStream, PeerCloses, CloseStream, WriteStream, vars
<1>2. sink'[k] \in {"new", "open"} => sink[k] \in {"new", "open"}
    <2>1. sink \in [Sinks -> {"new", "open", "dead", "gone"}]
        BY DEF TypeInv, TypeOK
    <2>2. CASE \E x \in Sinks : Subscribe(x) \/ WriteFails(x) \/ Unsubscribe(x)
        <3>1. PICK x \in Sinks : \/ sink[x] = "new" /\ sink' = [sink EXCEPT ![x] = "open"]
                                 \/ sink' = [sink EXCEPT ![x] = "dead"]
                                 \/ sink' = [sink EXCEPT ![x] = "gone"]
            BY <2>2 DEF Subscribe, WriteFails, Unsubscribe
        <3>. QED  BY <2>1, <3>1
    <2>3. CASE sink' = sink
        BY <2>3
    <2>4. sink' = sink \/ \E x \in Sinks : Subscribe(x) \/ WriteFails(x) \/ Unsubscribe(x)
        BY DEF Flush, FlushEnd, OpenStream, PeerCloses, CloseStream, WriteStream, vars
    <2>. QED  BY <2>2, <2>3, <2>4
<1>. QED  BY <1>1, <1>2, StateQuiet DEF Hot, WaitsForState

\* Only Write shows an event to a connection.
LEMMA SeenByWrite ==
    ASSUME [Next]_vars
    PROVE  seen' = seen \/ \E x \in Sinks : Write(x)
BY DEF Next, Ingest, Emit, Read, Match, DeliverExclusive, Route, FanOutNext, EnqueueEvent, Flush, FlushTo, FlushEnd,
       Subscribe, WriteFails, Unsubscribe, OpenStream, PeerCloses, CloseStream, WriteStream, vars

LEMMA StateStep ==
    ASSUME TypeInv, TypeInv', "state" \in Kinds, StatesFlow, [Next]_vars
    PROVE  StatesFlow'
<1>. SUFFICES ASSUME NEW k \in Sinks, NEW s \in Sources PROVE StateFlow(k, s)'
    BY DEF StatesFlow
<1>1. StateFlow(k, s)
    BY DEF StatesFlow
<1>2. ASSUME NEW x \in Sources, Ingest(x) \/ \E d \in Kinds : Emit(x, d) PROVE StateFlow(k, s)'
    BY <1>1, <1>2, StateEmit, StateRead, StatePlace, StateEnqueue DEF Ingest
<1>3. ASSUME NEW f \in Flushers, FlushTo(f) PROVE StateFlow(k, s)'
    BY <1>1, <1>3, StateFlushTo
<1>4. ASSUME NEW x \in Sinks, Write(x) PROVE StateFlow(k, s)'
    BY <1>1, <1>4, StateWrite
<1>5. ASSUME \/ \E f \in Flushers : Flush(f) \/ FlushEnd(f)
             \/ \E x \in Sinks : Subscribe(x) \/ WriteFails(x) \/ Unsubscribe(x)
             \/ \E x \in Streams : OpenStream(x) \/ PeerCloses(x) \/ CloseStream(x) \/ WriteStream(x)
             \/ UNCHANGED vars
      PROVE  StateFlow(k, s)'
    BY <1>1, <1>5, StateOther
<1>. QED  BY <1>2, <1>3, <1>4, <1>5 DEF Next

\* A shell connection sees the state events of a service in order and
\* without a gap, however slow it is: its queue continues what it has seen.
THEOREM StatesInOrder == ASSUME "state" \in Kinds PROVE Spec => StatesWithoutGap
<1>. DEFINE NoGap == \A k \in Sinks, s \in Sources :
                       seen'[k][s]["state"] # seen[k][s]["state"] =>
                         \/ seen[k][s]["state"] = 0
                         \/ seen'[k][s]["state"] = seen[k][s]["state"] + 1
<1>1. Init => StatesFlow
    BY StateInit
<1>2. TypeInv /\ TypeInv' /\ StatesFlow /\ [Next]_vars => StatesFlow'
    BY StateStep
<1>3. TypeInv /\ StatesFlow /\ [Next]_vars => NoGap
    <2>. SUFFICES ASSUME TypeInv, StatesFlow, [Next]_vars, NEW k \in Sinks, NEW s \in Sources,
                         seen'[k][s]["state"] # seen[k][s]["state"]
                  PROVE  \/ seen[k][s]["state"] = 0
                         \/ seen'[k][s]["state"] = seen[k][s]["state"] + 1
        OBVIOUS
    <2>1. PICK x \in Sinks : Write(x)
        BY SeenByWrite
    <2>2. StateFlow(k, s)
        BY DEF StatesFlow
    <2>. QED  BY <2>1, <2>2, StateWrite
<1>. QED  BY <1>1, <1>2, <1>3, TypeInvariance, PTL DEF Spec, StatesWithoutGap

-----------------------------------------------------------------------------
(* The data events of a terminal, up to its stream.                        *)

LEMMA DataQuiet ==
    ASSUME NEW k, DataFlow(k),
           inbox'[Bound[k]] = inbox[Bound[k]], sent'[Bound[k]]["data"] = sent[Bound[k]]["data"],
           Hot(Bound[k], "data")' => Hot(Bound[k], "data") /\ frame'[Bound[k]] = frame[Bound[k]],
           strm'[k] \in {"new", "open"} =>
             /\ strm[k] \in {"new", "open"} /\ squeue'[k] = squeue[k] /\ sseen'[k] = sseen[k]
             /\ WaitsForData(k)' <=> WaitsForData(k)
    PROVE  DataFlow(k)'
<1>1. PICK r \in Number :
        /\ Taken(Bound[k], "data", r)
        /\ strm[k] \in {"new", "open"} =>
             Holds(squeue[k], Bound[k], "data", IF WaitsForData(k) THEN r - 1 ELSE r, sseen[k])
    BY DEF DataFlow
<1>2. Taken(Bound[k], "data", r)'
    BY <1>1, TakenKeeps
<1>3. strm'[k] \in {"new", "open"} =>
        Holds(squeue'[k], Bound[k], "data", IF WaitsForData(k)' THEN r - 1 ELSE r, sseen'[k])
    BY <1>1
<1>. QED  BY <1>2, <1>3 DEF DataFlow, Holds

\* A stream that is not open yet holds whatever has been taken.
LEMMA DataFresh ==
    ASSUME NEW k \in Streams, "data" \in Kinds, DataFlow(k),
           NewInv', strm'[k] \in {"new", "open"} => strm'[k] = "new",
           inbox'[Bound[k]] = inbox[Bound[k]], sent'[Bound[k]]["data"] = sent[Bound[k]]["data"],
           Hot(Bound[k], "data")' => Hot(Bound[k], "data") /\ frame'[Bound[k]] = frame[Bound[k]]
    PROVE  DataFlow(k)'
<1>1. PICK r \in Number : Taken(Bound[k], "data", r)
    BY DEF DataFlow
<1>2. Taken(Bound[k], "data", r)'
    BY <1>1, TakenKeeps
<1>. DEFINE c == IF WaitsForData(k)' THEN r - 1 ELSE r
<1>3. c \in Number
    BY <1>2, EventBusAssumption DEF WaitsForData, Taken, Number
<1>. HIDE DEF c
<1>4. strm'[k] = "new" => Holds(squeue'[k], Bound[k], "data", c, sseen'[k])
    BY <1>3, HoldsEmpty DEF NewInv
<1>5. strm'[k] \in {"new", "open"} =>
        Holds(squeue'[k], Bound[k], "data", IF WaitsForData(k)' THEN r - 1 ELSE r, sseen'[k])
    BY <1>4 DEF c
<1>. QED  BY <1>2, <1>5 DEF DataFlow, Holds

LEMMA DataInit ==
    ASSUME Init, "data" \in Kinds
    PROVE  DataFlows
<1>. SUFFICES ASSUME NEW k \in Streams PROVE DataFlow(k)
    BY DEF DataFlows
<1>1. 0 \in Number /\ Bound[k] \in Sources
    BY EventBusAssumption DEF Number
<1>2. Taken(Bound[k], "data", 0)
    BY <1>1, ChainEmpty DEF Taken, Init, Hot
<1>3. Holds(squeue[k], Bound[k], "data", 0, sseen[k])
    BY <1>1, HoldsEmpty DEF Init
<1>4. ~WaitsForData(k)
    BY <1>1 DEF WaitsForData, Hot, Init
<1>. QED  BY <1>1, <1>2, <1>3, <1>4 DEF DataFlow

LEMMA DataEmit ==
    ASSUME TypeInv, "data" \in Kinds, NEW x \in Sources, NEW d \in Kinds, Emit(x, d),
           NEW k \in Streams, DataFlow(k)
    PROVE  DataFlow(k)'
<1>1. PICK r \in Number :
        /\ Taken(Bound[k], "data", r)
        /\ strm[k] \in {"new", "open"} =>
             Holds(squeue[k], Bound[k], "data", IF WaitsForData(k) THEN r - 1 ELSE r, sseen[k])
    BY DEF DataFlow
<1>2. Taken(Bound[k], "data", r)'
    BY <1>1, TakenEmit, EventBusAssumption
<1>3. UNCHANGED <<ipc, frame, todo, strm, squeue, sseen>>
    BY DEF Emit
<1>. QED  BY <1>1, <1>2, <1>3 DEF DataFlow, WaitsForData, Hot, Holds

LEMMA DataRead ==
    ASSUME TypeInv, NEW x \in Sources, Read(x), NEW k \in Streams, DataFlow(k)
    PROVE  DataFlow(k)'
<1>1. UNCHANGED <<sent, todo, strm, squeue, sseen>> /\ ipc[x] = "read"
      /\ ipc' = [ipc EXCEPT ![x] = "match"] /\ frame' = [frame EXCEPT ![x] = Head(inbox[x])]
      /\ inbox' = [inbox EXCEPT ![x] = Tail(inbox[x])]
    BY DEF Read
<1>2. /\ ipc \in [Sources -> {"read", "match", "stream", "route", "fan"}]
      /\ frame \in [Sources -> Event \cup {NoEvent}]
      /\ inbox \in [Sources -> Queues(InQueue, Event)] /\ Bound[k] \in Sources
    BY EventBusAssumption DEF TypeInv, TypeOK
<1>3. CASE Bound[k] # x
    BY <1>1, <1>2, <1>3, DataQuiet DEF Hot, WaitsForData
<1>4. CASE Bound[k] = x
    <2>1. PICK r \in Number :
            /\ Taken(x, "data", r)
            /\ strm[k] \in {"new", "open"} =>
                 Holds(squeue[k], x, "data", IF WaitsForData(k) THEN r - 1 ELSE r, sseen[k])
        BY <1>4 DEF DataFlow
    <2>2. ~WaitsForData(k)
        BY <1>1, <1>4 DEF WaitsForData, Hot
    <2>3. strm[k] \in {"new", "open"} => Holds(squeue[k], x, "data", r, sseen[k])
        BY <2>1, <2>2
    <2>4. WaitsForData(k)' <=> Hot(x, "data")'
        BY <1>1, <1>2, <1>4 DEF WaitsForData
    <2>5. IF Hot(x, "data")' THEN r + 1 \in Number /\ Taken(x, "data", r + 1)' ELSE Taken(x, "data", r)'
        BY <2>1, TakenRead
    <2>6. CASE Hot(x, "data")'
        <3>1. (r + 1) - 1 = r
            BY EventBusAssumption DEF Number
        <3>2. strm'[k] \in {"new", "open"} =>
                Holds(squeue'[k], x, "data", IF WaitsForData(k)' THEN (r + 1) - 1 ELSE r + 1, sseen'[k])
            BY <1>1, <2>3, <2>4, <2>6, <3>1
        <3>. QED  BY <1>4, <2>5, <2>6, <3>2 DEF DataFlow, Holds
    <2>7. CASE ~Hot(x, "data")'
        <3>1. strm'[k] \in {"new", "open"} =>
                Holds(squeue'[k], x, "data", IF WaitsForData(k)' THEN r - 1 ELSE r, sseen'[k])
            BY <1>1, <2>3, <2>4, <2>7
        <3>. QED  BY <1>4, <2>5, <2>7, <3>1 DEF DataFlow, Holds
    <2>. QED  BY <2>6, <2>7
<1>. QED  BY <1>3, <1>4

\* The goroutine of the terminal's service hands the event to its streams.
LEMMA DataMatch ==
    ASSUME TypeInv, TypeInv', "data" \in Kinds, NEW x \in Sources, Match(x), NEW k \in Streams, DataFlow(k)
    PROVE  DataFlow(k)'
<1>1. UNCHANGED <<inbox, sent, frame, strm, squeue, sseen>> /\ ipc[x] = "match"
      /\ ipc' = [ipc EXCEPT ![x] = "stream"]
      /\ todo' = [todo EXCEPT ![x] = {j \in Streams : /\ frame[x].kind = "data" /\ Bound[j] = x
                                                      /\ strm[j] \in {"open", "closing"}}]
    BY DEF Match
<1>2. /\ ipc \in [Sources -> {"read", "match", "stream", "route", "fan"}]
      /\ todo \in [Sources -> (SUBSET Streams) \cup (SUBSET Sinks)]
      /\ strm \in [Streams -> {"new", "open", "closing", "overflowed", "gone"}] /\ Bound[k] \in Sources
    BY EventBusAssumption, ZenonT(60) DEF TypeInv, TypeOK
<1>3. CASE Bound[k] # x
    <2>1. ipc'[Bound[k]] = ipc[Bound[k]] /\ todo'[Bound[k]] = todo[Bound[k]]
        BY <1>1, <1>2, <1>3
    <2>. QED  BY <1>1, <2>1, DataQuiet DEF Hot, WaitsForData
<1>4. CASE Bound[k] = x
    <2>1. Hot(Bound[k], "data")' <=> Hot(Bound[k], "data")
        BY <1>1, <1>2, <1>4 DEF Hot
    <2>2. CASE strm[k] # "open"
        BY <1>1, <2>1, <2>2, DataFresh DEF TypeInv
    <2>3. CASE strm[k] = "open"
        <3>1. ipc'[x] = "stream" /\ (k \in todo'[x] <=> frame[x].kind = "data")
            BY <1>1, <1>2, <1>4, <2>3
        <3>2. WaitsForData(k)' <=> WaitsForData(k)
            BY <1>1, <1>4, <2>1, <3>1 DEF WaitsForData, Hot
        <3>. QED  BY <1>1, <2>1, <3>2, DataQuiet
    <2>. QED  BY <2>2, <2>3
<1>. QED  BY <1>3, <1>4

LEMMA DataDeliver ==
    ASSUME TypeInv, NEW x \in Sources, DeliverExclusive(x), NEW k \in Streams, DataFlow(k)
    PROVE  DataFlow(k)'
<1>1. UNCHANGED <<inbox, sent, frame, sseen>> /\ ipc[x] = "stream"
    BY DEF DeliverExclusive
<1>2. /\ ipc \in [Sources -> {"read", "match", "stream", "route", "fan"}]
      /\ todo \in [Sources -> (SUBSET Streams) \cup (SUBSET Sinks)]
      /\ strm \in [Streams -> {"new", "open", "closing", "overflowed", "gone"}]
      /\ squeue \in [Streams -> Queues(StreamQueue, Event)] /\ Bound[k] \in Sources
    BY EventBusAssumption DEF TypeInv, TypeOK
<1>3. CASE todo[x] = {}
    <2>1. UNCHANGED <<todo, strm, squeue>> /\ \A y \in Sources : IF y = x THEN ipc'[y] \in {"route", "read"} ELSE ipc'[y] = ipc[y]
        BY <1>2, <1>3 DEF DeliverExclusive
    <2>2. WaitsForData(k)' <=> WaitsForData(k)
        BY <1>1, <1>2, <1>3, <2>1 DEF WaitsForData, Hot
    <2>. QED  BY <1>1, <1>2, <2>1, <2>2, DataQuiet DEF Hot
<1>4. CASE todo[x] # {}
    <2>1. PICK j \in todo[x] : /\ todo' = [todo EXCEPT ![x] = todo[x] \ {j}]
                               /\ EnqueueStream(j, frame[x]) /\ UNCHANGED ipc
        BY <1>4 DEF DeliverExclusive
    <2>2. /\ j \in Streams /\ frame[x] \in Event /\ frame[x].kind = "data" /\ frame[x].src = x
          /\ Bound[j] = x /\ strm[j] # "new"
        BY <1>1 DEF TypeInv, PlaceInv
    <2>3. CASE j # k
        <3>1. strm'[k] = strm[k] /\ squeue'[k] = squeue[k]
            BY <1>2, <2>1, <2>2, <2>3 DEF EnqueueStream
        <3>2. k \in todo'[Bound[k]] <=> k \in todo[Bound[k]]
            BY <1>2, <2>1, <2>3
        <3>. QED  BY <1>1, <2>1, <3>1, <3>2, DataQuiet DEF Hot, WaitsForData
    <2>4. CASE j = k
        <3>1. ~WaitsForData(k)'
            BY <1>1, <1>2, <2>1, <2>2, <2>4 DEF WaitsForData
        <3>2. WaitsForData(k) /\ Hot(x, "data")
            BY <1>1, <2>2, <2>4 DEF WaitsForData, Hot
        <3>3. CASE strm'[k] \notin {"new", "open"}
            BY <1>1, <2>1, <3>3, DataQuiet DEF Hot
        <3>4. CASE strm'[k] \in {"new", "open"}
            <4>1. strm[k] = "open" /\ squeue'[k] = Append(squeue[k], frame[x]) /\ squeue[k] \in Seq(Event)
                BY <1>2, <2>1, <2>2, <2>4, <3>4 DEF EnqueueStream, Queues
            <4>2. PICK r \in Number :
                    /\ Taken(x, "data", r)
                    /\ Holds(squeue[k], x, "data", r - 1, sseen[k])
                BY <2>2, <2>4, <3>2, <4>1 DEF DataFlow
            <4>3. Taken(x, "data", r)'
                BY <1>1, <2>1, <4>2, TakenKeeps DEF Hot
            <4>4. (r - 1) + 1 = r /\ Is(frame[x], x, "data") /\ frame[x].n = r
                BY <2>2, <3>2, <4>2, EventBusAssumption DEF Number, Is, Taken
            <4>5. Holds(Append(squeue[k], frame[x]), x, "data", (r - 1) + 1, sseen[k])
                BY <4>1, <4>2, <4>4, HoldsHit
            <4>6. Holds(squeue'[k], Bound[k], "data", IF WaitsForData(k)' THEN r - 1 ELSE r, sseen'[k])
                BY <1>1, <2>2, <2>4, <3>1, <4>1, <4>4, <4>5
            <4>. QED  BY <2>2, <2>4, <4>3, <4>6 DEF DataFlow, Holds
        <3>. QED  BY <3>3, <3>4
    <2>. QED  BY <2>3, <2>4
<1>. QED  BY <1>3, <1>4

LEMMA DataPlace ==
    ASSUME TypeInv, NEW x \in Sources, Route(x) \/ FanOutNext(x) \/ EnqueueEvent(x), NEW k \in Streams, DataFlow(k)
    PROVE  DataFlow(k)'
<1>1. UNCHANGED <<inbox, sent, frame, strm, squeue, sseen>> /\ ipc[x] \in {"route", "fan"}
    BY DEF Route, FanOutNext, EnqueueEvent
<1>2. /\ ipc \in [Sources -> {"read", "match", "stream", "route", "fan"}]
      /\ todo \in [Sources -> (SUBSET Streams) \cup (SUBSET Sinks)] /\ Bound[k] \in Sources
    BY EventBusAssumption DEF TypeInv, TypeOK
<1>3. /\ ipc'[x] \in {"read", "route", "fan"}
      /\ \A y \in Sources : y # x => ipc'[y] = ipc[y] /\ todo'[y] = todo[y]
    BY <1>2 DEF Route, FanOutNext, EnqueueEvent
<1>4. WaitsForData(k)' <=> WaitsForData(k)
    BY <1>1, <1>2, <1>3 DEF WaitsForData, Hot
<1>5. Hot(Bound[k], "data")' => Hot(Bound[k], "data")
    BY <1>1, <1>2, <1>3 DEF Hot
<1>. QED  BY <1>1, <1>4, <1>5, DataQuiet

\* A stream receives the event that follows the last it has received.
LEMMA DataWrite ==
    ASSUME TypeInv, NEW x \in Streams, WriteStream(x), NEW k \in Streams, DataFlow(k)
    PROVE  /\ DataFlow(k)'
           /\ sseen'[k] # sseen[k] => sseen[k] = 0 \/ sseen'[k] = sseen[k] + 1
<1>1. /\ UNCHANGED <<ipc, frame, inbox, sent, todo, strm>>
      /\ strm[x] = "open" /\ squeue[x] # <<>> /\ squeue' = [squeue EXCEPT ![x] = Tail(squeue[x])]
      /\ sseen' = [sseen EXCEPT ![x] = Head(squeue[x]).n]
    BY DEF WriteStream
<1>2. /\ squeue \in [Streams -> Queues(StreamQueue, Event)] /\ sseen \in [Streams -> Number]
    BY DEF TypeInv, TypeOK
<1>3. CASE k # x
    <2>1. squeue'[k] = squeue[k] /\ sseen'[k] = sseen[k]
        BY <1>1, <1>2, <1>3
    <2>. QED  BY <1>1, <2>1, DataQuiet DEF Hot, WaitsForData
<1>4. CASE k = x
    <2>1. squeue'[k] = Tail(squeue[k]) /\ sseen'[k] = Head(squeue[k]).n /\ squeue[k] \in Seq(Event) /\ squeue[k] # <<>>
        BY <1>1, <1>2, <1>4 DEF Queues
    <2>2. Is(Head(squeue[k]), Bound[k], "data")
        <3>1. Len(squeue[k]) \in Nat /\ 1 \in 1..Len(squeue[k]) /\ Head(squeue[k]) = squeue[k][1]
            BY <2>1
        <3>. QED  BY <3>1 DEF TypeInv, StreamInv
    <2>3. PICK r \in Number :
            /\ Taken(Bound[k], "data", r)
            /\ Holds(squeue[k], Bound[k], "data", IF WaitsForData(k) THEN r - 1 ELSE r, sseen[k])
        BY <1>1, <1>4 DEF DataFlow
    <2>4. Taken(Bound[k], "data", r)'
        BY <1>1, <2>3, TakenKeeps DEF Hot
    <2>5. WaitsForData(k)' <=> WaitsForData(k)
        BY <1>1 DEF WaitsForData, Hot
    <2>. DEFINE c == IF WaitsForData(k) THEN r - 1 ELSE r
    <2>6. Holds(squeue[k], Bound[k], "data", c, sseen[k])
        BY <2>3
    <2>7. c = IF WaitsForData(k)' THEN r - 1 ELSE r
        BY <2>5
    <2>. HIDE DEF c
    <2>8. /\ Holds(Tail(squeue[k]), Bound[k], "data", c, Head(squeue[k]).n)
          /\ sseen[k] = 0 \/ Head(squeue[k]).n = sseen[k] + 1
        BY <2>1, <2>2, <2>6, HoldsTail
    <2>9. Holds(squeue'[k], Bound[k], "data", IF WaitsForData(k)' THEN r - 1 ELSE r, sseen'[k])
        BY <2>1, <2>7, <2>8
    <2>10. DataFlow(k)'
        BY <2>4, <2>9 DEF DataFlow, Holds
    <2>. QED  BY <2>1, <2>8, <2>10
<1>. QED  BY <1>3, <1>4

LEMMA DataOther ==
    ASSUME TypeInv, NEW k \in Streams, DataFlow(k),
           \/ \E f \in Flushers : Flush(f) \/ FlushTo(f) \/ FlushEnd(f)
           \/ \E x \in Sinks : Subscribe(x) \/ Write(x) \/ WriteFails(x) \/ Unsubscribe(x)
           \/ \E x \in Streams : OpenStream(x) \/ PeerCloses(x) \/ CloseStream(x)
           \/ UNCHANGED vars
    PROVE  DataFlow(k)'
<1>1. UNCHANGED <<ipc, frame, inbox, sent, todo, squeue, sseen>>
    BY DEF Flush, FlushTo, FlushEnd, Subscribe, Write, WriteFails, Unsubscribe, OpenStream, PeerCloses, CloseStream, vars
<1>2. strm'[k] \in {"new", "open"} => strm[k] \in {"new", "open"}
    <2>1. strm \in [Streams -> {"new", "open", "closing", "overflowed", "gone"}]
        BY DEF TypeInv, TypeOK
    <2>2. CASE \E x \in Streams : OpenStream(x) \/ PeerCloses(x) \/ CloseStream(x)
        <3>1. PICK x \in Streams : \/ strm[x] = "new" /\ strm' = [strm EXCEPT ![x] = "open"]
                                   \/ strm' = [strm EXCEPT ![x] = "closing"]
                                   \/ strm' = [strm EXCEPT ![x] = "gone"]
            BY <2>2 DEF OpenStream, PeerCloses, CloseStream
        <3>. QED  BY <2>1, <3>1
    <2>3. strm' = strm \/ \E x \in Streams : OpenStream(x) \/ PeerCloses(x) \/ CloseStream(x)
        BY DEF Flush, FlushTo, FlushEnd, Subscribe, Write, WriteFails, Unsubscribe, vars
    <2>. QED  BY <2>2, <2>3
<1>. QED  BY <1>1, <1>2, DataQuiet, SMTT(40) DEF Hot, WaitsForData

\* Only WriteStream hands an event to a stream.
LEMMA ReceivedByWrite ==
    ASSUME [Next]_vars
    PROVE  sseen' = sseen \/ \E x \in Streams : WriteStream(x)
BY DEF Next, Ingest, Emit, Read, Match, DeliverExclusive, Route, FanOutNext, EnqueueEvent, Flush, FlushTo, FlushEnd,
       Subscribe, Write, WriteFails, Unsubscribe, OpenStream, PeerCloses, CloseStream, vars

LEMMA DataStep ==
    ASSUME TypeInv, TypeInv', "data" \in Kinds, DataFlows, [Next]_vars
    PROVE  DataFlows'
<1>. SUFFICES ASSUME NEW k \in Streams PROVE DataFlow(k)'
    BY DEF DataFlows
<1>1. DataFlow(k)
    BY DEF DataFlows
<1>2. ASSUME NEW x \in Sources, Ingest(x) \/ \E d \in Kinds : Emit(x, d) PROVE DataFlow(k)'
    BY <1>1, <1>2, DataEmit, DataRead, DataMatch, DataDeliver, DataPlace DEF Ingest
<1>3. ASSUME NEW x \in Streams, WriteStream(x) PROVE DataFlow(k)'
    BY <1>1, <1>3, DataWrite
<1>4. ASSUME \/ \E f \in Flushers : Flush(f) \/ FlushTo(f) \/ FlushEnd(f)
             \/ \E x \in Sinks : Subscribe(x) \/ Write(x) \/ WriteFails(x) \/ Unsubscribe(x)
             \/ \E x \in Streams : OpenStream(x) \/ PeerCloses(x) \/ CloseStream(x)
             \/ UNCHANGED vars
      PROVE  DataFlow(k)'
    BY <1>1, <1>4, DataOther
<1>. QED  BY <1>2, <1>3, <1>4 DEF Next

\* A stream receives the data of its terminal in order and without a gap:
\* the session that has no room is closed rather than left with a hole.
THEOREM StreamInOrder == ASSUME "data" \in Kinds PROVE Spec => StreamWithoutGap
<1>. DEFINE NoGap == \A k \in Streams : sseen'[k] # sseen[k] => sseen[k] = 0 \/ sseen'[k] = sseen[k] + 1
<1>1. Init => DataFlows
    BY DataInit
<1>2. TypeInv /\ TypeInv' /\ DataFlows /\ [Next]_vars => DataFlows'
    BY DataStep
<1>3. TypeInv /\ DataFlows /\ [Next]_vars => NoGap
    <2>. SUFFICES ASSUME TypeInv, DataFlows, [Next]_vars, NEW k \in Streams, sseen'[k] # sseen[k]
                  PROVE  sseen[k] = 0 \/ sseen'[k] = sseen[k] + 1
        OBVIOUS
    <2>1. PICK x \in Streams : WriteStream(x)
        BY ReceivedByWrite
    <2>2. DataFlow(k)
        BY DEF DataFlows
    <2>. QED  BY <2>1, <2>2, DataWrite
<1>. QED  BY <1>1, <1>2, <1>3, TypeInvariance, PTL DEF Spec, StreamWithoutGap

=============================================================================
