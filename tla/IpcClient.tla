----------------------------- MODULE IpcClient ------------------------------
(***************************************************************************)
(* Calls to a capability service over pooled connections:                  *)
(* packages/go/serviceipc/client (Client.roundTrip, connPool) and          *)
(* packages/go/serviceipc/server (handleConn), with a service that dies    *)
(* and is started again.                                                   *)
(*                                                                         *)
(* Actors: a goroutine per call, a goroutine of the service per            *)
(* connection, and the service's process.  A connection is a pair of       *)
(* buffers of frames; an identity is used again once both ends are done.   *)
(***************************************************************************)
EXTENDS Naturals, Sequences, SequencesExt

CONSTANTS
    Reqs,       \* requests; each is one call of Invoke
    Conns,      \* connections
    MaxIdle,    \* maxIdleConns
    NoReq, NoConn

ASSUME IpcAssumption ==
    /\ NoReq \notin Reqs
    /\ NoConn \notin Conns
    /\ MaxIdle \in Nat

VARIABLES
    pc, conn, got,      \* per call: where it is, its connection, the answer it read
    idle,               \* connPool.idle
    link, inq, outq,    \* per connection: the client's end, frames to and from the service
    hpc, hreq,          \* per connection: its handleConn and the request there
    up,                 \* whether the service's process runs
    runs                \* how often the service executed a request

calls   == <<pc, conn, got>>
wires   == <<link, inq, outq>>
service == <<hpc, hreq, up, runs>>
vars == <<calls, idle, wires, service>>

-----------------------------------------------------------------------------
TypeOK ==
    /\ pc \in [Reqs -> {"idle", "get", "dial", "write", "writeFresh", "read",
                        "put", "ok", "failed"}]
    /\ conn \in [Reqs -> Conns \cup {NoConn}]
    /\ got \in [Reqs -> Reqs \cup {NoReq}]
    /\ idle \in Seq(Conns) /\ Len(idle) <= MaxIdle
    /\ link \in [Conns -> {"none", "open", "broken"}]
    /\ inq \in [Conns -> Seq(Reqs)]
    /\ outq \in [Conns -> Seq(Reqs)]
    /\ hpc \in [Conns -> {"gone", "read", "handle", "reply"}]
    /\ hreq \in [Conns -> Reqs \cup {NoReq}]
    /\ up \in BOOLEAN
    /\ runs \in [Reqs -> Nat]

Init ==
    /\ pc = [r \in Reqs |-> "idle"]
    /\ conn = [r \in Reqs |-> NoConn]
    /\ got = [r \in Reqs |-> NoReq]
    /\ idle = <<>>
    /\ link = [k \in Conns |-> "none"]
    /\ inq = [k \in Conns |-> <<>>]
    /\ outq = [k \in Conns |-> <<>>]
    /\ hpc = [k \in Conns |-> "gone"]
    /\ hreq = [k \in Conns |-> NoReq]
    /\ up = TRUE
    /\ runs = [r \in Reqs |-> 0]

Pooled == {idle[n] : n \in DOMAIN idle}

Goto(r, label) == pc' = [pc EXCEPT ![r] = label]
Release(r) == conn' = [conn EXCEPT ![r] = NoConn]
Close(ks) == link' = [k \in Conns |-> IF k \in ks THEN "none" ELSE link[k]]

-----------------------------------------------------------------------------
(* A call.                                                                 *)

Invoke(r) ==
    /\ pc[r] = "idle"
    /\ Goto(r, "get")
    /\ UNCHANGED <<conn, got, idle, wires, service>>

\* get: the connection used last.  The ages in the pool rise, so if that one
\* is too old all are, and they are closed.
Get(r) ==
    /\ pc[r] = "get"
    /\ \/ /\ idle # <<>>
          /\ conn' = [conn EXCEPT ![r] = Last(idle)]
          /\ idle' = Front(idle)
          /\ Goto(r, "write")
          /\ UNCHANGED link
       \/ /\ Close(Pooled)
          /\ idle' = <<>>
          /\ Goto(r, "dial")
          /\ UNCHANGED conn
    /\ UNCHANGED <<got, inq, outq, service>>

\* A new connection, for a call that found none or could not write to it.
Dial(r) ==
    /\ pc[r] = "dial"
    /\ \/ \E k \in Conns :
            /\ up /\ link[k] = "none" /\ hpc[k] = "gone"
            /\ link' = [link EXCEPT ![k] = "open"]
            /\ inq' = [inq EXCEPT ![k] = <<>>]
            /\ outq' = [outq EXCEPT ![k] = <<>>]
            /\ hpc' = [hpc EXCEPT ![k] = "read"]
            /\ conn' = [conn EXCEPT ![r] = k]
            /\ Goto(r, "writeFresh")
       \/ Goto(r, "failed") /\ UNCHANGED <<conn, wires, hpc>>
    /\ UNCHANGED <<got, idle, hreq, up, runs>>

\* Mutant: a connection that cannot be written to is not closed.
WriteNoClose(r) ==
    /\ pc[r] \in {"write", "writeFresh"}
    /\ IF link[conn[r]] = "open"
         THEN /\ inq' = [inq EXCEPT ![conn[r]] = Append(@, r)]
              /\ Goto(r, "read")
              /\ UNCHANGED <<conn, link>>
         ELSE /\ Release(r)
              /\ Goto(r, IF pc[r] = "write" THEN "dial" ELSE "failed")
              /\ UNCHANGED <<inq, link>>
    /\ UNCHANGED <<got, idle, outq, service>>

\* writeReadFrame, the frame out.  Only a pooled connection that takes no
\* frame is replaced by a new one.
Write(r) ==
    /\ pc[r] \in {"write", "writeFresh"}
    /\ IF link[conn[r]] = "open"
         THEN /\ inq' = [inq EXCEPT ![conn[r]] = Append(@, r)]
              /\ Goto(r, "read")
              /\ UNCHANGED <<conn, link>>
         ELSE /\ Close({conn[r]})
              /\ Release(r)
              /\ Goto(r, IF pc[r] = "write" THEN "dial" ELSE "failed")
              /\ UNCHANGED inq
    /\ UNCHANGED <<got, idle, outq, service>>

\* The next frame of the connection is taken for the answer.
ReadAnswer(r) ==
    /\ pc[r] = "read"
    /\ outq[conn[r]] # <<>>
    /\ got' = [got EXCEPT ![r] = Head(outq[conn[r]])]
    /\ outq' = [outq EXCEPT ![conn[r]] = Tail(@)]
    /\ Goto(r, "put")
    /\ UNCHANGED <<conn, idle, link, inq, service>>

\* Mutant: the request is sent again whenever its connection broke.
ReadRetries(r) ==
    /\ pc[r] = "read"
    /\ outq[conn[r]] = <<>>
    /\ link[conn[r]] = "broken"
    /\ Close({conn[r]})
    /\ Release(r)
    /\ Goto(r, "dial")
    /\ UNCHANGED <<got, idle, inq, outq, service>>

\* Mutant: the end of the connection goes unnoticed.
ReadWaits(r) ==
    /\ pc[r] = "read"
    /\ outq[conn[r]] = <<>>
    /\ link[conn[r]] = "broken"
    /\ UNCHANGED vars

\* The connection ended: no second attempt, the request may have been executed.
ReadFails(r) ==
    /\ pc[r] = "read"
    /\ outq[conn[r]] = <<>>
    /\ link[conn[r]] = "broken"
    /\ Close({conn[r]})
    /\ Release(r)
    /\ Goto(r, "failed")
    /\ UNCHANGED <<got, idle, inq, outq, service>>

\* Mutant: the pool has no limit.
PutAlways(r) ==
    /\ pc[r] = "put"
    /\ idle' = Append(idle, conn[r])
    /\ Release(r)
    /\ Goto(r, "ok")
    /\ UNCHANGED <<got, wires, service>>

\* put.
Put(r) ==
    /\ pc[r] = "put"
    /\ IF Len(idle) >= MaxIdle
         THEN Close({conn[r]}) /\ UNCHANGED idle
         ELSE idle' = Append(idle, conn[r]) /\ UNCHANGED link
    /\ Release(r)
    /\ Goto(r, "ok")
    /\ UNCHANGED <<got, inq, outq, service>>

Step(r) ==
    Get(r) \/ Dial(r) \/ Write(r) \/ ReadAnswer(r) \/ ReadFails(r) \/ Put(r)

-----------------------------------------------------------------------------
(* The service: handleConn of a connection, and its process.               *)

ReadRequest(k) ==
    /\ hpc[k] = "read"
    /\ inq[k] # <<>>
    /\ hreq' = [hreq EXCEPT ![k] = Head(inq[k])]
    /\ inq' = [inq EXCEPT ![k] = Tail(@)]
    /\ hpc' = [hpc EXCEPT ![k] = "handle"]
    /\ UNCHANGED <<calls, idle, link, outq, up, runs>>

\* The client closed the connection.
ReadEnd(k) ==
    /\ hpc[k] = "read"
    /\ inq[k] = <<>>
    /\ link[k] = "none"
    /\ hpc' = [hpc EXCEPT ![k] = "gone"]
    /\ UNCHANGED <<calls, idle, wires, hreq, up, runs>>

HandleFrame(k) ==
    /\ hpc[k] = "handle"
    /\ runs' = [runs EXCEPT ![hreq[k]] = @ + 1]
    /\ hpc' = [hpc EXCEPT ![k] = "reply"]
    /\ UNCHANGED <<calls, idle, wires, hreq, up>>

Reply(k) ==
    /\ hpc[k] = "reply"
    /\ IF link[k] = "open"
         THEN /\ outq' = [outq EXCEPT ![k] = Append(@, hreq[k])]
              /\ hpc' = [hpc EXCEPT ![k] = "read"]
         ELSE hpc' = [hpc EXCEPT ![k] = "gone"] /\ UNCHANGED outq
    /\ hreq' = [hreq EXCEPT ![k] = NoReq]
    /\ UNCHANGED <<calls, idle, link, inq, up, runs>>

HandleConn(k) == ReadRequest(k) \/ ReadEnd(k) \/ HandleFrame(k) \/ Reply(k)

\* Its connections end; what it had written may be lost or not.
Crash ==
    /\ up
    /\ up' = FALSE
    /\ link' = [k \in Conns |-> IF link[k] = "open" THEN "broken" ELSE link[k]]
    /\ inq' = [k \in Conns |-> <<>>]
    /\ \E lost \in SUBSET Conns :
         outq' = [k \in Conns |-> IF k \in lost THEN <<>> ELSE outq[k]]
    /\ hpc' = [k \in Conns |-> "gone"]
    /\ hreq' = [k \in Conns |-> NoReq]
    /\ UNCHANGED <<calls, idle, runs>>

Restart ==
    /\ ~up
    /\ up' = TRUE
    /\ UNCHANGED <<calls, idle, wires, hpc, hreq, runs>>

-----------------------------------------------------------------------------
Next ==
    \/ \E r \in Reqs : Invoke(r) \/ Step(r)
    \/ \E k \in Conns : HandleConn(k)
    \/ Crash \/ Restart

Spec == Init /\ [][Next]_vars

\* Goroutines run on both sides, and the service finishes what it executes.
Fairness ==
    /\ \A r \in Reqs : WF_vars(Step(r))
    /\ \A k \in Conns : WF_vars(HandleConn(k))

FairSpec == Spec /\ Fairness

-----------------------------------------------------------------------------
(* Properties.                                                             *)

\* Where a call is, as its caller sees it.
Status ==
    [r \in Reqs |->
        CASE pc[r] = "idle" -> "idle"
          [] pc[r] \in {"put", "ok"} -> "answered"
          [] pc[r] = "failed" -> "failed"
          [] OTHER -> "called"]

Promise == INSTANCE AtMostOnce WITH status <- Status, answer <- got

\* The pooled client keeps the promise of a call: whatever is reused, sent
\* again or lost, a request is executed at most once and every answer is
\* that of its own request.
KeepsPromise == Promise!Spec

\* Every connection the client has open is in the pool or in use by exactly
\* one call: none is leaked, none is shared.
ConnsOwned ==
    \A k \in Conns :
        /\ link[k] # "none" => k \in Pooled \/ \E r \in Reqs : conn[r] = k
        /\ \A r \in Reqs : conn[r] = k =>
             k \notin Pooled /\ \A q \in Reqs : conn[q] = k => q = r

\* Every call returns, whenever the service dies.
CallsReturn == \A r \in Reqs : pc[r] = "get" ~> pc[r] \in {"ok", "failed"}
=============================================================================
