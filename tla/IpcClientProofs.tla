--------------------------- MODULE IpcClientProofs --------------------------
(* Proofs about IpcClient, for any calls, connections and size of the pool. *)
EXTENDS IpcClient, TLAPS

Holding == {"write", "writeFresh", "read", "put"}

\* Nothing is on its way over k and the service waits for a request there.
Quiet(k) == inq[k] = <<>> /\ outq[k] = <<>> /\ hpc[k] \in {"read", "gone"}

\* Where the request, or the answer, of a call that reads from k may be.
InFlight(r, k) ==
    \/ inq[k] = <<r>> /\ outq[k] = <<>> /\ hpc[k] = "read" /\ runs[r] = 0
    \/ inq[k] = <<>> /\ outq[k] = <<>> /\ hpc[k] = "handle" /\ hreq[k] = r /\ runs[r] = 0
    \/ inq[k] = <<>> /\ outq[k] = <<>> /\ hpc[k] = "reply" /\ hreq[k] = r /\ runs[r] = 1
    \/ inq[k] = <<>> /\ outq[k] = <<r>> /\ hpc[k] \in {"read", "gone"} /\ runs[r] = 1
    \/ inq[k] = <<>> /\ outq[k] = <<>> /\ hpc[k] = "gone" /\ link[k] = "broken"

\* What a call has, has done and has received.
CallInv ==
    \A r \in Reqs :
        /\ conn[r] # NoConn <=> pc[r] \in Holding
        /\ pc[r] = "read" => InFlight(r, conn[r])
        /\ pc[r] \in {"idle", "get", "dial", "write", "writeFresh"} => runs[r] = 0
        /\ runs[r] \in {0, 1}
        /\ IF pc[r] \in {"put", "ok"} THEN got[r] = r /\ runs[r] = 1 ELSE got[r] = NoReq

\* A connection that no call reads from is quiet.
QuietInv ==
    \A k \in Conns : Quiet(k) \/ \E r \in Reqs : conn[r] = k /\ pc[r] = "read"

\* The two ends of a connection.
LinkInv ==
    \A k \in Conns :
        /\ link[k] = "broken" => hpc[k] = "gone" /\ inq[k] = <<>>
        /\ link[k] = "open" => hpc[k] # "gone"

\* Who owns a connection: the pool, one call, or nobody once it is closed.
OwnerInv ==
    /\ \A r, q \in Reqs : conn[r] = conn[q] /\ conn[r] # NoConn => r = q
    /\ \A r \in Reqs : conn[r] \notin Pooled
    /\ \A r \in Reqs : conn[r] # NoConn => link[conn[r]] # "none"
    /\ \A k \in Pooled : link[k] # "none"
    /\ \A m, n \in DOMAIN idle : idle[m] = idle[n] => m = n
    /\ \A k \in Conns : link[k] # "none" => k \in Pooled \/ \E r \in Reqs : conn[r] = k

\* TypeOK, and what makes it inductive: a handler at work has a request, a
\* call that uses a connection has one.
TypeInv ==
    /\ TypeOK
    /\ \A k \in Conns : hpc[k] \in {"handle", "reply"} => hreq[k] \in Reqs
    /\ \A r \in Reqs : pc[r] \in Holding => conn[r] \in Conns

IInv == CallInv /\ QuietInv /\ LinkInv /\ OwnerInv

USE DEF calls, wires, service

-----------------------------------------------------------------------------
\* Next, one disjunct per action.
LEMMA NextCases ==
    ASSUME Next
    PROVE
      \/ \E r \in Reqs : Invoke(r)
      \/ \E r \in Reqs : Get(r)
      \/ \E r \in Reqs : Dial(r)
      \/ \E r \in Reqs : Write(r)
      \/ \E r \in Reqs : ReadAnswer(r)
      \/ \E r \in Reqs : ReadFails(r)
      \/ \E r \in Reqs : Put(r)
      \/ \E k \in Conns : ReadRequest(k)
      \/ \E k \in Conns : ReadEnd(k)
      \/ \E k \in Conns : HandleFrame(k)
      \/ \E k \in Conns : Reply(k)
      \/ Crash
      \/ Restart
BY DEF Next, Step, HandleConn

\* The pool without the connection used last.
LEMMA PoolFront ==
    ASSUME NEW s \in Seq(Conns), s # <<>>
    PROVE  /\ Last(s) \in Conns
           /\ Front(s) \in Seq(Conns)
           /\ Len(Front(s)) = Len(s) - 1
           /\ \A n \in 1..(Len(s) - 1) : Front(s)[n] = s[n]
           /\ Last(s) = s[Len(s)]
           /\ Len(s) \in 1..Len(s)
<1>1. Len(s) \in Nat /\ Len(s) # 0
  OBVIOUS
<1>2. Len(s) \in 1..Len(s) /\ s[Len(s)] \in Conns
  BY <1>1
<1>3. Front(s) \in Seq(Conns)
  <2>1. \A n \in 1..(Len(s) - 1) : s[n] \in Conns
    BY <1>1
  <2> QED
    BY <1>1, <2>1 DEF Front
<1>4. Len(Front(s)) = Len(s) - 1
  <2>1. PICK n \in Nat : Len(s) = n + 1
    BY <1>1
  <2>2. Len(SubSeq(s, 1, n)) = n
    BY <2>1
  <2> QED
    BY <2>1, <2>2 DEF Front
<1>5. \A n \in 1..(Len(s) - 1) : Front(s)[n] = s[n]
  BY <1>1 DEF Front
<1> QED
  BY <1>2, <1>3, <1>4, <1>5 DEF Last

LEMMA AppendType ==
    ASSUME NEW S, NEW s \in Seq(S), NEW e \in S
    PROVE  Append(s, e) \in Seq(S) /\ Len(Append(s, e)) = Len(s) + 1
OBVIOUS

LEMMA TailType ==
    ASSUME NEW S, NEW s \in Seq(S), s # <<>>
    PROVE  Tail(s) \in Seq(S) /\ Head(s) \in S
OBVIOUS

\* Every variable has its type and the pool respects its limit.
LEMMA TypeInvariant == Spec => []TypeInv
<1>1. Init => TypeInv
  BY IpcAssumption DEF Init, TypeInv, TypeOK, Holding
<1>2. TypeInv /\ [Next]_vars => TypeInv'
  <2> SUFFICES ASSUME TypeInv, [Next]_vars PROVE TypeInv'
    OBVIOUS
  <2> USE DEF TypeInv, TypeOK, Holding
  <2>1. ASSUME NEW r \in Reqs, Invoke(r) PROVE TypeInv'
    BY <2>1 DEF Invoke, Goto
  <2>2. ASSUME NEW r \in Reqs, Get(r) PROVE TypeInv'
    <3>1. CASE idle # <<>> /\ idle' = Front(idle) /\ conn' = [conn EXCEPT ![r] = Last(idle)] /\ Goto(r, "write") /\ UNCHANGED link
      <4>1. Last(idle) \in Conns /\ Front(idle) \in Seq(Conns) /\ Len(Front(idle)) = Len(idle) - 1
        BY <3>1, PoolFront
      <4>2. idle' \in Seq(Conns) /\ Len(idle') <= MaxIdle
        BY <3>1, <4>1, IpcAssumption
      <4>3. pc' = [pc EXCEPT ![r] = "write"] /\ conn' = [conn EXCEPT ![r] = Last(idle)] /\ link' = link
        BY <3>1 DEF Goto
      <4>4. \A q \in Reqs : pc'[q] \in Holding => conn'[q] \in Conns
        BY <4>1, <4>3
      <4>5. got' = got /\ inq' = inq /\ outq' = outq /\ hpc' = hpc /\ hreq' = hreq
            /\ up' = up /\ runs' = runs
        BY <2>2 DEF Get
      <4> QED
        BY <4>1, <4>2, <4>3, <4>4, <4>5
    <3>2. CASE idle' = <<>> /\ Close(Pooled) /\ Goto(r, "dial") /\ UNCHANGED conn
      BY <2>2, <3>2, IpcAssumption DEF Get, Goto, Close
    <3> QED
      BY <2>2, <3>1, <3>2 DEF Get
  <2>3. ASSUME NEW r \in Reqs, Dial(r) PROVE TypeInv'
    <3>1. <<>> \in Seq(Reqs)
      OBVIOUS
    <3>2. CASE Goto(r, "failed") /\ UNCHANGED <<conn, wires, hpc>>
      BY <2>3, <3>2 DEF Dial, Goto
    <3>3. ASSUME NEW k \in Conns, link' = [link EXCEPT ![k] = "open"],
                 inq' = [inq EXCEPT ![k] = <<>>], outq' = [outq EXCEPT ![k] = <<>>],
                 hpc' = [hpc EXCEPT ![k] = "read"], conn' = [conn EXCEPT ![r] = k],
                 Goto(r, "writeFresh")
          PROVE TypeInv'
      <4>1. inq' \in [Conns -> Seq(Reqs)] /\ outq' \in [Conns -> Seq(Reqs)]
        BY <3>1, <3>3
      <4>2. idle' = idle /\ hreq' = hreq /\ up' = up /\ runs' = runs /\ got' = got
        BY <2>3 DEF Dial
      <4> QED
        BY <3>3, <4>1, <4>2 DEF Goto
    <3> QED
      BY <2>3, <3>2, <3>3 DEF Dial
  <2>4. ASSUME NEW r \in Reqs, Write(r) PROVE TypeInv'
    <3>1. conn[r] \in Conns /\ Append(inq[conn[r]], r) \in Seq(Reqs)
      BY <2>4 DEF Write
    <3>2. inq' \in [Conns -> Seq(Reqs)]
      BY <2>4, <3>1 DEF Write
    <3>3. CASE link[conn[r]] = "open"
      BY <2>4, <3>2, <3>3 DEF Write, Goto
    <3>4. CASE link[conn[r]] # "open"
      <4>1. link' \in [Conns -> {"none", "open", "broken"}]
        BY <2>4, <3>4 DEF Write, Close
      <4>2. PICK label \in {"dial", "failed"} : pc' = [pc EXCEPT ![r] = label]
        BY <2>4, <3>4 DEF Write, Goto
      <4>3. conn' = [conn EXCEPT ![r] = NoConn]
        BY <2>4, <3>4 DEF Write, Release
      <4> QED
        <5>1. idle' = idle /\ outq' = outq /\ hpc' = hpc /\ hreq' = hreq
              /\ up' = up /\ runs' = runs /\ got' = got
          BY <2>4 DEF Write
        <5> QED
          BY <3>2, <4>1, <4>2, <4>3, <5>1
    <3> QED
      BY <3>3, <3>4
  <2>5. ASSUME NEW r \in Reqs, ReadAnswer(r) PROVE TypeInv'
    <3>1. conn[r] \in Conns /\ outq[conn[r]] \in Seq(Reqs) /\ outq[conn[r]] # <<>>
      BY <2>5 DEF ReadAnswer
    <3>2. Tail(outq[conn[r]]) \in Seq(Reqs) /\ Head(outq[conn[r]]) \in Reqs
      BY <3>1, TailType
    <3>3. outq' \in [Conns -> Seq(Reqs)] /\ got' \in [Reqs -> Reqs \cup {NoReq}]
      BY <2>5, <3>2 DEF ReadAnswer
    <3> QED
      BY <2>5, <3>3 DEF ReadAnswer, Goto
  <2>6. ASSUME NEW r \in Reqs, ReadFails(r) PROVE TypeInv'
    BY <2>6 DEF ReadFails, Goto, Close, Release
  <2>7. ASSUME NEW r \in Reqs, Put(r) PROVE TypeInv'
    <3>1. conn[r] \in Conns
      BY <2>7 DEF Put
    <3>2. idle' \in Seq(Conns) /\ Len(idle') <= MaxIdle
      <4>1. Append(idle, conn[r]) \in Seq(Conns) /\ Len(Append(idle, conn[r])) = Len(idle) + 1
        BY <3>1, AppendType
      <4>2. Len(idle) \in Nat /\ MaxIdle \in Nat
        BY IpcAssumption
      <4>3. CASE Len(idle) >= MaxIdle
        BY <2>7, <4>3 DEF Put
      <4>4. CASE ~(Len(idle) >= MaxIdle)
        <5>1. idle' = Append(idle, conn[r])
          BY <2>7, <4>4 DEF Put
        <5>2. Len(idle) + 1 <= MaxIdle
          BY <4>2, <4>4
        <5> QED
          BY <4>1, <5>1, <5>2
      <4> QED
        BY <4>3, <4>4
    <3>3. link' \in [Conns -> {"none", "open", "broken"}]
      BY <2>7 DEF Put, Close
    <3> QED
      BY <2>7, <3>2, <3>3 DEF Put, Goto, Release
  <2>8. ASSUME NEW k \in Conns, ReadRequest(k) PROVE TypeInv'
    <3>1. Tail(inq[k]) \in Seq(Reqs) /\ Head(inq[k]) \in Reqs
      BY <2>8, TailType DEF ReadRequest
    <3>2. inq' \in [Conns -> Seq(Reqs)]
      BY <2>8, <3>1 DEF ReadRequest
    <3> QED
      BY <2>8, <3>1, <3>2 DEF ReadRequest
  <2>9. ASSUME NEW k \in Conns, ReadEnd(k) PROVE TypeInv'
    BY <2>9 DEF ReadEnd
  <2>10. ASSUME NEW k \in Conns, HandleFrame(k) PROVE TypeInv'
    <3>1. hreq[k] \in Reqs /\ runs' \in [Reqs -> Nat]
      BY <2>10 DEF HandleFrame
    <3> QED
      BY <2>10, <3>1 DEF HandleFrame
  <2>11. ASSUME NEW k \in Conns, Reply(k) PROVE TypeInv'
    <3>1. Append(outq[k], hreq[k]) \in Seq(Reqs)
      BY <2>11 DEF Reply
    <3>2. outq' \in [Conns -> Seq(Reqs)]
      BY <2>11, <3>1 DEF Reply
    <3> QED
      BY <2>11, <3>2 DEF Reply
  <2>12. ASSUME Crash PROVE TypeInv'
    <3>1. <<>> \in Seq(Reqs)
      OBVIOUS
    <3>2. inq' \in [Conns -> Seq(Reqs)] /\ outq' \in [Conns -> Seq(Reqs)]
      BY <2>12, <3>1 DEF Crash
    <3>3. link' \in [Conns -> {"none", "open", "broken"}]
      BY <2>12 DEF Crash
    <3> QED
      BY <2>12, <3>2, <3>3 DEF Crash
  <2>13. ASSUME Restart PROVE TypeInv'
    BY <2>13 DEF Restart
  <2>14. ASSUME UNCHANGED vars PROVE TypeInv'
    BY <2>14 DEF vars
  <2> QED
    BY NextCases, <2>1, <2>2, <2>3, <2>4, <2>5, <2>6, <2>7, <2>8, <2>9, <2>10, <2>11, <2>12, <2>13, <2>14
<1> QED
  BY <1>1, <1>2, PTL DEF Spec

\* Every variable has its type and the pool respects its limit.
THEOREM TypeCorrect == Spec => []TypeOK
<1>1. TypeInv => TypeOK
  BY DEF TypeInv
<1> QED
  BY <1>1, TypeInvariant, PTL
-----------------------------------------------------------------------------
(* The invariant.                                                          *)

LEMMA OneFrame ==
    \A e : /\ <<e>> # <<>> /\ Head(<<e>>) = e /\ Tail(<<e>>) = <<>>
           /\ Append(<<>>, e) = <<e>>
OBVIOUS

LEMMA InvInit == Init => IInv
BY IpcAssumption DEF Init, IInv, CallInv, QuietInv, Quiet, LinkInv, OwnerInv, Holding, Pooled

LEMMA InvokeInv ==
    ASSUME TypeInv, IInv, NEW r \in Reqs, Invoke(r)
    PROVE  IInv'
<1> USE DEF TypeInv, TypeOK
<1>1. CallInv'
  BY DEF Invoke, Goto, IInv, CallInv, InFlight, Holding
<1>2. QuietInv'
  BY DEF Invoke, Goto, IInv, QuietInv, Quiet
<1>3. LinkInv'
  BY DEF Invoke, IInv, LinkInv
<1>4. OwnerInv'
  <2>1. idle' = idle /\ conn' = conn /\ link' = link
    BY DEF Invoke, Goto
  <2>2. Pooled' = Pooled
    BY <2>1 DEF Pooled
  <2> QED
    BY <2>1, <2>2 DEF IInv, OwnerInv
<1> QED
  BY <1>1, <1>2, <1>3, <1>4 DEF IInv

LEMMA GetInv ==
    ASSUME TypeInv, IInv, NEW r \in Reqs, Get(r)
    PROVE  IInv'
<1> USE DEF TypeInv, TypeOK
<1>1. pc[r] = "get" /\ got' = got /\ inq' = inq /\ outq' = outq /\ hpc' = hpc /\ hreq' = hreq
      /\ up' = up /\ runs' = runs
  BY DEF Get
<1>2. conn[r] = NoConn /\ runs[r] = 0 /\ got[r] = NoReq
  BY <1>1 DEF IInv, CallInv, Holding
<1>3. Pooled \subseteq Conns /\ NoConn \notin Conns
  BY IpcAssumption DEF Pooled
<1>4. ASSUME idle # <<>>, conn' = [conn EXCEPT ![r] = Last(idle)], idle' = Front(idle),
             Goto(r, "write"), link' = link
      PROVE  IInv'
  <2>1. /\ Last(idle) \in Conns /\ Last(idle) = idle[Len(idle)]
        /\ Front(idle) \in Seq(Conns) /\ Len(Front(idle)) = Len(idle) - 1
        /\ Len(idle) \in 1..Len(idle)
        /\ \A n \in 1..(Len(idle) - 1) : Front(idle)[n] = idle[n]
    BY <1>4, PoolFront
  <2>2. DOMAIN idle = 1..Len(idle) /\ DOMAIN idle' = 1..(Len(idle) - 1) /\ Len(idle) \in Nat
    BY <1>4, <2>1
  <2>3. DOMAIN idle' \subseteq DOMAIN idle /\ Len(idle) \notin DOMAIN idle'
        /\ \A n \in DOMAIN idle : n \in DOMAIN idle' \/ n = Len(idle)
    BY <2>2
  <2>4. \A n \in DOMAIN idle' : idle'[n] = idle[n]
    BY <1>4, <2>1, <2>2
  <2>5. \A m, n \in DOMAIN idle : idle[m] = idle[n] => m = n
    BY DEF IInv, OwnerInv
  <2>6. Last(idle) \in Pooled
    BY <2>1, <2>2 DEF Pooled
  <2>7. Pooled' = Pooled \ {Last(idle)}
    <3>1. \A k : k \in Pooled <=> \E n \in DOMAIN idle : idle[n] = k
      BY DEF Pooled
    <3>2. \A k : k \in Pooled' <=> \E n \in DOMAIN idle' : idle'[n] = k
      BY DEF Pooled
    <3>3. Len(idle) \in DOMAIN idle /\ idle[Len(idle)] = Last(idle)
      BY <2>1, <2>2
    <3>4. \A k : k \in Pooled' <=> k \in Pooled /\ k # Last(idle)
      BY <2>3, <2>4, <2>5, <3>1, <3>2, <3>3
    <3> QED
      BY <3>4
  <2>8. \A q \in Reqs : conn[q] # Last(idle)
    BY <2>6 DEF IInv, OwnerInv
  <2>9. CallInv'
    BY <1>1, <1>2, <1>3, <1>4, <2>1 DEF Goto, IInv, CallInv, InFlight, Holding
  <2>10. QuietInv'
    <3>1. SUFFICES ASSUME NEW j \in Conns
                   PROVE  (Quiet(j) \/ \E q \in Reqs : conn[q] = j /\ pc[q] = "read")'
      BY DEF QuietInv
    <3>2. Quiet(j) \/ \E q \in Reqs : conn[q] = j /\ pc[q] = "read"
      BY DEF IInv, QuietInv
    <3>3. CASE Quiet(j)
      BY <1>1, <3>3 DEF Quiet
    <3>4. ASSUME NEW q \in Reqs, conn[q] = j, pc[q] = "read" PROVE conn'[q] = j /\ pc'[q] = "read"
      BY <1>1, <1>4, <3>4 DEF Goto
    <3> QED
      BY <3>2, <3>3, <3>4
  <2>11. LinkInv'
    BY <1>1, <1>4 DEF IInv, LinkInv
  <2>12. \A m, n \in DOMAIN idle' : idle'[m] = idle'[n] => m = n
    BY <2>3, <2>4, <2>5
  <2>13. OwnerInv'
    BY <1>2, <1>3, <1>4, <2>1, <2>6, <2>7, <2>8, <2>12 DEF IInv, OwnerInv
  <2> QED
    BY <2>9, <2>10, <2>11, <2>13 DEF IInv
<1>5. ASSUME Close(Pooled), idle' = <<>>, Goto(r, "dial"), conn' = conn
      PROVE  IInv'
  <2>1. \A k \in Conns : link'[k] = IF k \in Pooled THEN "none" ELSE link[k]
    BY <1>5 DEF Close
  <2>2. Pooled' = {} /\ DOMAIN idle' = {}
    BY <1>5 DEF Pooled
  <2>3. \A q \in Reqs : conn[q] \notin Pooled
    BY DEF IInv, OwnerInv
  <2>4. CallInv'
    <3>1. \A q \in Reqs : pc[q] = "read" => InFlight(q, conn[q])'
      BY <1>1, <1>3, <1>5, <2>1, <2>3 DEF IInv, CallInv, InFlight, Holding
    <3> QED
      BY <1>1, <1>2, <1>5, <3>1 DEF Goto, IInv, CallInv, Holding
  <2>5. QuietInv'
    <3>1. \A q \in Reqs : pc[q] = "read" => pc'[q] = "read"
      BY <1>1, <1>5 DEF Goto
    <3> QED
      BY <1>1, <1>5, <3>1 DEF IInv, QuietInv, Quiet
  <2>6. LinkInv'
    BY <1>1, <2>1 DEF IInv, LinkInv
  <2>7. OwnerInv'
    BY <1>3, <1>5, <2>1, <2>2, <2>3 DEF IInv, OwnerInv
  <2> QED
    BY <2>4, <2>5, <2>6, <2>7 DEF IInv
<1> QED
  BY <1>4, <1>5 DEF Get

LEMMA DialInv ==
    ASSUME TypeInv, IInv, NEW r \in Reqs, Dial(r)
    PROVE  IInv'
<1> USE DEF TypeInv, TypeOK
<1>1. CallInv'
  BY IpcAssumption DEF Dial, Goto, IInv, CallInv, InFlight, Holding, QuietInv, Quiet, OwnerInv
<1>2. QuietInv'
  <2>1. pc[r] = "dial"
    BY DEF Dial
  <2>2. SUFFICES ASSUME NEW j \in Conns
                 PROVE  (Quiet(j) \/ \E q \in Reqs : conn[q] = j /\ pc[q] = "read")'
    BY DEF QuietInv
  <2>3. Quiet(j) \/ \E q \in Reqs : conn[q] = j /\ pc[q] = "read"
    BY DEF IInv, QuietInv
  <2>4. CASE Goto(r, "failed") /\ UNCHANGED <<conn, wires, hpc>>
    BY <2>1, <2>3, <2>4 DEF Goto, Quiet
  <2>5. ASSUME NEW k \in Conns, inq' = [inq EXCEPT ![k] = <<>>], outq' = [outq EXCEPT ![k] = <<>>],
               hpc' = [hpc EXCEPT ![k] = "read"], conn' = [conn EXCEPT ![r] = k], Goto(r, "writeFresh")
        PROVE  (Quiet(j) \/ \E q \in Reqs : conn[q] = j /\ pc[q] = "read")'
    <3>1. CASE j = k
      BY <2>5, <3>1 DEF Quiet
    <3>2. CASE j # k /\ Quiet(j)
      BY <2>5, <3>2 DEF Quiet
    <3>3. ASSUME NEW q \in Reqs, conn[q] = j, pc[q] = "read" PROVE conn'[q] = j /\ pc'[q] = "read"
      BY <2>1, <2>5, <3>3 DEF Goto
    <3> QED
      BY <2>3, <3>1, <3>2, <3>3
  <2> QED
    BY <2>4, <2>5 DEF Dial
<1>3. LinkInv'
  BY DEF Dial, IInv, LinkInv
<1>4. OwnerInv'
  <2>1. idle' = idle
    BY DEF Dial
  <2>2. Pooled' = Pooled /\ Pooled \subseteq Conns
    BY <2>1 DEF Pooled
  <2>3. CASE link' = link /\ conn' = conn
    BY <2>1, <2>2, <2>3 DEF IInv, OwnerInv
  <2>4. ASSUME NEW k \in Conns, link[k] = "none", link' = [link EXCEPT ![k] = "open"],
               conn' = [conn EXCEPT ![r] = k]
        PROVE OwnerInv'
    <3>1. k \notin Pooled /\ \A q \in Reqs : conn[q] # k
      BY <2>4, IpcAssumption DEF IInv, OwnerInv
    <3>2. conn[r] = NoConn
      BY DEF Dial, IInv, CallInv, Holding
    <3> QED
      BY <2>1, <2>2, <2>4, <3>1, <3>2, IpcAssumption DEF IInv, OwnerInv
  <2> QED
    BY <2>3, <2>4 DEF Dial
<1> QED
  BY <1>1, <1>2, <1>3, <1>4 DEF IInv

LEMMA WriteInv ==
    ASSUME TypeInv, IInv, NEW r \in Reqs, Write(r)
    PROVE  IInv'
<1> USE DEF TypeInv, TypeOK
<1>1. CallInv'
  BY DEF Write, Goto, Close, Release, IInv, CallInv, InFlight, Holding, QuietInv, Quiet, LinkInv, OwnerInv
<1>2. QuietInv'
  <2>1. pc[r] \in {"write", "writeFresh"} /\ outq' = outq /\ hpc' = hpc
    BY DEF Write
  <2>2. SUFFICES ASSUME NEW j \in Conns
                 PROVE  (Quiet(j) \/ \E q \in Reqs : conn[q] = j /\ pc[q] = "read")'
    BY DEF QuietInv
  <2>3. Quiet(j) \/ \E q \in Reqs : conn[q] = j /\ pc[q] = "read"
    BY DEF IInv, QuietInv
  <2>4. ASSUME NEW q \in Reqs, conn[q] = j, pc[q] = "read"
        PROVE  conn'[q] = j /\ pc'[q] = "read"
    BY <2>1, <2>4 DEF Write, Goto, Release
  <2>5. CASE link[conn[r]] = "open"
    <3>1. pc'[r] = "read" /\ conn'[r] = conn[r] /\ inq' = [inq EXCEPT ![conn[r]] = Append(@, r)]
      BY <2>5 DEF Write, Goto
    <3> QED
      BY <2>1, <2>3, <2>4, <3>1 DEF Quiet
  <2>6. CASE link[conn[r]] # "open"
    <3>1. inq' = inq
      BY <2>6 DEF Write
    <3> QED
      BY <2>1, <2>3, <2>4, <3>1 DEF Quiet
  <2> QED
    BY <2>5, <2>6
<1>3. LinkInv'
  BY DEF Write, Close, IInv, LinkInv
<1>4. OwnerInv'
  <2>1. idle' = idle
    BY DEF Write
  <2>2. Pooled' = Pooled /\ Pooled \subseteq Conns
    BY <2>1 DEF Pooled
  <2>3. conn[r] \in Conns
    BY DEF Write, Holding
  <2>4. CASE link' = link /\ conn' = conn
    BY <2>1, <2>2, <2>4 DEF IInv, OwnerInv
  <2>5. CASE Close({conn[r]}) /\ Release(r)
    <3>1. conn' = [conn EXCEPT ![r] = NoConn]
      BY <2>5 DEF Release
    <3>2. \A k \in Conns : link'[k] = IF k = conn[r] THEN "none" ELSE link[k]
      BY <2>5 DEF Close
    <3> QED
      BY <2>1, <2>2, <2>3, <3>1, <3>2, IpcAssumption DEF IInv, OwnerInv
  <2> QED
    BY <2>4, <2>5 DEF Write
<1> QED
  BY <1>1, <1>2, <1>3, <1>4 DEF IInv

LEMMA ReadAnswerInv ==
    ASSUME TypeInv, IInv, NEW r \in Reqs, ReadAnswer(r)
    PROVE  IInv'
<1> USE DEF TypeInv, TypeOK
<1>1. CallInv'
  BY DEF ReadAnswer, Goto, IInv, CallInv, InFlight, Holding, OwnerInv
<1>2. QuietInv'
  <2>1. pc[r] = "read" /\ outq[conn[r]] # <<>> /\ inq' = inq /\ hpc' = hpc /\ conn' = conn
    BY DEF ReadAnswer
  <2>2. InFlight(r, conn[r])
    BY <2>1 DEF IInv, CallInv
  <2>3. conn[r] \in Conns /\ inq[conn[r]] = <<>> /\ outq[conn[r]] = <<r>> /\ hpc[conn[r]] \in {"read", "gone"}
    BY <2>1, <2>2 DEF InFlight, Holding
  <2>4. outq' = [outq EXCEPT ![conn[r]] = <<>>]
    BY <2>3, OneFrame DEF ReadAnswer
  <2>5. SUFFICES ASSUME NEW j \in Conns
                 PROVE  (Quiet(j) \/ \E q \in Reqs : conn[q] = j /\ pc[q] = "read")'
    BY DEF QuietInv
  <2>6. CASE j = conn[r]
    BY <2>1, <2>3, <2>4, <2>6 DEF Quiet
  <2>7. CASE j # conn[r] /\ Quiet(j)
    BY <2>1, <2>4, <2>7 DEF Quiet
  <2>8. ASSUME NEW q \in Reqs, j # conn[r], conn[q] = j, pc[q] = "read"
        PROVE  conn'[q] = j /\ pc'[q] = "read"
    BY <2>1, <2>8 DEF ReadAnswer, Goto
  <2> QED
    BY <2>6, <2>7, <2>8 DEF IInv, QuietInv
<1>3. LinkInv'
  BY DEF ReadAnswer, IInv, LinkInv
<1>4. OwnerInv'
  <2>1. idle' = idle /\ conn' = conn /\ link' = link
    BY DEF ReadAnswer, Goto
  <2>2. Pooled' = Pooled
    BY <2>1 DEF Pooled
  <2> QED
    BY <2>1, <2>2 DEF IInv, OwnerInv
<1> QED
  BY <1>1, <1>2, <1>3, <1>4 DEF IInv

LEMMA ReadFailsInv ==
    ASSUME TypeInv, IInv, NEW r \in Reqs, ReadFails(r)
    PROVE  IInv'
<1> USE DEF TypeInv, TypeOK
<1>1. CallInv'
  BY DEF ReadFails, Goto, Close, Release, IInv, CallInv, InFlight, Holding, OwnerInv
<1>2. QuietInv'
  BY DEF ReadFails, Goto, Release, IInv, QuietInv, Quiet, LinkInv
<1>3. LinkInv'
  BY DEF ReadFails, Close, IInv, LinkInv
<1>4. OwnerInv'
  <2>1. idle' = idle
    BY DEF ReadFails
  <2>2. Pooled' = Pooled /\ Pooled \subseteq Conns
    BY <2>1 DEF Pooled
  <2>3. conn[r] \in Conns
    BY DEF ReadFails, Holding
  <2>4. CASE link' = link /\ conn' = conn
    BY <2>1, <2>2, <2>4 DEF IInv, OwnerInv
  <2>5. CASE Close({conn[r]}) /\ Release(r)
    <3>1. conn' = [conn EXCEPT ![r] = NoConn]
      BY <2>5 DEF Release
    <3>2. \A k \in Conns : link'[k] = IF k = conn[r] THEN "none" ELSE link[k]
      BY <2>5 DEF Close
    <3> QED
      BY <2>1, <2>2, <2>3, <3>1, <3>2, IpcAssumption DEF IInv, OwnerInv
  <2> QED
    BY <2>4, <2>5 DEF ReadFails
<1> QED
  BY <1>1, <1>2, <1>3, <1>4 DEF IInv

LEMMA PutInv ==
    ASSUME TypeInv, IInv, NEW r \in Reqs, Put(r)
    PROVE  IInv'
<1> USE DEF TypeInv, TypeOK
<1>1. CallInv'
  BY DEF Put, Goto, Close, Release, IInv, CallInv, InFlight, Holding, OwnerInv
<1>2. QuietInv'
  BY DEF Put, Goto, Release, IInv, QuietInv, Quiet
<1>3. LinkInv'
  BY DEF Put, Close, IInv, LinkInv
<1>4. OwnerInv'
  <2>1. conn[r] \in Conns /\ link[conn[r]] # "none" /\ conn[r] \notin Pooled /\ conn[r] # NoConn
    BY IpcAssumption DEF Put, Holding, IInv, OwnerInv
  <2>2. conn' = [conn EXCEPT ![r] = NoConn]
    BY DEF Put, Release
  <2>3. Pooled \subseteq Conns /\ NoConn \notin Conns
    BY IpcAssumption DEF Pooled
  <2>4. CASE Len(idle) >= MaxIdle
    <3>1. idle' = idle /\ \A k \in Conns : link'[k] = IF k = conn[r] THEN "none" ELSE link[k]
      BY <2>4 DEF Put, Close
    <3>2. Pooled' = Pooled
      BY <3>1 DEF Pooled
    <3> QED
      BY <2>1, <2>2, <2>3, <3>1, <3>2 DEF IInv, OwnerInv
  <2>5. CASE ~(Len(idle) >= MaxIdle)
    <3>1. idle' = Append(idle, conn[r]) /\ link' = link
      BY <2>5 DEF Put
    <3>2. DOMAIN idle' = 1..(Len(idle) + 1) /\ DOMAIN idle = 1..Len(idle) /\ Len(idle) \in Nat
      BY <2>1, <3>1
    <3>3. \A n \in DOMAIN idle : idle'[n] = idle[n]
      BY <2>1, <3>1, <3>2
    <3>4. idle'[Len(idle) + 1] = conn[r]
      BY <2>1, <3>1
    <3>5. /\ DOMAIN idle \subseteq DOMAIN idle' /\ Len(idle) + 1 \in DOMAIN idle'
          /\ \A n \in DOMAIN idle' : n \in DOMAIN idle \/ n = Len(idle) + 1
      <4>1. \A L \in Nat : /\ 1..L \subseteq 1..(L + 1) /\ L + 1 \in 1..(L + 1)
                           /\ \A n \in 1..(L + 1) : n \in 1..L \/ n = L + 1
        OBVIOUS
      <4> QED
        BY <3>2, <4>1
    <3>6. Pooled' = Pooled \cup {conn[r]}
      <4>1. \A k : k \in Pooled <=> \E n \in DOMAIN idle : idle[n] = k
        BY DEF Pooled
      <4>2. \A k : k \in Pooled' <=> \E n \in DOMAIN idle' : idle'[n] = k
        BY DEF Pooled
      <4>3. \A k : k \in Pooled' <=> k \in Pooled \/ k = conn[r]
        BY <3>3, <3>4, <3>5, <4>1, <4>2
      <4> QED
        BY <4>3
    <3>7. \A m, n \in DOMAIN idle' : idle'[m] = idle'[n] => m = n
      <4>1. \A n \in DOMAIN idle : idle[n] # conn[r]
        BY <2>1 DEF Pooled
      <4>2. \A m, n \in DOMAIN idle : idle[m] = idle[n] => m = n
        BY DEF IInv, OwnerInv
      <4> QED
        BY <3>3, <3>4, <3>5, <4>1, <4>2
    <3> QED
      BY <2>1, <2>2, <2>3, <3>1, <3>6, <3>7 DEF IInv, OwnerInv
  <2> QED
    BY <2>4, <2>5
<1> QED
  BY <1>1, <1>2, <1>3, <1>4 DEF IInv

LEMMA ReadRequestInv ==
    ASSUME TypeInv, IInv, NEW k \in Conns, ReadRequest(k)
    PROVE  IInv'
<1> USE DEF TypeInv, TypeOK
<1>1. CallInv'
  <2>1. hpc[k] = "read" /\ inq[k] # <<>> /\ pc' = pc /\ conn' = conn /\ got' = got
        /\ runs' = runs /\ outq' = outq /\ link' = link
    BY DEF ReadRequest
  <2>2. SUFFICES ASSUME NEW r \in Reqs, pc[r] = "read" PROVE InFlight(r, conn[r])'
    BY <2>1 DEF IInv, CallInv
  <2>3. InFlight(r, conn[r]) /\ conn[r] \in Conns
    BY <2>2 DEF IInv, CallInv, Holding
  <2>4. CASE conn[r] = k
    <3>1. inq[k] = <<r>> /\ outq[k] = <<>> /\ runs[r] = 0
      BY <2>1, <2>3, <2>4 DEF InFlight
    <3>2. hreq'[k] = r /\ inq'[k] = <<>> /\ hpc'[k] = "handle"
      BY <3>1, OneFrame DEF ReadRequest
    <3> QED
      BY <2>1, <2>4, <3>1, <3>2 DEF InFlight
  <2>5. CASE conn[r] # k
    <3>1. hreq'[conn[r]] = hreq[conn[r]] /\ inq'[conn[r]] = inq[conn[r]] /\ hpc'[conn[r]] = hpc[conn[r]]
      BY <2>3, <2>5 DEF ReadRequest
    <3> QED
      BY <2>1, <2>3, <3>1 DEF InFlight
  <2> QED
    BY <2>4, <2>5
<1>2. QuietInv'
  BY DEF ReadRequest, IInv, QuietInv, Quiet
<1>3. LinkInv'
  BY DEF ReadRequest, IInv, LinkInv
<1>4. OwnerInv'
  <2>1. idle' = idle /\ conn' = conn /\ link' = link
    BY DEF ReadRequest
  <2>2. Pooled' = Pooled
    BY <2>1 DEF Pooled
  <2> QED
    BY <2>1, <2>2 DEF IInv, OwnerInv
<1> QED
  BY <1>1, <1>2, <1>3, <1>4 DEF IInv

LEMMA ReadEndInv ==
    ASSUME TypeInv, IInv, NEW k \in Conns, ReadEnd(k)
    PROVE  IInv'
<1> USE DEF TypeInv, TypeOK
<1>1. CallInv'
  BY DEF ReadEnd, IInv, CallInv, InFlight, Holding, OwnerInv
<1>2. QuietInv'
  BY DEF ReadEnd, IInv, QuietInv, Quiet
<1>3. LinkInv'
  BY DEF ReadEnd, IInv, LinkInv
<1>4. OwnerInv'
  <2>1. idle' = idle /\ conn' = conn /\ link' = link
    BY DEF ReadEnd
  <2>2. Pooled' = Pooled
    BY <2>1 DEF Pooled
  <2> QED
    BY <2>1, <2>2 DEF IInv, OwnerInv
<1> QED
  BY <1>1, <1>2, <1>3, <1>4 DEF IInv

LEMMA HandleFrameInv ==
    ASSUME TypeInv, IInv, NEW k \in Conns, HandleFrame(k)
    PROVE  IInv'
<1> USE DEF TypeInv, TypeOK
<1>1. CallInv'
  <2>1. hpc[k] = "handle" /\ pc' = pc /\ conn' = conn /\ got' = got /\ inq' = inq
        /\ outq' = outq /\ link' = link /\ hreq' = hreq
    BY DEF HandleFrame
  <2>2. PICK r \in Reqs : conn[r] = k /\ pc[r] = "read"
    BY <2>1 DEF IInv, QuietInv, Quiet
  <2>3. inq[k] = <<>> /\ outq[k] = <<>> /\ hreq[k] = r /\ runs[r] = 0
    BY <2>1, <2>2 DEF IInv, CallInv, InFlight
  <2>4. runs' = [runs EXCEPT ![r] = 1] /\ hpc' = [hpc EXCEPT ![k] = "reply"]
    BY <2>3 DEF HandleFrame
  <2>5. InFlight(r, k)'
    BY <2>1, <2>3, <2>4 DEF InFlight
  <2>6. ASSUME NEW q \in Reqs, q # r, pc[q] = "read" PROVE InFlight(q, conn[q])'
    <3>1. InFlight(q, conn[q]) /\ conn[q] \in Conns
      BY <2>6 DEF IInv, CallInv, Holding
    <3>2. conn[q] # k
      BY <2>2, <2>6, <3>1, IpcAssumption DEF IInv, OwnerInv
    <3> QED
      BY <2>1, <2>4, <2>6, <3>1, <3>2 DEF InFlight
  <2> QED
    BY <2>1, <2>2, <2>4, <2>5, <2>6 DEF IInv, CallInv
<1>2. QuietInv'
  BY DEF HandleFrame, IInv, QuietInv, Quiet
<1>3. LinkInv'
  BY DEF HandleFrame, IInv, LinkInv
<1>4. OwnerInv'
  <2>1. idle' = idle /\ conn' = conn /\ link' = link
    BY DEF HandleFrame
  <2>2. Pooled' = Pooled
    BY <2>1 DEF Pooled
  <2> QED
    BY <2>1, <2>2 DEF IInv, OwnerInv
<1> QED
  BY <1>1, <1>2, <1>3, <1>4 DEF IInv

LEMMA ReplyInv ==
    ASSUME TypeInv, IInv, NEW k \in Conns, Reply(k)
    PROVE  IInv'
<1> USE DEF TypeInv, TypeOK
<1>1. CallInv'
  BY DEF Reply, IInv, CallInv, InFlight, Holding, QuietInv, OwnerInv
<1>2. QuietInv'
  BY DEF Reply, IInv, QuietInv, Quiet, OwnerInv
<1>3. LinkInv'
  BY DEF Reply, IInv, LinkInv
<1>4. OwnerInv'
  <2>1. idle' = idle /\ conn' = conn /\ link' = link
    BY DEF Reply
  <2>2. Pooled' = Pooled
    BY <2>1 DEF Pooled
  <2> QED
    BY <2>1, <2>2 DEF IInv, OwnerInv
<1> QED
  BY <1>1, <1>2, <1>3, <1>4 DEF IInv

LEMMA CrashInv ==
    ASSUME TypeInv, IInv, Crash
    PROVE  IInv'
<1> USE DEF TypeInv, TypeOK
<1>1. CallInv'
  BY DEF Crash, IInv, CallInv, InFlight, Holding, OwnerInv
<1>2. QuietInv'
  BY DEF Crash, IInv, QuietInv, Quiet
<1>3. LinkInv'
  BY DEF Crash, LinkInv
<1>4. OwnerInv'
  <2>1. idle' = idle /\ conn' = conn
    BY DEF Crash
  <2>2. Pooled' = Pooled /\ Pooled \subseteq Conns
    BY <2>1 DEF Pooled
  <2>3. \A k \in Conns : link'[k] = "none" <=> link[k] = "none"
    BY DEF Crash
  <2>4. \A r \in Reqs : conn[r] \in Conns \cup {NoConn}
    OBVIOUS
  <2> QED
    BY <2>1, <2>2, <2>3, <2>4 DEF IInv, OwnerInv
<1> QED
  BY <1>1, <1>2, <1>3, <1>4 DEF IInv

LEMMA RestartInv ==
    ASSUME TypeInv, IInv, Restart
    PROVE  IInv'
<1> USE DEF TypeInv, TypeOK
<1>1. CallInv'
  BY DEF Restart, IInv, CallInv, InFlight
<1>2. QuietInv'
  BY DEF Restart, IInv, QuietInv, Quiet
<1>3. LinkInv'
  BY DEF Restart, IInv, LinkInv
<1>4. OwnerInv'
  <2>1. idle' = idle /\ conn' = conn /\ link' = link
    BY DEF Restart
  <2>2. Pooled' = Pooled
    BY <2>1 DEF Pooled
  <2> QED
    BY <2>1, <2>2 DEF IInv, OwnerInv
<1> QED
  BY <1>1, <1>2, <1>3, <1>4 DEF IInv

LEMMA StutterInv ==
    ASSUME IInv, UNCHANGED vars
    PROVE  IInv'
<1> USE DEF vars
<1>1. CallInv'
  BY DEF IInv, CallInv, InFlight, Holding
<1>2. QuietInv'
  BY DEF IInv, QuietInv, Quiet
<1>3. LinkInv'
  BY DEF IInv, LinkInv
<1>4. OwnerInv'
  <2>1. idle' = idle /\ conn' = conn /\ link' = link
    OBVIOUS
  <2>2. Pooled' = Pooled
    BY <2>1 DEF Pooled
  <2> QED
    BY <2>1, <2>2 DEF IInv, OwnerInv
<1> QED
  BY <1>1, <1>2, <1>3, <1>4 DEF IInv

LEMMA Invariance == Spec => [](TypeInv /\ IInv)
<1>1. TypeInv /\ IInv /\ [Next]_vars => IInv'
  <2> SUFFICES ASSUME TypeInv, IInv, [Next]_vars PROVE IInv'
    OBVIOUS
  <2>1. CASE Next
    BY <2>1, NextCases, InvokeInv, GetInv, DialInv, WriteInv, ReadAnswerInv, ReadFailsInv, PutInv,
       ReadRequestInv, ReadEndInv, HandleFrameInv, ReplyInv, CrashInv, RestartInv
  <2>2. CASE UNCHANGED vars
    BY <2>2, StutterInv
  <2> QED
    BY <2>1, <2>2
<1> QED
  BY <1>1, InvInit, TypeInvariant, PTL DEF Spec

\* A connection that is open is in the pool or in use by exactly one call,
\* in every reachable state, for any calls, connections and limit
\* (connPool.get and put, Client.roundTrip).
THEOREM ConnsOwnedAlways == Spec => []ConnsOwned
<1>1. TypeInv /\ IInv => ConnsOwned
  <2> SUFFICES ASSUME TypeInv, IInv, NEW k \in Conns
               PROVE  /\ link[k] # "none" => k \in Pooled \/ \E r \in Reqs : conn[r] = k
                      /\ \A r \in Reqs : conn[r] = k =>
                           k \notin Pooled /\ \A q \in Reqs : conn[q] = k => q = r
    BY DEF ConnsOwned
  <2> QED
    BY IpcAssumption DEF IInv, OwnerInv
<1> QED
  BY <1>1, Invariance, PTL

-----------------------------------------------------------------------------
(* The refinement.                                                         *)

\* Where a call is, for its caller, when only r goes to another label.
LEMMA StatusStep ==
    ASSUME TypeInv, NEW r \in Reqs, NEW label, Goto(r, label)
    PROVE  \A q \in Reqs : q # r => Status'[q] = Status[q]
BY DEF TypeInv, TypeOK, Goto, Status

\* A step that leaves every caller and every count alone.
LEMMA Stutter ==
    ASSUME TypeInv, runs' = runs, got' = got,
           \A r \in Reqs : Status'[r] = Status[r]
    PROVE  UNCHANGED Promise!vars
<1>1. Status' = Status
  BY DEF Status
<1> QED
  BY <1>1 DEF Promise!vars

\* A call that returns an error.
LEMMA FailStep ==
    ASSUME TypeInv, NEW r \in Reqs, Goto(r, "failed"), runs' = runs, got' = got,
           pc[r] \in {"dial", "write", "writeFresh", "read"}
    PROVE  Promise!Fail(r)
<1>1. Status[r] = "called" /\ Status'[r] = "failed"
  BY DEF TypeInv, TypeOK, Goto, Status
<1>2. Status' = [Status EXCEPT ![r] = "failed"]
  BY <1>1, StatusStep DEF Status
<1> QED
  BY <1>1, <1>2 DEF Promise!Fail

\* A call that goes on.
LEMMA GoOn ==
    ASSUME TypeInv, NEW r \in Reqs, NEW label \in {"dial", "write", "writeFresh", "read"},
           Goto(r, label), runs' = runs, got' = got,
           pc[r] \in {"get", "dial", "write", "writeFresh"}
    PROVE  UNCHANGED Promise!vars
<1>1. Status[r] = "called" /\ Status'[r] = "called"
  BY DEF TypeInv, TypeOK, Goto, Status
<1> QED
  BY <1>1, StatusStep, Stutter

\* The pooled client implements AtMostOnce: for any calls, connections and
\* limit of the pool, whatever is reused, sent again or lost when the service
\* dies, a request is executed at most once and an answer is that of its own
\* request (Client.roundTrip).
THEOREM KeepsPromiseAlways == Spec => KeepsPromise
<1> USE DEF TypeInv, TypeOK
<1>1. Init => Promise!Init
  BY DEF Init, Promise!Init, Status
<1>2. ASSUME TypeInv, IInv, [Next]_vars PROVE [Promise!Next]_(Promise!vars)
  <2> USE <1>2
  <2>1. ASSUME NEW r \in Reqs, Invoke(r) PROVE Promise!Call(r)
    <3>1. Goto(r, "get") /\ pc[r] = "idle" /\ runs' = runs /\ got' = got
      BY <2>1 DEF Invoke
    <3>2. Status[r] = "idle" /\ Status'[r] = "called"
      BY <3>1 DEF Goto, Status
    <3>3. Status' = [Status EXCEPT ![r] = "called"]
      <4>1. \A q \in Reqs : q # r => Status'[q] = Status[q]
        BY <3>1, StatusStep
      <4> QED
        BY <3>2, <4>1 DEF Status
    <3> QED
      BY <3>1, <3>2, <3>3 DEF Promise!Call
  <2>2. ASSUME NEW r \in Reqs, Get(r) PROVE UNCHANGED Promise!vars
    <3>1. pc[r] = "get" /\ runs' = runs /\ got' = got /\ (Goto(r, "write") \/ Goto(r, "dial"))
      BY <2>2 DEF Get
    <3> QED
      BY <3>1, GoOn
  <2>3. ASSUME NEW r \in Reqs, Dial(r) PROVE UNCHANGED Promise!vars \/ Promise!Fail(r)
    <3>1. pc[r] = "dial" /\ runs' = runs /\ got' = got /\ (Goto(r, "writeFresh") \/ Goto(r, "failed"))
      BY <2>3 DEF Dial
    <3> QED
      BY <3>1, GoOn, FailStep
  <2>4. ASSUME NEW r \in Reqs, Write(r) PROVE UNCHANGED Promise!vars \/ Promise!Fail(r)
    <3>1. /\ pc[r] \in {"write", "writeFresh"} /\ runs' = runs /\ got' = got
          /\ Goto(r, "read") \/ Goto(r, "dial") \/ Goto(r, "failed")
      BY <2>4 DEF Write
    <3> QED
      BY <3>1, GoOn, FailStep
  <2>5. ASSUME NEW r \in Reqs, ReadAnswer(r) PROVE Promise!Answer(r)
    <3>1. /\ pc[r] = "read" /\ outq[conn[r]] # <<>> /\ Goto(r, "put") /\ runs' = runs
          /\ got' = [got EXCEPT ![r] = Head(outq[conn[r]])]
      BY <2>5 DEF ReadAnswer
    <3>2. InFlight(r, conn[r])
      BY <3>1 DEF IInv, CallInv
    <3>3. outq[conn[r]] = <<r>> /\ runs[r] = 1
      BY <3>1, <3>2 DEF InFlight
    <3>4. got' = [got EXCEPT ![r] = r]
      BY <3>1, <3>3, OneFrame
    <3>5. Status[r] = "called" /\ Status'[r] = "answered"
      BY <3>1 DEF Goto, Status
    <3>6. Status' = [Status EXCEPT ![r] = "answered"]
      <4>1. \A q \in Reqs : q # r => Status'[q] = Status[q]
        BY <3>1, StatusStep
      <4> QED
        BY <3>5, <4>1 DEF Status
    <3> QED
      BY <3>1, <3>3, <3>4, <3>5, <3>6 DEF Promise!Answer
  <2>6. ASSUME NEW r \in Reqs, ReadFails(r) PROVE Promise!Fail(r)
    BY <2>6, FailStep DEF ReadFails
  <2>7. ASSUME NEW r \in Reqs, Put(r) PROVE UNCHANGED Promise!vars
    <3>1. pc[r] = "put" /\ Goto(r, "ok") /\ runs' = runs /\ got' = got
      BY <2>7 DEF Put
    <3>2. Status[r] = "answered" /\ Status'[r] = "answered"
      BY <3>1 DEF Goto, Status
    <3> QED
      BY <3>1, <3>2, StatusStep, Stutter
  <2>8. ASSUME NEW k \in Conns, HandleFrame(k) PROVE \E r \in Reqs : Promise!Execute(r)
    <3>1. /\ hpc[k] = "handle" /\ hreq[k] \in Reqs /\ pc' = pc /\ got' = got
          /\ runs' = [runs EXCEPT ![hreq[k]] = @ + 1]
      BY <2>8 DEF HandleFrame
    <3>2. ~Quiet(k)
      BY <3>1 DEF Quiet
    <3>3. PICK r \in Reqs : conn[r] = k /\ pc[r] = "read"
      BY <3>2 DEF IInv, QuietInv
    <3>4. hreq[k] = r /\ runs[r] = 0
      BY <3>1, <3>3 DEF IInv, CallInv, InFlight
    <3>5. runs' = [runs EXCEPT ![r] = 1]
      BY <3>1, <3>4
    <3>6. Status[r] = "called" /\ Status' = Status
      BY <3>1, <3>3 DEF Status
    <3> QED
      BY <3>1, <3>4, <3>5, <3>6 DEF Promise!Execute
  <2>9. ASSUME NEW k \in Conns, ReadRequest(k) \/ ReadEnd(k) \/ Reply(k)
        PROVE  UNCHANGED Promise!vars
    <3>1. pc' = pc /\ got' = got /\ runs' = runs
      BY <2>9 DEF ReadRequest, ReadEnd, Reply
    <3> QED
      BY <3>1 DEF Promise!vars, Status
  <2>10. ASSUME Crash \/ Restart \/ UNCHANGED vars PROVE UNCHANGED Promise!vars
    <3>1. pc' = pc /\ got' = got /\ runs' = runs
      BY <2>10 DEF Crash, Restart, vars
    <3> QED
      BY <3>1 DEF Promise!vars, Status
  <2>11. CASE Next
    BY <2>11, <2>1, <2>2, <2>3, <2>4, <2>5, <2>6, <2>7, <2>8, <2>9, <2>10, NextCases DEF Promise!Next
  <2> QED
    BY <2>10, <2>11
<1> QED
  BY <1>1, <1>2, Invariance, PTL DEF Spec, KeepsPromise, Promise!Spec

=============================================================================
