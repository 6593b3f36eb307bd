--------------------------- MODULE AgentRunProofs ---------------------------
(* Proofs about AgentRun, for any runs, conversations, invocations and     *)
(* tools.                                                                  *)
EXTENDS AgentRun, TLAPS

\* Where a run works on an invocation, and from where on it may execute it.
Working == {"insert", "register", "await", "refused", "withdraw", "drop",
            "check", "approved", "mark", "start", "recheck", "send", "reply",
            "settle", "failed"}
Cleared == {"check", "approved", "mark", "start", "recheck", "send"}
Waiting == {"await", "withdraw"}

\* A run at work has an invocation of its own, and so has a waiter.
CurInv ==
    /\ \A r \in Runs : rpc[r] \in Working => cur[r] \in Invs /\ of[cur[r]] = r
    /\ \A i \in waiters : of[i] \in Runs

TypeInv == TypeOK /\ CurInv

\* Nobody has answered for i and nothing was done for it.
Untouched(i) ==
    decision[i] = "none" /\ chan[i] = "empty" /\ sending[i] = "none" /\ exec[i] = "none"

\* The user has permitted i, in one of the three scopes, or need not.
Allowed(i) ==
    /\ decision[i] # "reject"
    /\ tool[i] \in Risky =>
         \/ decision[i] = "approve"
         \/ <<of[i], tool[i]>> \in granted
         \/ <<conv[of[i]], tool[i]>> \in granted

\* An invocation is untouched until its run waits for it; a run that has an
\* invocation was launched, so its conversation is fixed.
FreshInv ==
    /\ \A i \in Invs : of[i] = NoRun => Untouched(i)
    /\ \A r \in Runs : rpc[r] \in {"insert", "register"} => Untouched(cur[r])
    /\ \A i \in Invs : of[i] # NoRun => rpc[of[i]] # "none"

\* The gate remembers only what the user granted.
TrustInv == runTrust \subseteq granted /\ convTrust \subseteq granted

\* A waiter's run waits for it and nobody has answered; an answer on its way
\* to its channel finds room there and is the user's.
GateInv ==
    /\ \A i \in waiters : Untouched(i) /\ cur[of[i]] = i /\ rpc[of[i]] \in Waiting
    /\ \A i \in Invs : sending[i] # "none" => chan[i] = "empty"
    /\ \A i \in Invs : sending[i] = "yes" \/ chan[i] = "yes" => decision[i] = "approve"

\* What executes, or is about to, is allowed.
AllowedInv ==
    /\ \A r \in Runs : rpc[r] \in Cleared => Allowed(cur[r])
    /\ \A i \in Invs : exec[i] # "none" => Allowed(i)

IInv == FreshInv /\ TrustInv /\ GateInv /\ AllowedInv

\* Of the invocations that are not missed, only the one a run works on may be
\* open, or have no row yet; every other was answered, or the Cancel that
\* closed it is about to answer it.
TableInv ==
    /\ \A i \in Invs : row[i] \in Open /\ i \notin missed =>
         of[i] \in Runs /\ cur[of[i]] = i /\ rpc[of[i]] \in Working
    /\ \A i \in Invs : row[i] = "none" /\ i \notin missed /\ of[i] # NoRun =>
         cur[of[i]] = i /\ rpc[of[i]] = "insert"
    /\ \A i \in Invs : of[i] = NoRun => row[i] = "none"
    /\ \A i \in Invs : row[i] \in Terminal /\ i \notin results /\ i \notin missed => i \in out[of[i]]
    /\ \A r \in Runs : \A i \in opened[r] \cup out[r] : of[i] = r
    /\ \A r \in Runs : out[r] # {} => cpc[r] = "update"

\* Cancel has not called back yet.
Unfired == {"idle", "reject", "cancel", "fire"}

\* A query is sent once, after its callback was registered, and stays
\* registered until Cancel fires; Cancel fires after it cancels the context.
QueryInv ==
    /\ \A r \in Runs : rpc[r] \in Working \ {"reply", "settle", "failed"} => exec[cur[r]] = "none"
    /\ \A r \in Runs : cpc[r] \in {"idle", "reject", "cancel"} \/ r \in ctxDone
    /\ \A r \in Runs : rpc[r] \in {"recheck", "send"} /\ tool[cur[r]] \in Queries /\ cpc[r] \in Unfired =>
         cur[r] \in stops[r]
    /\ \A i \in Invs : exec[i] \in {"sent", "executing"} /\ tool[i] \in Queries /\ cpc[of[i]] \in Unfired =>
         i \in stops[of[i]]
    /\ \A i \in live : exec[i] \notin {"none", "sent"}
    /\ CancelReachesQuery

USE DEF cancelling, run, ids, table, gate, service, history

-----------------------------------------------------------------------------
(* Types.                                                                  *)

\* Next, one disjunct per action.
LEMMA NextCases ==
    ASSUME Next
    PROVE
      \/ \E r \in Runs : Launch(r) \/ Loop(r) \/ Stream(r) \/ NextCall(r) \/ Close(r)
      \/ \E r \in Runs : Insert(r) \/ Register(r) \/ Await(r) \/ Refused(r) \/ Withdraw(r)
      \/ \E r \in Runs : Drop(r) \/ Check(r) \/ Mark(r) \/ Start(r) \/ Recheck(r)
      \/ \E r \in Runs : Send(r) \/ Reply(r) \/ Settle(r)
      \/ \E r \in Runs : Take(r) \/ CancelReject(r) \/ CancelContext(r) \/ CancelFire(r)
      \/ \E r \in Runs : CancelSelect(r) \/ CancelUpdate(r) \/ CancelResults(r) \/ CancelStatus(r)
      \/ \E i \in Invs : Decide(i) \/ SendDecision(i) \/ Begin(i) \/ Finish(i)
BY DEF Next, Invoke, Cancel

LEMMA AnyInSets == AnyConv \in Conversations /\ AnyTool \in Tools
BY AgentAssumption DEF AnyConv, AnyTool

LEMMA TypeInvariant == Spec => []TypeInv
<1>1. Init => TypeInv
  BY AnyInSets, AgentAssumption DEF Init, TypeInv, TypeOK, CurInv, RunPCs, CancelPCs, Working, Open, Terminal
<1>2. TypeInv /\ [Next]_vars => TypeInv'
  <2> SUFFICES ASSUME TypeInv, [Next]_vars PROVE TypeInv'
    OBVIOUS
  <2> USE AgentAssumption DEF TypeInv, TypeOK, CurInv, RunPCs, CancelPCs, Working, Open, Terminal
  <2>1. ASSUME NEW r \in Runs, Launch(r) PROVE TypeInv'
    BY <2>1 DEF Launch, Goto
  <2>2. ASSUME NEW r \in Runs, Loop(r) PROVE TypeInv'
    BY <2>2 DEF Loop, Goto, PublishEnd
  <2>3. ASSUME NEW r \in Runs, Stream(r) PROVE TypeInv'
    BY <2>3 DEF Stream, Goto, PublishEnd
  <2>4. ASSUME NEW r \in Runs, NextCall(r) PROVE TypeInv'
    <3>1. CASE UNCHANGED <<cur, ids>>
      BY <2>4, <3>1 DEF NextCall, Goto
    <3>2. ASSUME NEW i \in Invs, NEW t \in Tools, of[i] = NoRun, cur' = [cur EXCEPT ![r] = i],
                 of' = [of EXCEPT ![i] = r], tool' = [tool EXCEPT ![i] = t], Goto(r, "insert")
          PROVE  TypeInv'
      <4>1. TypeOK'
        BY <2>4, <3>2 DEF NextCall, Goto
      <4>2. \A q \in Runs : rpc'[q] \in Working => cur'[q] \in Invs /\ of'[cur'[q]] = q
        BY <2>4, <3>2 DEF NextCall, Goto
      <4>3. \A j \in waiters' : of'[j] \in Runs
        BY <2>4, <3>2 DEF NextCall
      <4> QED
        BY <4>1, <4>2, <4>3
    <3> QED
      BY <2>4, <3>1, <3>2 DEF NextCall
  <2>5. ASSUME NEW r \in Runs, Close(r) PROVE TypeInv'
    BY <2>5 DEF Close, Goto
  <2>6. ASSUME NEW r \in Runs, Insert(r) PROVE TypeInv'
    BY <2>6, SMTT(30) DEF Insert, Goto, WriteFails
  <2>7. ASSUME NEW r \in Runs, Register(r) PROVE TypeInv'
    BY <2>7 DEF Register, Goto
  <2>8. ASSUME NEW r \in Runs, Await(r) PROVE TypeInv'
    <3>1. chan' \in [Invs -> {"empty", "yes", "no"}] /\ rpc' \in [Runs -> RunPCs]
      BY <2>8 DEF Await, Goto
    <3>2. rpc[r] = "await" /\ \A q \in Runs : q # r => rpc'[q] = rpc[q]
      BY <2>8 DEF Await, Goto
    <3>3. UNCHANGED <<waiters, runTrust, convTrust, sending, cur, conv, cancelling, ids, table, service, ended, history>>
      BY <2>8 DEF Await
    <3> QED
      BY <3>1, <3>2, <3>3
  <2>9. ASSUME NEW r \in Runs, Refused(r) PROVE TypeInv'
    BY <2>9 DEF Refused, Goto, Continue, SetRow, WriteFails, PublishResult
  <2>10. ASSUME NEW r \in Runs, Withdraw(r) PROVE TypeInv'
    BY <2>10 DEF Withdraw, Goto
  <2>11. ASSUME NEW r \in Runs, Drop(r) PROVE TypeInv'
    BY <2>11 DEF Drop, Goto, SetRow, SetRowIfOpen, WriteFails, PublishResult
  <2>12. ASSUME NEW r \in Runs, Check(r) PROVE TypeInv'
    BY <2>12 DEF Check, Goto
  <2>13. ASSUME NEW r \in Runs, Mark(r) PROVE TypeInv'
    BY <2>13, SMTT(30) DEF Mark, Goto, SetRow
  <2>14. ASSUME NEW r \in Runs, Start(r) PROVE TypeInv'
    BY <2>14, SMTT(30) DEF Start, Goto
  <2>15. ASSUME NEW r \in Runs, Recheck(r) PROVE TypeInv'
    BY <2>15 DEF Recheck, Goto
  <2>16. ASSUME NEW r \in Runs, Send(r) PROVE TypeInv'
    BY <2>16, SMTT(30) DEF Send, Goto
  <2>17. ASSUME NEW r \in Runs, Reply(r) PROVE TypeInv'
    BY <2>17, SMTT(30) DEF Reply, Goto
  <2>18. ASSUME NEW r \in Runs, Settle(r) PROVE TypeInv'
    BY <2>18 DEF Settle, Goto, Continue, SetRow, SetRowIfOpen, WriteFails, PublishResult
  <2>19. ASSUME NEW r \in Runs, Take(r) PROVE TypeInv'
    BY <2>19 DEF Take, CancelStep
  <2>20. ASSUME NEW r \in Runs, CancelReject(r) PROVE TypeInv'
    BY <2>20 DEF CancelReject, RejectRun, CancelStep
  <2>21. ASSUME NEW r \in Runs, CancelContext(r) PROVE TypeInv'
    BY <2>21 DEF CancelContext, CancelStep
  <2>22. ASSUME NEW r \in Runs, CancelFire(r) PROVE TypeInv'
    BY <2>22 DEF CancelFire, CancelStep
  <2>23. ASSUME NEW r \in Runs, CancelSelect(r) PROVE TypeInv'
    BY <2>23 DEF CancelSelect, CancelStep
  <2>24. ASSUME NEW r \in Runs, CancelUpdate(r) PROVE TypeInv'
    <3>1. UNCHANGED <<results, registered, ctxDone, stops, run, ids, gate, service, ended, history>>
      BY <2>24 DEF CancelUpdate
    <3>2. row' \in [Invs -> Open \cup Terminal \cup {"none"}]
      BY <2>24 DEF CancelUpdate
    <3>3. PICK i \in opened[r] :
            \/ /\ opened' = [opened EXCEPT ![r] = @ \ {i}] /\ out' = [out EXCEPT ![r] = @ \cup {i}]
               /\ UNCHANGED <<cpc, missed>>
            \/ /\ CancelStep(r, "update", "status") /\ missed' = missed \cup (out[r] \ results)
               /\ opened' = [opened EXCEPT ![r] = {}] /\ out' = [out EXCEPT ![r] = {}]
      BY <2>24 DEF CancelUpdate
    <3>4. i \in Invs
      BY <3>3
    <3>5. cpc' \in [Runs -> CancelPCs] /\ missed' \subseteq Invs
      BY <3>3 DEF CancelStep
    <3>6. opened' \in [Runs -> SUBSET Invs] /\ out' \in [Runs -> SUBSET Invs]
      <4>1. CASE opened' = [opened EXCEPT ![r] = @ \ {i}] /\ out' = [out EXCEPT ![r] = @ \cup {i}]
        <5>1. opened[r] \ {i} \in SUBSET Invs /\ out[r] \cup {i} \in SUBSET Invs
          BY <3>4
        <5> QED
          BY <4>1, <5>1, SMTT(30)
      <4>2. CASE opened' = [opened EXCEPT ![r] = {}] /\ out' = [out EXCEPT ![r] = {}]
        BY <4>2, SMTT(30)
      <4> QED
        BY <3>3, <4>1, <4>2
    <3>7. TypeOK'
      BY <3>1, <3>2, <3>5, <3>6, SMTT(30) DEF run, ids, gate, service, history
    <3>8. CurInv'
      BY <3>1 DEF run, ids, gate
    <3> QED
      BY <3>7, <3>8
  <2>25. ASSUME NEW r \in Runs, CancelResults(r) PROVE TypeInv'
    BY <2>25 DEF CancelResults, CancelStep, PublishResult
  <2>26. ASSUME NEW r \in Runs, CancelStatus(r) PROVE TypeInv'
    BY <2>26 DEF CancelStatus, CancelStep, PublishEnd
  <2>27. ASSUME NEW i \in Invs, Decide(i) PROVE TypeInv'
    BY <2>27 DEF Decide, Remember
  <2>28. ASSUME NEW i \in Invs, SendDecision(i) PROVE TypeInv'
    BY <2>28 DEF SendDecision
  <2>29. ASSUME NEW i \in Invs, Begin(i) PROVE TypeInv'
    BY <2>29 DEF Begin
  <2>30. ASSUME NEW i \in Invs, Finish(i) PROVE TypeInv'
    BY <2>30 DEF Finish
  <2>31. CASE UNCHANGED vars
    BY <2>31 DEF vars
  <2> QED
    BY <2>1, <2>2, <2>3, <2>4, <2>5, <2>6, <2>7, <2>8, <2>9, <2>10, <2>11, <2>12, <2>13,
       <2>14, <2>15, <2>16, <2>17, <2>18, <2>19, <2>20, <2>21, <2>22, <2>23, <2>24, <2>25,
       <2>26, <2>27, <2>28, <2>29, <2>30, <2>31, NextCases
<1> QED
  BY <1>1, <1>2, PTL DEF Spec

\* Every reachable state of the loop, the gate, the table and Cancel is well
\* typed, for any constants.
THEOREM TypeCorrect == Spec => []TypeOK
<1>1. TypeInv => TypeOK
  BY DEF TypeInv
<1> QED
  BY <1>1, TypeInvariant, PTL

-----------------------------------------------------------------------------
(* Permissions.                                                            *)

\* What IInv is about, without where the runs are.
moved == <<cur, conv, of, tool, waiters, chan, runTrust, convTrust, sending, exec, decision, granted>>

\* A run goes on, and neither to, nor from, its wait for the user.
LEMMA MoveInv ==
    ASSUME TypeInv, IInv, NEW r \in Runs, NEW l \in RunPCs, Goto(r, l), UNCHANGED moved,
           rpc[r] \notin Waiting, rpc[r] # "none",
           l \notin Waiting \cup {"none", "insert", "register"},
           l \in Cleared => rpc[r] \in Cleared
    PROVE  IInv'
<1> USE DEF TypeInv, TypeOK, IInv, moved
<1>1. rpc' = [rpc EXCEPT ![r] = l]
  BY DEF Goto
<1>2. FreshInv'
  BY <1>1 DEF FreshInv, Untouched
<1>3. TrustInv'
  BY DEF TrustInv
<1>4. GateInv'
  BY <1>1 DEF GateInv, Untouched, CurInv
<1>5. AllowedInv'
  BY <1>1 DEF AllowedInv, Allowed
<1> QED
  BY <1>2, <1>3, <1>4, <1>5

\* Nothing that IInv is about changes, or the service goes on with what it has.
LEMMA ServiceInv ==
    ASSUME TypeInv, IInv, rpc' = rpc, cur' = cur, conv' = conv, of' = of, tool' = tool,
           waiters' = waiters, chan' = chan, runTrust' = runTrust, convTrust' = convTrust,
           sending' = sending, decision' = decision, granted' = granted,
           \A i \in Invs : exec'[i] = "none" <=> exec[i] = "none"
    PROVE  IInv'
<1> USE DEF TypeInv, TypeOK, CurInv, IInv
<1>1. FreshInv'
  BY DEF FreshInv, Untouched, Working
<1>2. TrustInv'
  BY DEF TrustInv
<1>3. GateInv'
  BY DEF GateInv, Untouched
<1>4. AllowedInv'
  BY DEF AllowedInv, Allowed
<1> QED
  BY <1>1, <1>2, <1>3, <1>4

LEMMA LaunchInv ==
    ASSUME TypeInv, IInv, NEW r \in Runs, Launch(r)
    PROVE  IInv'
<1> USE DEF TypeInv, TypeOK, CurInv, IInv
<1>1. rpc[r] = "none" /\ rpc' = [rpc EXCEPT ![r] = "loop"] /\ UNCHANGED <<cur, ids, gate, exec, history>>
  BY DEF Launch, Goto
<1>2. \A q \in Runs : q # r => conv'[q] = conv[q]
  BY DEF Launch
<1>3. \A i \in Invs : of[i] # r
  BY <1>1, AgentAssumption DEF FreshInv
<1>4. \A i \in Invs : of[i] # NoRun /\ Allowed(i) => Allowed(i)'
  BY <1>1, <1>2, <1>3, SMTT(30) DEF Allowed
<1>5. FreshInv'
  BY <1>1 DEF FreshInv, Untouched
<1>6. TrustInv'
  BY <1>1 DEF TrustInv
<1>7. GateInv'
  BY <1>1, <1>3 DEF GateInv, Untouched, Waiting
<1>8. AllowedInv'
  <2>1. \A i \in Invs : exec[i] # "none" => of[i] # NoRun
    BY DEF FreshInv, Untouched
  <2>2. \A q \in Runs : rpc'[q] \in Cleared => rpc[q] \in Cleared /\ cur[q] \in Invs /\ of[cur[q]] # NoRun
    BY <1>1, AgentAssumption DEF Cleared, Working
  <2> QED
    BY <1>1, <1>4, <2>1, <2>2 DEF AllowedInv
<1> QED
  BY <1>5, <1>6, <1>7, <1>8

LEMMA NextCallInv ==
    ASSUME TypeInv, IInv, NEW r \in Runs, NextCall(r)
    PROVE  IInv'
<1> USE DEF TypeInv, TypeOK, IInv
<1>1. CASE UNCHANGED <<cur, ids>>
  <2>1. UNCHANGED moved /\ rpc[r] = "calls"
    BY <1>1 DEF NextCall, moved
  <2>2. Goto(r, "closing") \/ Goto(r, "loop") \/ Goto(r, "insert")
    BY DEF NextCall
  <2>3. ~Goto(r, "insert") \/ \E i \in Invs : of[i] = NoRun /\ of' = [of EXCEPT ![i] = r]
    BY DEF NextCall, Goto
  <2>4. ~Goto(r, "insert")
    BY <1>1, <2>3, AgentAssumption
  <2> QED
    BY <2>1, <2>2, <2>4, MoveInv DEF RunPCs, Waiting, Cleared
<1>2. ASSUME NEW i \in Invs, NEW t \in Tools, of[i] = NoRun, cur' = [cur EXCEPT ![r] = i],
             of' = [of EXCEPT ![i] = r], tool' = [tool EXCEPT ![i] = t], Goto(r, "insert")
      PROVE  IInv'
  <2>1. rpc[r] = "calls" /\ rpc' = [rpc EXCEPT ![r] = "insert"] /\ UNCHANGED <<conv, gate, exec, history>>
    BY <1>2 DEF NextCall, Goto
  <2>2. Untouched(i) /\ i \notin waiters /\ exec[i] = "none"
    BY <1>2, AgentAssumption DEF FreshInv, Untouched, CurInv
  <2>3. \A j \in Invs : j # i => of'[j] = of[j] /\ tool'[j] = tool[j]
    BY <1>2
  <2>4. \A q \in Runs : q # r => cur'[q] = cur[q] /\ rpc'[q] = rpc[q]
    BY <1>2, <2>1
  <2>5. \A j \in Invs : Untouched(j) => Untouched(j)'
    BY <2>1 DEF Untouched
  <2>6. FreshInv'
    BY <1>2, <2>1, <2>2, <2>3, <2>4, <2>5 DEF FreshInv, CurInv, Working
  <2>7. TrustInv'
    BY <2>1 DEF TrustInv
  <2>8. GateInv'
    <3>1. \A j \in waiters : j # i /\ of'[j] = of[j] /\ of[j] # r
      BY <2>1, <2>2, <2>3 DEF GateInv, Waiting
    <3> QED
      BY <2>1, <2>4, <2>5, <3>1 DEF GateInv, CurInv
  <2>9. AllowedInv'
    <3>1. \A j \in Invs : j # i /\ Allowed(j) => Allowed(j)'
      BY <2>1, <2>3 DEF Allowed
    <3>2. \A q \in Runs : rpc'[q] \in Cleared => rpc[q] \in Cleared /\ cur'[q] = cur[q] /\ cur[q] # i /\ cur[q] \in Invs
      BY <1>2, <2>1, <2>4, AgentAssumption DEF Cleared, Working, CurInv
    <3> QED
      BY <2>1, <2>2, <3>1, <3>2 DEF AllowedInv
  <2> QED
    BY <2>6, <2>7, <2>8, <2>9
<1> QED
  BY <1>1, <1>2 DEF NextCall

LEMMA CloseInv ==
    ASSUME TypeInv, IInv, NEW r \in Runs, Close(r)
    PROVE  IInv'
<1> USE DEF TypeInv, TypeOK, IInv
<1>1. /\ rpc[r] = "closing" /\ rpc' = [rpc EXCEPT ![r] = "ended"]
      /\ cur' = [cur EXCEPT ![r] = NoInv] /\ UNCHANGED <<conv, ids, gate, exec, history>>
  BY DEF Close, Goto
<1>2. FreshInv'
  BY <1>1 DEF FreshInv, Untouched
<1>3. TrustInv'
  BY <1>1 DEF TrustInv
<1>4. GateInv'
  <2>1. \A i \in waiters : of[i] # r
    BY <1>1 DEF GateInv, Waiting
  <2> QED
    BY <1>1, <2>1 DEF GateInv, Untouched, CurInv
<1>5. AllowedInv'
  BY <1>1 DEF AllowedInv, Allowed, Cleared
<1> QED
  BY <1>2, <1>3, <1>4, <1>5

LEMMA InsertInv ==
    ASSUME TypeInv, IInv, NEW r \in Runs, Insert(r)
    PROVE  IInv'
<1> USE DEF TypeInv, TypeOK, IInv
<1>1. rpc[r] = "insert" /\ UNCHANGED moved /\ cur[r] \in Invs /\ of[cur[r]] = r
  BY DEF Insert, moved, CurInv, Working
<1>2. Untouched(cur[r])
  BY <1>1 DEF FreshInv
<1>3. CASE Goto(r, "register")
  <2>1. rpc' = [rpc EXCEPT ![r] = "register"]
    BY <1>3 DEF Goto
  <2>2. FreshInv'
    BY <1>1, <1>2, <2>1 DEF FreshInv, Untouched, moved
  <2>3. TrustInv'
    BY <1>1 DEF TrustInv, moved
  <2>4. GateInv'
    BY <1>1, <2>1 DEF GateInv, Untouched, CurInv, Waiting, moved
  <2>5. AllowedInv'
    BY <1>1, <2>1 DEF AllowedInv, Allowed, Cleared, moved
  <2> QED
    BY <2>2, <2>3, <2>4, <2>5
<1>4. CASE Goto(r, "check") /\ (tool[cur[r]] \in Risky => Trusted(r, tool[cur[r]]))
  <2>1. rpc' = [rpc EXCEPT ![r] = "check"]
    BY <1>4 DEF Goto
  <2>2. FreshInv'
    BY <1>1, <2>1 DEF FreshInv, Untouched, moved
  <2>3. TrustInv'
    BY <1>1 DEF TrustInv, moved
  <2>4. GateInv'
    BY <1>1, <2>1 DEF GateInv, Untouched, CurInv, Waiting, moved
  <2>5. Allowed(cur[r])
    BY <1>1, <1>2, <1>4 DEF Allowed, Untouched, Trusted, TrustInv
  <2>6. AllowedInv'
    <3>1. \A i \in Invs : Allowed(i) => Allowed(i)'
      BY <1>1 DEF Allowed, moved
    <3>2. \A q \in Runs : rpc'[q] \in Cleared => cur[q] \in Invs /\ Allowed(cur[q])
      BY <1>1, <2>1, <2>5 DEF AllowedInv, CurInv, Cleared, Working
    <3> QED
      BY <1>1, <3>1, <3>2 DEF AllowedInv, moved
  <2> QED
    BY <2>2, <2>3, <2>4, <2>6
<1>5. \/ Goto(r, "register")
      \/ Goto(r, "check") /\ (tool[cur[r]] \in Risky => Trusted(r, tool[cur[r]]))
  BY DEF Insert
<1> QED
  BY <1>3, <1>4, <1>5

LEMMA RegisterInv ==
    ASSUME TypeInv, IInv, NEW r \in Runs, Register(r)
    PROVE  IInv'
<1> USE DEF TypeInv, TypeOK, IInv
<1>1. /\ rpc[r] = "register" /\ rpc' = [rpc EXCEPT ![r] = "await"] /\ waiters' = waiters \cup {cur[r]}
      /\ UNCHANGED <<cur, conv, ids, chan, runTrust, convTrust, sending, exec, history>>
  BY DEF Register, Goto
<1>2. cur[r] \in Invs /\ of[cur[r]] = r /\ Untouched(cur[r])
  BY <1>1 DEF FreshInv, CurInv, Working
<1>3. FreshInv'
  BY <1>1 DEF FreshInv, Untouched
<1>4. TrustInv'
  BY <1>1 DEF TrustInv
<1>5. GateInv'
  BY <1>1, <1>2 DEF GateInv, Untouched, CurInv, Waiting
<1>6. AllowedInv'
  BY <1>1 DEF AllowedInv, Allowed, Cleared
<1> QED
  BY <1>3, <1>4, <1>5, <1>6

LEMMA AwaitInv ==
    ASSUME TypeInv, IInv, NEW r \in Runs, Await(r)
    PROVE  IInv'
<1> USE DEF TypeInv, TypeOK, IInv
<1>1. /\ rpc[r] = "await" /\ cur[r] \in Invs /\ of[cur[r]] = r
      /\ UNCHANGED <<cur, conv, ids, waiters, runTrust, convTrust, sending, exec, history>>
  BY DEF Await, CurInv, Working
<1>2. ASSUME Goto(r, "withdraw"), chan' = chan PROVE IInv'
  <2>1. rpc' = [rpc EXCEPT ![r] = "withdraw"]
    BY <1>2 DEF Goto
  <2>2. FreshInv'
    BY <1>1, <1>2, <2>1 DEF FreshInv, Untouched
  <2>3. TrustInv'
    BY <1>1 DEF TrustInv
  <2>4. GateInv'
    BY <1>1, <1>2, <2>1 DEF GateInv, Untouched, CurInv, Waiting
  <2>5. AllowedInv'
    BY <1>1, <2>1 DEF AllowedInv, Allowed, Cleared
  <2> QED
    BY <2>2, <2>3, <2>4, <2>5
<1>3. ASSUME NEW l \in {"approved", "refused"}, Goto(r, l), chan[cur[r]] # "empty",
             l = "approved" => chan[cur[r]] = "yes", chan' = [chan EXCEPT ![cur[r]] = "empty"]
      PROVE  IInv'
  <2>1. rpc' = [rpc EXCEPT ![r] = l]
    BY <1>3 DEF Goto
  <2>2. \A i \in waiters : i # cur[r] /\ of[i] # r
    BY <1>1, <1>3 DEF GateInv, Untouched
  <2>3. \A i \in Invs : Untouched(i) => Untouched(i)'
    BY <1>1, <1>3 DEF Untouched
  <2>4. FreshInv'
    <3>1. \A q \in Runs : rpc'[q] \in {"insert", "register"} =>
            rpc[q] \in {"insert", "register"} /\ cur[q] \in Invs
      BY <2>1 DEF CurInv, Working
    <3>2. \A q \in Runs : rpc[q] # "none" => rpc'[q] # "none"
      BY <2>1
    <3> QED
      BY <1>1, <2>3, <3>1, <3>2, AgentAssumption DEF FreshInv
  <2>5. TrustInv'
    BY <1>1 DEF TrustInv
  <2>6. GateInv'
    BY <1>1, <1>3, <2>1, <2>2, <2>3 DEF GateInv, CurInv
  <2>7. l = "approved" => Allowed(cur[r])
    BY <1>1, <1>3 DEF GateInv, Allowed
  <2>8. AllowedInv'
    <3>1. \A i \in Invs : Allowed(i) => Allowed(i)'
      BY <1>1 DEF Allowed
    <3>2. \A q \in Runs : rpc'[q] \in Cleared => cur[q] \in Invs /\ Allowed(cur[q])
      BY <1>1, <1>3, <2>1, <2>7 DEF AllowedInv, CurInv, Cleared, Working
    <3> QED
      BY <1>1, <3>1, <3>2 DEF AllowedInv
  <2> QED
    BY <2>4, <2>5, <2>6, <2>8
<1> QED
  BY <1>2, <1>3 DEF Await

LEMMA WithdrawInv ==
    ASSUME TypeInv, IInv, NEW r \in Runs, Withdraw(r)
    PROVE  IInv'
<1> USE DEF TypeInv, TypeOK, IInv
<1>1. /\ rpc[r] = "withdraw" /\ rpc' = [rpc EXCEPT ![r] = "drop"] /\ waiters' = waiters \ {cur[r]}
      /\ UNCHANGED <<cur, conv, ids, chan, runTrust, convTrust, sending, exec, history>>
  BY DEF Withdraw, Goto
<1>2. FreshInv'
  BY <1>1 DEF FreshInv, Untouched
<1>3. TrustInv'
  BY <1>1 DEF TrustInv
<1>4. GateInv'
  BY <1>1 DEF GateInv, Untouched, CurInv
<1>5. AllowedInv'
  BY <1>1 DEF AllowedInv, Allowed, Cleared
<1> QED
  BY <1>2, <1>3, <1>4, <1>5

LEMMA SendInv ==
    ASSUME TypeInv, IInv, NEW r \in Runs, Send(r)
    PROVE  IInv'
<1> USE DEF TypeInv, TypeOK, IInv
<1>1. /\ rpc[r] = "send" /\ cur[r] \in Invs /\ of[cur[r]] = r
      /\ UNCHANGED <<cur, conv, ids, gate, history>>
  BY DEF Send, CurInv, Working
<1>2. CASE Goto(r, "failed") /\ exec' = exec
  <2>1. UNCHANGED moved
    BY <1>1, <1>2 DEF moved
  <2> QED
    BY <1>1, <1>2, <2>1, MoveInv DEF RunPCs, Waiting, Cleared
<1>3. ASSUME Goto(r, "reply"), exec' = [exec EXCEPT ![cur[r]] = "sent"] PROVE IInv'
  <2>1. rpc' = [rpc EXCEPT ![r] = "reply"]
    BY <1>3 DEF Goto
  <2>2. \A i \in Invs : i # cur[r] /\ Untouched(i) => Untouched(i)'
    BY <1>1, <1>3 DEF Untouched
  <2>3. FreshInv'
    <3>1. \A q \in Runs : rpc[q] \in {"insert", "register"} => q # r /\ cur[q] # cur[r] /\ cur[q] \in Invs
      BY <1>1 DEF CurInv, Working
    <3> QED
      BY <1>1, <2>1, <2>2, <3>1, AgentAssumption DEF FreshInv
  <2>4. TrustInv'
    BY <1>1 DEF TrustInv
  <2>5. GateInv'
    <3>1. \A i \in waiters : i # cur[r] /\ of[i] # r
      BY <1>1 DEF GateInv, Waiting
    <3> QED
      BY <1>1, <2>1, <2>2, <3>1 DEF GateInv, CurInv
  <2>6. AllowedInv'
    <3>1. Allowed(cur[r])
      BY <1>1 DEF AllowedInv, Cleared
    <3>2. \A i \in Invs : Allowed(i) => Allowed(i)'
      BY <1>1 DEF Allowed
    <3> QED
      BY <1>1, <1>3, <2>1, <3>1, <3>2 DEF AllowedInv, CurInv, Cleared, Working
  <2> QED
    BY <2>3, <2>4, <2>5, <2>6
<1> QED
  BY <1>2, <1>3 DEF Send

LEMMA CancelRejectInv ==
    ASSUME TypeInv, IInv, NEW r \in Runs, CancelReject(r)
    PROVE  IInv'
<1> USE DEF TypeInv, TypeOK, IInv
<1> DEFINE victims == {i \in waiters : of[i] = r}
<1>1. /\ waiters' = waiters \ victims
      /\ runTrust' = {p \in runTrust : p[1] # r}
      /\ chan' = [i \in Invs |-> IF i \in victims /\ chan[i] = "empty" THEN "no" ELSE chan[i]]
      /\ UNCHANGED <<convTrust, sending, run, ids, exec, history>>
  BY DEF CancelReject, RejectRun
<1>2. \A i \in Invs : Untouched(i) /\ i \notin victims => Untouched(i)'
  BY <1>1 DEF Untouched
<1>3. \A i \in victims : i \in Invs /\ of[i] = r /\ sending[i] = "none" /\ cur[r] = i /\ rpc[r] \in Waiting
  BY DEF GateInv, Untouched
<1>4. FreshInv'
  <2>1. \A i \in Invs : of[i] = NoRun => i \notin victims
    BY AgentAssumption
  <2>2. \A q \in Runs : rpc[q] \in {"insert", "register"} => cur[q] \in Invs /\ cur[q] \notin victims
    BY <1>3 DEF CurInv, Working, Waiting
  <2> QED
    BY <1>1, <1>2, <2>1, <2>2 DEF FreshInv
<1>5. TrustInv'
  BY <1>1 DEF TrustInv
<1>6. GateInv'
  <2>1. \A i \in waiters' : Untouched(i)' /\ cur'[of'[i]] = i /\ rpc'[of'[i]] \in Waiting
    BY <1>1, <1>2 DEF GateInv
  <2>2. \A i \in Invs : sending'[i] # "none" => chan'[i] = "empty"
    BY <1>1, <1>3 DEF GateInv
  <2>3. \A i \in Invs : sending'[i] = "yes" \/ chan'[i] = "yes" => decision'[i] = "approve"
    BY <1>1 DEF GateInv
  <2> QED
    BY <2>1, <2>2, <2>3 DEF GateInv
<1>7. AllowedInv'
  BY <1>1 DEF AllowedInv, Allowed
<1> QED
  BY <1>4, <1>5, <1>6, <1>7

LEMMA DecideInv ==
    ASSUME TypeInv, IInv, NEW i \in Invs, Decide(i)
    PROVE  IInv'
<1> USE DEF TypeInv, TypeOK, IInv
<1>1. /\ i \in waiters /\ waiters' = waiters \ {i} /\ of[i] \in Runs /\ Untouched(i)
      /\ cur[of[i]] = i /\ rpc[of[i]] \in Waiting
      /\ UNCHANGED <<chan, run, ids, exec>>
  BY DEF Decide, CurInv, GateInv
<1>2. \A j \in Invs : j # i => sending'[j] = sending[j] /\ decision'[j] = decision[j]
  BY DEF Decide
<1>3. \/ sending'[i] = "yes" /\ decision'[i] = "approve"
      \/ sending'[i] = "no" /\ decision'[i] = "reject"
  BY DEF Decide
<1>4. granted \subseteq granted' /\ TrustInv'
  BY DEF Decide, Remember, TrustInv
<1>5. \A j \in Invs : j # i /\ Untouched(j) => Untouched(j)'
  BY <1>1, <1>2 DEF Untouched
<1>6. \A j \in Invs : j # i /\ Allowed(j) => Allowed(j)'
  BY <1>1, <1>2, <1>4 DEF Allowed
<1>7. FreshInv'
  <2>1. \A q \in Runs : rpc[q] \in {"insert", "register"} => cur[q] \in Invs /\ cur[q] # i
    BY <1>1 DEF CurInv, Working, Waiting
  <2> QED
    BY <1>1, <1>5, <2>1, AgentAssumption DEF FreshInv
<1>8. GateInv'
  BY <1>1, <1>2, <1>3, <1>5 DEF GateInv, Untouched
<1>9. AllowedInv'
  <2>1. \A q \in Runs : rpc[q] \in Cleared => cur[q] \in Invs /\ cur[q] # i
    BY <1>1 DEF CurInv, Working, Waiting, Cleared
  <2>2. exec[i] = "none"
    BY <1>1 DEF Untouched
  <2> QED
    BY <1>1, <1>6, <2>1, <2>2 DEF AllowedInv
<1> QED
  BY <1>4, <1>7, <1>8, <1>9

LEMMA SendDecisionInv ==
    ASSUME TypeInv, IInv, NEW i \in Invs, SendDecision(i)
    PROVE  IInv'
<1> USE DEF TypeInv, TypeOK, IInv
<1>1. /\ sending[i] # "none" /\ chan' = [chan EXCEPT ![i] = sending[i]]
      /\ sending' = [sending EXCEPT ![i] = "none"]
      /\ UNCHANGED <<waiters, runTrust, convTrust, run, ids, exec, history>>
  BY DEF SendDecision
<1>2. ~Untouched(i) /\ \A j \in Invs : j # i /\ Untouched(j) => Untouched(j)'
  BY <1>1 DEF Untouched
<1>3. FreshInv'
  BY <1>1, <1>2 DEF FreshInv, CurInv, Working
<1>4. TrustInv'
  BY <1>1 DEF TrustInv
<1>5. GateInv'
  BY <1>1, <1>2 DEF GateInv
<1>6. AllowedInv'
  BY <1>1 DEF AllowedInv, Allowed
<1> QED
  BY <1>3, <1>4, <1>5, <1>6

-----------------------------------------------------------------------------
(* The invariant and what follows from it.                                 *)

LEMMA InvInit == Init => IInv
BY DEF Init, IInv, FreshInv, TrustInv, GateInv, AllowedInv, Untouched, Cleared

\* The steps of a run that only move it.
LEMMA RunStepInv ==
    ASSUME TypeInv, IInv, NEW r \in Runs,
           \/ Loop(r) \/ Stream(r) \/ Refused(r) \/ Drop(r) \/ Check(r) \/ Mark(r)
           \/ Start(r) \/ Recheck(r) \/ Reply(r) \/ Settle(r)
    PROVE  IInv'
<1>1. CASE Loop(r) \/ Stream(r)
  <2>1. PICK l \in {"closing", "stream", "calls", "loop"} :
          Goto(r, l) /\ UNCHANGED moved /\ rpc[r] \in {"loop", "stream"}
    BY <1>1 DEF Loop, Stream, moved
  <2> QED
    BY <2>1, MoveInv DEF RunPCs, Waiting, Cleared
<1>2. CASE Refused(r) \/ Settle(r)
  <2>1. PICK l \in {"closing", "calls"} :
          Goto(r, l) /\ UNCHANGED moved /\ rpc[r] \in {"refused", "settle", "failed"}
    BY <1>2 DEF Refused, Settle, Continue, moved
  <2> QED
    BY <2>1, MoveInv DEF RunPCs, Waiting, Cleared
<1>3. CASE Drop(r) \/ Reply(r)
  <2>1. PICK l \in {"closing", "settle", "failed"} :
          Goto(r, l) /\ UNCHANGED moved /\ rpc[r] \in {"drop", "reply"}
    BY <1>3 DEF Drop, Reply, moved
  <2> QED
    BY <2>1, MoveInv DEF RunPCs, Waiting, Cleared
<1>4. CASE Check(r) \/ Mark(r) \/ Start(r) \/ Recheck(r)
  <2>1. PICK l \in {"drop", "mark", "start", "recheck", "send", "failed"} :
          Goto(r, l) /\ UNCHANGED moved
          /\ rpc[r] \in {"check", "approved", "mark", "start", "recheck"}
    BY <1>4 DEF Check, Mark, Start, Recheck, moved
  <2> QED
    BY <2>1, MoveInv DEF RunPCs, Waiting, Cleared
<1> QED
  BY <1>1, <1>2, <1>3, <1>4

\* Steps of Cancel and of the services that the gate does not see, and stutters.
LEMMA OtherStepInv ==
    ASSUME TypeInv, IInv,
           \/ \E r \in Runs : Take(r) \/ CancelContext(r) \/ CancelFire(r) \/ CancelSelect(r)
           \/ \E r \in Runs : CancelUpdate(r) \/ CancelResults(r) \/ CancelStatus(r)
           \/ \E i \in Invs : Begin(i) \/ Finish(i)
           \/ UNCHANGED vars
    PROVE  IInv'
<1>1. CASE \E r \in Runs : Take(r) \/ CancelContext(r) \/ CancelSelect(r)
                         \/ CancelUpdate(r) \/ CancelResults(r) \/ CancelStatus(r)
  <2>1. UNCHANGED <<rpc, moved>>
    BY <1>1 DEF Take, CancelContext, CancelSelect, CancelUpdate, CancelResults, CancelStatus, moved
  <2> QED
    BY <2>1, ServiceInv DEF moved
<1>2. ASSUME NEW r \in Runs, CancelFire(r) PROVE IInv'
  <2>1. \A i \in Invs : exec'[i] = "none" <=> exec[i] = "none"
    BY <1>2 DEF CancelFire
  <2> QED
    BY <1>2, <2>1, ServiceInv DEF CancelFire
<1>3. ASSUME NEW i \in Invs, Begin(i) \/ Finish(i) PROVE IInv'
  <2>1. \A j \in Invs : exec'[j] = "none" <=> exec[j] = "none"
    BY <1>3 DEF Begin, Finish, TypeInv, TypeOK
  <2> QED
    BY <1>3, <2>1, ServiceInv DEF Begin, Finish
<1>4. CASE UNCHANGED vars
  BY <1>4, ServiceInv DEF vars
<1> QED
  BY <1>1, <1>2, <1>3, <1>4

LEMMA Invariance == Spec => [](TypeInv /\ IInv)
<1>1. TypeInv /\ IInv /\ [Next]_vars => IInv'
  BY NextCases, RunStepInv, OtherStepInv, LaunchInv, NextCallInv, CloseInv, InsertInv, RegisterInv,
     AwaitInv, WithdrawInv, SendInv, CancelRejectInv, DecideInv, SendDecisionInv
<1> QED
  BY <1>1, InvInit, TypeInvariant, PTL DEF Spec

\* No write or dangerous tool reaches a service without the user's permission
\* for this invocation, run or conversation, and none that was rejected does: for
\* any runs, conversations and tools, whatever Cancel and the user do at once
\* (Gate.DecideWithScope, Gate.RejectRun, runChatStream).
THEOREM OnlyAllowed == Spec => []OnlyAllowedToolsRun
<1>1. IInv => OnlyAllowedToolsRun
  BY DEF IInv, AllowedInv, Allowed, OnlyAllowedToolsRun
<1> QED
  BY <1>1, Invariance, PTL

\* Every decision finds its channel empty, so no RPC handler of
\* policy.confirm blocks (Gate.DecideWithScope).
THEOREM DecisionsFindRoom == Spec => []SendNeverBlocks
<1>1. IInv => SendNeverBlocks
  BY DEF IInv, GateInv, SendNeverBlocks
<1> QED
  BY <1>1, Invariance, PTL
-----------------------------------------------------------------------------
(* The table and the callbacks.                                            *)

\* The rows and their results, step by step.
LEMMA TableInvariance == Spec => []TableInv
<1>1. Init => TableInv
  BY AgentAssumption DEF Init, TableInv, Open, Terminal, Working
<1>2. ASSUME TypeInv, IInv, TableInv, [Next]_vars PROVE TableInv'
  <2> USE AgentAssumption, <1>2 DEF TypeInv, TypeOK, CurInv, Working, Open, Terminal, TableInv
  <2>1. ASSUME NEW r \in Runs, Launch(r) PROVE TableInv'
    BY <2>1 DEF Launch, Goto
  <2>2. ASSUME NEW r \in Runs, Loop(r) PROVE TableInv'
    BY <2>2 DEF Loop, Goto, PublishEnd
  <2>3. ASSUME NEW r \in Runs, Stream(r) PROVE TableInv'
    BY <2>3 DEF Stream, Goto, PublishEnd
  <2>4. ASSUME NEW r \in Runs, NextCall(r) PROVE TableInv'
    <3>1. CASE UNCHANGED <<cur, ids>>
      BY <2>4, <3>1 DEF NextCall, Goto
    <3>2. ASSUME NEW i \in Invs, NEW t \in Tools, of[i] = NoRun, cur' = [cur EXCEPT ![r] = i],
                 of' = [of EXCEPT ![i] = r], tool' = [tool EXCEPT ![i] = t], Goto(r, "insert")
          PROVE  TableInv'
      <4>1. rpc[r] = "calls" /\ rpc' = [rpc EXCEPT ![r] = "insert"]
            /\ UNCHANGED <<cancelling, table, service>>
        BY <2>4, <3>2 DEF NextCall, Goto
      <4>2. \A j \in Invs : j # i => of'[j] = of[j] /\ tool'[j] = tool[j]
        BY <3>2
      <4>3. \A q \in Runs : q # r => cur'[q] = cur[q] /\ rpc'[q] = rpc[q]
        BY <3>2, <4>1
      <4>4. row[i] = "none" /\ \A q \in Runs : i \notin opened[q] \cup out[q]
        BY <3>2
      <4>5. \A j \in Invs : row'[j] \in Open /\ j \notin missed' => of'[j] \in Runs /\ cur'[of'[j]] = j /\ rpc'[of'[j]] \in Working
        BY <4>1, <4>2, <4>3, <4>4
      <4>6. \A j \in Invs : of'[j] = NoRun => row'[j] = "none"
        BY <3>2, <4>1, <4>2
      <4>7. \A j \in Invs : row'[j] \in Terminal /\ j \notin results' /\ j \notin missed' => j \in out'[of'[j]]
        BY <4>1, <4>2, <4>4
      <4>8. \A q \in Runs : \A j \in opened'[q] \cup out'[q] : of'[j] = q
        BY <4>1, <4>2, <4>4
      <4>9. \A j \in Invs : row'[j] = "none" /\ j \notin missed' /\ of'[j] # NoRun =>
              cur'[of'[j]] = j /\ rpc'[of'[j]] = "insert"
        BY <3>2, <4>1, <4>2, <4>3
      <4>10. \A q \in Runs : out'[q] # {} => cpc'[q] = "update"
        BY <4>1
      <4> QED
        BY <4>5, <4>6, <4>7, <4>8, <4>9, <4>10
    <3> QED
      BY <2>4, <3>1, <3>2 DEF NextCall
  <2>5. ASSUME NEW r \in Runs, Close(r) PROVE TableInv'
    BY <2>5 DEF Close, Goto
  <2>6. ASSUME NEW r \in Runs, Insert(r) PROVE TableInv'
    BY <2>6 DEF Insert, Goto, WriteFails
  <2>7. ASSUME NEW r \in Runs, Register(r) PROVE TableInv'
    BY <2>7 DEF Register, Goto
  <2>8. ASSUME NEW r \in Runs, Await(r) PROVE TableInv'
    BY <2>8 DEF Await, Goto
  <2>9. ASSUME NEW r \in Runs, Refused(r) PROVE TableInv'
    BY <2>9 DEF Refused, Goto, Continue, SetRow, WriteFails, PublishResult
  <2>10. ASSUME NEW r \in Runs, Withdraw(r) PROVE TableInv'
    BY <2>10 DEF Withdraw, Goto
  <2>11. ASSUME NEW r \in Runs, Drop(r) PROVE TableInv'
    BY <2>11 DEF Drop, Goto, SetRow, SetRowIfOpen, WriteFails, PublishResult
  <2>12. ASSUME NEW r \in Runs, Check(r) PROVE TableInv'
    BY <2>12 DEF Check, Goto
  <2>13. ASSUME NEW r \in Runs, Mark(r) PROVE TableInv'
    BY <2>13 DEF Mark, Goto, SetRow
  <2>14. ASSUME NEW r \in Runs, Start(r) PROVE TableInv'
    BY <2>14 DEF Start, Goto
  <2>15. ASSUME NEW r \in Runs, Recheck(r) PROVE TableInv'
    BY <2>15 DEF Recheck, Goto
  <2>16. ASSUME NEW r \in Runs, Send(r) PROVE TableInv'
    BY <2>16 DEF Send, Goto
  <2>17. ASSUME NEW r \in Runs, Reply(r) PROVE TableInv'
    BY <2>17 DEF Reply, Goto
  <2>18. ASSUME NEW r \in Runs, Settle(r) PROVE TableInv'
    BY <2>18 DEF Settle, Goto, Continue, SetRow, SetRowIfOpen, WriteFails, PublishResult
  <2>19. ASSUME NEW r \in Runs, Take(r) PROVE TableInv'
    BY <2>19 DEF Take, CancelStep
  <2>20. ASSUME NEW r \in Runs, CancelReject(r) PROVE TableInv'
    BY <2>20 DEF CancelReject, CancelStep
  <2>21. ASSUME NEW r \in Runs, CancelContext(r) PROVE TableInv'
    BY <2>21 DEF CancelContext, CancelStep
  <2>22. ASSUME NEW r \in Runs, CancelFire(r) PROVE TableInv'
    BY <2>22 DEF CancelFire, CancelStep
  <2>23. ASSUME NEW r \in Runs, CancelSelect(r) PROVE TableInv'
    BY <2>23 DEF CancelSelect, CancelStep
  <2>24. ASSUME NEW r \in Runs, CancelUpdate(r) PROVE TableInv'
    <3>1. cpc[r] = "update" /\ UNCHANGED <<results, run, ids>>
      BY <2>24 DEF CancelUpdate
    <3>2. PICK i \in opened[r] :
            \/ /\ row' = [row EXCEPT ![i] = IF @ \in Open THEN "cancelled" ELSE @]
               /\ opened' = [opened EXCEPT ![r] = @ \ {i}]
               /\ out' = [out EXCEPT ![r] = @ \cup {i}]
               /\ UNCHANGED <<cpc, missed>>
            \/ /\ CancelStep(r, "update", "status")
               /\ missed' = missed \cup (out[r] \ results)
               /\ opened' = [opened EXCEPT ![r] = {}]
               /\ out' = [out EXCEPT ![r] = {}]
               /\ UNCHANGED row
      BY <2>24 DEF CancelUpdate
    <3>3. i \in Invs /\ of[i] = r
      BY <3>2
    <3>4. CASE UNCHANGED <<cpc, missed>>
      <4>1. /\ row' = [row EXCEPT ![i] = IF @ \in Open THEN "cancelled" ELSE @]
            /\ opened' = [opened EXCEPT ![r] = @ \ {i}]
            /\ out' = [out EXCEPT ![r] = @ \cup {i}]
        BY <3>1, <3>2, <3>4 DEF CancelStep
      <4>2. \A j \in Invs : j # i => row'[j] = row[j]
        BY <4>1
      <4>3. row'[i] \in Terminal \/ (row'[i] = row[i] /\ row[i] = "none")
        BY <3>3, <4>1
      <4>4. \A j \in Invs : j \in out[of[j]] => j \in out'[of[j]]
        BY <4>1
      <4>5. i \in out'[r]
        BY <4>1
      <4> QED
        BY <3>1, <3>3, <3>4, <4>1, <4>2, <4>3, <4>4, <4>5
    <3>5. CASE CancelStep(r, "update", "status")
      <4>1. /\ missed' = missed \cup (out[r] \ results) /\ UNCHANGED row
            /\ opened' = [opened EXCEPT ![r] = {}] /\ out' = [out EXCEPT ![r] = {}]
            /\ cpc' = [cpc EXCEPT ![r] = "status"]
        BY <3>2, <3>5 DEF CancelStep
      <4>2. \A j \in Invs : row[j] \in Terminal /\ j \notin results /\ j \notin missed' => j \in out'[of[j]]
        BY <4>1
      <4> QED
        BY <3>1, <4>1, <4>2
    <3> QED
      BY <3>2, <3>4, <3>5
  <2>25. ASSUME NEW r \in Runs, CancelResults(r) PROVE TableInv'
    BY <2>25 DEF CancelResults, CancelStep, PublishResult
  <2>26. ASSUME NEW r \in Runs, CancelStatus(r) PROVE TableInv'
    BY <2>26 DEF CancelStatus, CancelStep
  <2>27. ASSUME NEW i \in Invs, Decide(i) PROVE TableInv'
    BY <2>27 DEF Decide
  <2>28. ASSUME NEW i \in Invs, SendDecision(i) PROVE TableInv'
    BY <2>28 DEF SendDecision
  <2>29. ASSUME NEW i \in Invs, Begin(i) PROVE TableInv'
    BY <2>29 DEF Begin
  <2>30. ASSUME NEW i \in Invs, Finish(i) PROVE TableInv'
    BY <2>30 DEF Finish
  <2>31. CASE UNCHANGED vars
    BY <2>31 DEF vars
  <2> QED
    BY <2>1, <2>2, <2>3, <2>4, <2>5, <2>6, <2>7, <2>8, <2>9, <2>10, <2>11, <2>12, <2>13,
       <2>14, <2>15, <2>16, <2>17, <2>18, <2>19, <2>20, <2>21, <2>22, <2>23, <2>24, <2>25, <2>26,
       <2>27, <2>28, <2>29, <2>30, <2>31, NextCases
<1> QED
  BY <1>1, <1>2, Invariance, PTL DEF Spec

\* The queries and their callbacks, step by step.
LEMMA QueryInvariance == Spec => []QueryInv
<1>1. Init => QueryInv
  BY AgentAssumption DEF Init, QueryInv, Working, Unfired, CancelReachesQuery
<1>2. ASSUME TypeInv, IInv, QueryInv, [Next]_vars PROVE QueryInv'
  <2> USE AgentAssumption, <1>2 DEF TypeInv, TypeOK, CurInv, IInv, FreshInv, Untouched, Working, Unfired, QueryInv, CancelReachesQuery
  <2>1. ASSUME NEW r \in Runs, Launch(r) PROVE QueryInv'
    BY <2>1 DEF Launch, Goto
  <2>2. ASSUME NEW r \in Runs, Loop(r) PROVE QueryInv'
    BY <2>2 DEF Loop, Goto, PublishEnd
  <2>3. ASSUME NEW r \in Runs, Stream(r) PROVE QueryInv'
    BY <2>3 DEF Stream, Goto, PublishEnd
  <2>4. ASSUME NEW r \in Runs, NextCall(r) PROVE QueryInv'
    <3>1. CASE UNCHANGED <<cur, ids>>
      BY <2>4, <3>1 DEF NextCall, Goto
    <3>2. ASSUME NEW i \in Invs, NEW t \in Tools, of[i] = NoRun, cur' = [cur EXCEPT ![r] = i],
                 of' = [of EXCEPT ![i] = r], tool' = [tool EXCEPT ![i] = t], Goto(r, "insert")
          PROVE  QueryInv'
      <4>1. rpc[r] = "calls" /\ rpc' = [rpc EXCEPT ![r] = "insert"]
            /\ UNCHANGED <<cancelling, table, service>>
        BY <2>4, <3>2 DEF NextCall, Goto
      <4>2. \A j \in Invs : j # i => of'[j] = of[j] /\ tool'[j] = tool[j]
        BY <3>2
      <4>3. \A q \in Runs : q # r => cur'[q] = cur[q] /\ rpc'[q] = rpc[q]
        BY <3>2, <4>1
      <4>4. exec[i] = "none" /\ i \notin live
        BY <3>2
      <4>5. \A q \in Runs : rpc'[q] \in Working \ {"reply", "settle", "failed"} => exec'[cur'[q]] = "none"
        BY <3>2, <4>1, <4>3, <4>4
      <4>6. \A q \in Runs : cpc'[q] \in {"idle", "reject", "cancel"} \/ q \in ctxDone'
        BY <4>1
      <4>7. \A q \in Runs : rpc'[q] \in {"recheck", "send"} /\ tool'[cur'[q]] \in Queries /\ cpc'[q] \in Unfired =>
              cur'[q] \in stops'[q]
        <5>1. \A q \in Runs : rpc'[q] \in {"recheck", "send"} =>
                q # r /\ rpc[q] \in {"recheck", "send"} /\ cur'[q] = cur[q] /\ cur[q] # i /\ cur[q] \in Invs
          BY <3>2, <4>1, <4>3
        <5> QED
          BY <4>1, <4>2, <5>1
      <4>8. \A j \in Invs : exec'[j] \in {"sent", "executing"} /\ tool'[j] \in Queries /\ cpc'[of'[j]] \in Unfired =>
              j \in stops'[of'[j]]
        BY <4>1, <4>2, <4>4
      <4>9. \A j \in live' : exec'[j] \notin {"none", "sent"}
        BY <4>1
      <4>10. CancelReachesQuery'
        BY <4>1, <4>2, <4>4
      <4> QED
        BY <4>5, <4>6, <4>7, <4>8, <4>9, <4>10
    <3> QED
      BY <2>4, <3>1, <3>2 DEF NextCall
  <2>5. ASSUME NEW r \in Runs, Close(r) PROVE QueryInv'
    BY <2>5 DEF Close, Goto
  <2>6. ASSUME NEW r \in Runs, Insert(r) PROVE QueryInv'
    BY <2>6 DEF Insert, Goto, WriteFails
  <2>7. ASSUME NEW r \in Runs, Register(r) PROVE QueryInv'
    BY <2>7 DEF Register, Goto
  <2>8. ASSUME NEW r \in Runs, Await(r) PROVE QueryInv'
    BY <2>8 DEF Await, Goto
  <2>9. ASSUME NEW r \in Runs, Refused(r) PROVE QueryInv'
    BY <2>9 DEF Refused, Goto, Continue, SetRow, WriteFails, PublishResult
  <2>10. ASSUME NEW r \in Runs, Withdraw(r) PROVE QueryInv'
    BY <2>10 DEF Withdraw, Goto
  <2>11. ASSUME NEW r \in Runs, Drop(r) PROVE QueryInv'
    BY <2>11 DEF Drop, Goto, SetRow, SetRowIfOpen, WriteFails, PublishResult
  <2>12. ASSUME NEW r \in Runs, Check(r) PROVE QueryInv'
    BY <2>12 DEF Check, Goto
  <2>13. ASSUME NEW r \in Runs, Mark(r) PROVE QueryInv'
    BY <2>13 DEF Mark, Goto, SetRow
  <2>14. ASSUME NEW r \in Runs, Start(r) PROVE QueryInv'
    BY <2>14 DEF Start, Goto
  <2>15. ASSUME NEW r \in Runs, Recheck(r) PROVE QueryInv'
    BY <2>15 DEF Recheck, Goto
  <2>16. ASSUME NEW r \in Runs, Send(r) PROVE QueryInv'
    BY <2>16 DEF Send, Goto
  <2>17. ASSUME NEW r \in Runs, Reply(r) PROVE QueryInv'
    BY <2>17 DEF Reply, Goto
  <2>18. ASSUME NEW r \in Runs, Settle(r) PROVE QueryInv'
    BY <2>18 DEF Settle, Goto, Continue, SetRow, SetRowIfOpen, WriteFails, PublishResult
  <2>19. ASSUME NEW r \in Runs, Take(r) PROVE QueryInv'
    BY <2>19 DEF Take, CancelStep
  <2>20. ASSUME NEW r \in Runs, CancelReject(r) PROVE QueryInv'
    BY <2>20 DEF CancelReject, CancelStep
  <2>21. ASSUME NEW r \in Runs, CancelContext(r) PROVE QueryInv'
    BY <2>21 DEF CancelContext, CancelStep
  <2>22. ASSUME NEW r \in Runs, CancelFire(r) PROVE QueryInv'
    BY <2>22 DEF CancelFire, CancelStep
  <2>23. ASSUME NEW r \in Runs, CancelSelect(r) PROVE QueryInv'
    <3>1. UNCHANGED <<ctxDone, stops, run, ids, service, history>>
      BY <2>23 DEF CancelSelect
    <3>2. \A q \in Runs : cpc'[q] = cpc[q] \/ (cpc[q] = "select" /\ cpc'[q] \in {"update", "status"})
      BY <2>23 DEF CancelSelect, CancelStep
    <3>3. r \in ctxDone
      BY <2>23 DEF CancelSelect, CancelStep
    <3> QED
      BY <3>1, <3>2, <3>3
  <2>24. ASSUME NEW r \in Runs, CancelUpdate(r) PROVE QueryInv'
    <3>1. UNCHANGED <<ctxDone, stops, run, ids, service, history>>
      BY <2>24 DEF CancelUpdate
    <3>2. \A q \in Runs : cpc'[q] = cpc[q] \/ (cpc[q] = "update" /\ cpc'[q] = "status")
      <4>1. cpc' = cpc \/ (cpc[r] = "update" /\ cpc' = [cpc EXCEPT ![r] = "status"])
        BY <2>24, Zenon DEF CancelUpdate, CancelStep
      <4> QED
        BY <4>1
    <3> QED
      BY <3>1, <3>2
  <2>25. ASSUME NEW r \in Runs, CancelResults(r) PROVE QueryInv'
    BY <2>25 DEF CancelResults, CancelStep, PublishResult
  <2>26. ASSUME NEW r \in Runs, CancelStatus(r) PROVE QueryInv'
    BY <2>26 DEF CancelStatus, CancelStep
  <2>27. ASSUME NEW i \in Invs, Decide(i) PROVE QueryInv'
    BY <2>27 DEF Decide
  <2>28. ASSUME NEW i \in Invs, SendDecision(i) PROVE QueryInv'
    BY <2>28 DEF SendDecision
  <2>29. ASSUME NEW i \in Invs, Begin(i) PROVE QueryInv'
    <3>1. exec[i] = "sent" /\ exec' = [exec EXCEPT ![i] = "executing"] /\ of[i] \in Runs
          /\ UNCHANGED <<cancelling, run, ids>>
      BY <2>29 DEF Begin
    <3>2. \A j \in live' : j \in live \/ (j = i /\ of[i] \notin ctxDone)
      BY <2>29 DEF Begin, Cancelled
    <3>3. \A j \in live' : exec'[j] \notin {"none", "sent"}
      BY <3>1, <3>2
    <3>4. CancelReachesQuery'
      BY <3>1, <3>2
    <3>5. \A q \in Runs : rpc[q] \in Working \ {"reply", "settle", "failed"} => cur[q] # i
      BY <3>1
    <3>6. \A q \in Runs : rpc'[q] \in Working \ {"reply", "settle", "failed"} => exec'[cur'[q]] = "none"
      BY <3>1, <3>5
    <3>7. \A j \in Invs : exec'[j] \in {"sent", "executing"} => exec[j] \in {"sent", "executing"}
      BY <3>1
    <3> QED
      BY <3>1, <3>3, <3>4, <3>6, <3>7
  <2>30. ASSUME NEW i \in Invs, Finish(i) PROVE QueryInv'
    BY <2>30 DEF Finish
  <2>31. CASE UNCHANGED vars
    BY <2>31 DEF vars
  <2> QED
    BY <2>1, <2>2, <2>3, <2>4, <2>5, <2>6, <2>7, <2>8, <2>9, <2>10, <2>11, <2>12, <2>13,
       <2>14, <2>15, <2>16, <2>17, <2>18, <2>19, <2>20, <2>21, <2>22, <2>23, <2>24, <2>25, <2>26,
       <2>27, <2>28, <2>29, <2>30, <2>31, NextCases
<1> QED
  BY <1>1, <1>2, Invariance, PTL DEF Spec

\* When a run and its Cancel are over, the gate waits for none of its
\* invocations and each is closed and answered, unless its insertion, the run's
\* last update of it, or Cancel after closing it, failed (cancelledTool,
\* CancelOpenInvocations).
THEOREM NothingLeft == Spec => []NothingLeftOpen
<1>1. TypeInv /\ IInv /\ TableInv => NothingLeftOpen
  BY AgentAssumption DEF TypeInv, TypeOK, CurInv, IInv, GateInv, Waiting, Working, Open, Terminal, TableInv,
     NothingLeftOpen
<1> QED
  BY <1>1, Invariance, TableInvariance, PTL

\* Cancel stops every query that a service was executing when it was called
\* (RegisterStop, StopRegistry.Fire).
THEOREM QueriesAreStopped == Spec => []CancelReachesQuery
<1>1. QueryInv => CancelReachesQuery
  BY DEF QueryInv
<1> QED
  BY <1>1, QueryInvariance, PTL
=============================================================================
