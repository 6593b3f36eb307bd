------------------------------ MODULE AgentRun ------------------------------
(***************************************************************************)
(* Runs of the AI assistant (platform/internal/ai/loop) with the gate that *)
(* makes dangerous tools wait for the user (ai/tool/gate.go), the table of *)
(* invocations (store/ai_conversation.go) and the registry of callbacks    *)
(* that stop a query (ai/host/stop.go).                                    *)
(*                                                                         *)
(* Actors: one goroutine per run (runChatStream), the RPC handlers of      *)
(* chat.cancel and policy.confirm, and the services that execute tools.    *)
(* One action is one critical section, one SQL statement, one context      *)
(* check, or one published event.  Text, tokens and messages are left out; *)
(* which tool the model calls next, and when it is content, is arbitrary.  *)
(***************************************************************************)
EXTENDS Integers, FiniteSets

CONSTANTS
    Runs, Conversations,
    Invs,           \* invocation ids; each is used once
    Tools,
    Risky,          \* the tools of risk write or dangerous
    Queries,        \* the tools that register a query.cancel callback
    NoRun, NoInv

ASSUME AgentAssumption ==
    /\ Conversations # {} /\ Tools # {}
    /\ Risky \subseteq Tools /\ Queries \subseteq Tools
    /\ NoRun \notin Runs /\ NoInv \notin Invs

VARIABLES
    registered,     \* runRegistry.runs
    ctxDone,        \* the runs whose context is cancelled
    stops,          \* [run -> invocations in its StopRegistry]
    rpc, cur, conv, \* per run: where its goroutine is, its invocation, its conversation
    cpc, opened,    \* per run: where its Cancel is, the rows it has yet to close,
    out,            \* and those it has closed and will announce
    of, tool,       \* per invocation: its run and its tool
    row,            \* per invocation: nm_ai_tool_invocation.invoke_status
    results,        \* the invocations of which a tool.result was published
    missed,         \* history: invocations left open, or unannounced, by a
                    \* statement of the store that failed
    waiters,        \* Gate.waiters
    chan,           \* per invocation: the channel of its waiter
    runTrust, convTrust,    \* Gate.runTrust, Gate.convTrust, as sets of pairs
    sending,        \* per invocation: a Decide between its unlock and its send
    exec,           \* per invocation: what the service does for it
    ended,          \* per run: the terminal run.status events published
    decision,       \* history: what the user decided on an invocation
    granted,        \* history: permissions given beyond one invocation
    live            \* history: queries that began before their run's cancel

gate  == <<waiters, chan, runTrust, convTrust, sending>>
table == <<row, results, missed>>
run   == <<rpc, cur, conv>>
cancelling == <<registered, ctxDone, stops, cpc, opened, out>>
ids   == <<of, tool>>
history == <<decision, granted>>
service == <<exec, live>>
vars  == <<cancelling, run, ids, table, gate, service, ended, history>>

-----------------------------------------------------------------------------
AnyConv == CHOOSE c \in Conversations : TRUE
AnyTool == CHOOSE t \in Tools : TRUE

Open     == {"running", "pending"}
Terminal == {"done", "error", "cancelled", "rejected"}

RunPCs == {"none", "loop", "stream", "calls", "insert", "register", "await",
           "refused", "withdraw", "drop", "check", "approved", "mark", "start",
           "recheck", "send", "reply", "settle", "failed", "closing", "ended"}
CancelPCs == {"idle", "reject", "cancel", "fire", "select", "update", "status", "done"}

TypeOK ==
    /\ registered \subseteq Runs /\ ctxDone \subseteq Runs
    /\ stops \in [Runs -> SUBSET Invs]
    /\ rpc \in [Runs -> RunPCs]
    /\ cur \in [Runs -> Invs \cup {NoInv}]
    /\ conv \in [Runs -> Conversations]
    /\ cpc \in [Runs -> CancelPCs]
    /\ opened \in [Runs -> SUBSET Invs] /\ out \in [Runs -> SUBSET Invs]
    /\ of \in [Invs -> Runs \cup {NoRun}]
    /\ tool \in [Invs -> Tools]
    /\ row \in [Invs -> Open \cup Terminal \cup {"none"}]
    /\ results \subseteq Invs /\ missed \subseteq Invs
    /\ waiters \subseteq Invs
    /\ chan \in [Invs -> {"empty", "yes", "no"}]
    /\ runTrust \subseteq Runs \X Tools
    /\ convTrust \subseteq Conversations \X Tools
    /\ sending \in [Invs -> {"none", "yes", "no"}]
    /\ exec \in [Invs -> {"none", "sent", "executing", "stopped", "finished"}]
    /\ ended \in [Runs -> SUBSET {"done", "error", "cancelled"}]
    /\ decision \in [Invs -> {"none", "approve", "reject"}]
    /\ granted \subseteq (Runs \cup Conversations) \X Tools
    /\ live \subseteq Invs

Init ==
    /\ registered = {} /\ ctxDone = {}
    /\ stops = [r \in Runs |-> {}]
    /\ rpc = [r \in Runs |-> "none"]
    /\ cur = [r \in Runs |-> NoInv]
    /\ conv = [r \in Runs |-> AnyConv]
    /\ cpc = [r \in Runs |-> "idle"]
    /\ opened = [r \in Runs |-> {}] /\ out = [r \in Runs |-> {}]
    /\ of = [i \in Invs |-> NoRun]
    /\ tool = [i \in Invs |-> AnyTool]
    /\ row = [i \in Invs |-> "none"]
    /\ results = {} /\ missed = {}
    /\ waiters = {}
    /\ chan = [i \in Invs |-> "empty"]
    /\ runTrust = {} /\ convTrust = {}
    /\ sending = [i \in Invs |-> "none"]
    /\ exec = [i \in Invs |-> "none"]
    /\ ended = [r \in Runs |-> {}]
    /\ decision = [i \in Invs |-> "none"]
    /\ granted = {} /\ live = {}

Goto(r, l) == rpc' = [rpc EXCEPT ![r] = l]
Cancelled(r) == r \in ctxDone

PublishResult(S) == results' = results \cup S
PublishEnd(r, s) == ended' = [ended EXCEPT ![r] = @ \cup {s}]

-----------------------------------------------------------------------------
(* The store.  Any statement may fail; the loop ignores the error.         *)

\* UpdateToolInvocation: whatever the row was, if there is one.
SetRow(i, s) == row' = [row EXCEPT ![i] = IF @ = "none" THEN @ ELSE s]

\* What was to give i a row, or to close it, failed.
WriteFails(i) ==
    /\ missed' = IF row[i] \in Terminal THEN missed ELSE missed \cup {i}
    /\ UNCHANGED row

\* Mutant: the open row is not written when the run was cancelled.
SetRowUnlessCancelled(i, s) ==
    IF row[i] \in Open /\ s # "cancelled"
      THEN SetRow(i, s) /\ PublishResult({i}) /\ UNCHANGED missed
      ELSE UNCHANGED table

\* UpdateToolInvocationIfOpen, and the tool.result if it wrote.
SetRowIfOpen(i, s) ==
    \/ row[i] \in Open /\ SetRow(i, s) /\ PublishResult({i}) /\ UNCHANGED missed
    \/ row[i] \notin Open /\ UNCHANGED table
    \/ WriteFails(i) /\ UNCHANGED results

-----------------------------------------------------------------------------
(* The gate.                                                               *)

Trusted(r, t) == <<r, t>> \in runTrust \/ <<conv[r], t>> \in convTrust

\* Mutant: a permission given to a run is kept for its conversation.
RememberForConversation(r, t, scope) ==
    /\ UNCHANGED runTrust
    /\ convTrust' = IF scope = "once" THEN convTrust
                    ELSE convTrust \cup {<<conv[r], t>>}

\* rememberLocked
Remember(r, t, scope) ==
    /\ runTrust' = IF scope = "run" THEN runTrust \cup {<<r, t>>} ELSE runTrust
    /\ convTrust' = IF scope = "conversation"
                    THEN convTrust \cup {<<conv[r], t>>} ELSE convTrust

\* Mutant: the waiters stay registered.
RejectRunKeeping(r) ==
    LET victims == {i \in waiters : of[i] = r}
    IN  /\ UNCHANGED waiters
        /\ runTrust' = {p \in runTrust : p[1] # r}
        /\ chan' = [i \in Invs |-> IF i \in victims /\ chan[i] = "empty"
                                   THEN "no" ELSE chan[i]]

\* RejectRun.  It sends after its unlock; nobody else can in between.
RejectRun(r) ==
    LET victims == {i \in waiters : of[i] = r}
    IN  /\ waiters' = waiters \ victims
        /\ runTrust' = {p \in runTrust : p[1] # r}
        /\ chan' = [i \in Invs |-> IF i \in victims /\ chan[i] = "empty"
                                   THEN "no" ELSE chan[i]]

\* DecideWithScope, up to the unlock (policy.confirm).
Decide(i) ==
    /\ i \in waiters
    /\ waiters' = waiters \ {i}
    /\ \/ /\ sending' = [sending EXCEPT ![i] = "yes"]
          /\ decision' = [decision EXCEPT ![i] = "approve"]
          /\ \E scope \in {"once", "run", "conversation"} :
               /\ Remember(of[i], tool[i], scope)
               /\ granted' = CASE scope = "once" -> granted
                               [] scope = "run" -> granted \cup {<<of[i], tool[i]>>}
                               [] OTHER -> granted \cup {<<conv[of[i]], tool[i]>>}
       \/ /\ sending' = [sending EXCEPT ![i] = "no"]
          /\ decision' = [decision EXCEPT ![i] = "reject"]
          /\ UNCHANGED <<runTrust, convTrust, granted>>
    /\ UNCHANGED <<chan, cancelling, run, ids, table, service, ended>>

\* w.ch <- approve: the channel has room for one.
SendDecision(i) ==
    /\ sending[i] # "none"
    /\ chan[i] = "empty"
    /\ chan' = [chan EXCEPT ![i] = sending[i]]
    /\ sending' = [sending EXCEPT ![i] = "none"]
    /\ UNCHANGED <<waiters, runTrust, convTrust>>
    /\ UNCHANGED <<cancelling, run, ids, table, service, ended, history>>

-----------------------------------------------------------------------------
(* The goroutine of a run.                                                 *)

\* launchStream: any number of runs may share a conversation.
Launch(r) ==
    /\ rpc[r] = "none"
    /\ \E c \in Conversations : conv' = [conv EXCEPT ![r] = c]
    /\ registered' = registered \cup {r}
    /\ Goto(r, "loop")
    /\ UNCHANGED <<ctxDone, stops, cpc, opened, out, cur>>
    /\ UNCHANGED <<ids, table, gate, service, ended, history>>

\* The head of the loop.
Loop(r) ==
    /\ rpc[r] = "loop"
    /\ IF Cancelled(r)
         THEN PublishEnd(r, "cancelled") /\ Goto(r, "closing")
         ELSE Goto(r, "stream") /\ UNCHANGED ended
    /\ UNCHANGED <<cur, conv, cancelling, ids, table, gate, service, history>>

\* One model request: it fails, ends the run, calls tools, or only says that
\* it will (then keepHandoff asks again).
Stream(r) ==
    /\ rpc[r] = "stream"
    /\ \/ /\ PublishEnd(r, "error") \/ (Cancelled(r) /\ PublishEnd(r, "cancelled"))
          /\ Goto(r, "closing")
       \/ PublishEnd(r, "done") /\ Goto(r, "closing")
       \/ (Goto(r, "calls") \/ Goto(r, "loop")) /\ UNCHANGED ended
    /\ UNCHANGED <<cur, conv, cancelling, ids, table, gate, service, history>>

\* The next tool call of the round, or the end of the round.
NextCall(r) ==
    /\ rpc[r] = "calls"
    /\ \/ Cancelled(r) /\ Goto(r, "closing") /\ UNCHANGED <<cur, ids>>
       \/ /\ ~Cancelled(r)
          /\ Goto(r, "insert")
          /\ \E i \in Invs, t \in Tools :
               /\ of[i] = NoRun
               /\ cur' = [cur EXCEPT ![r] = i]
               /\ of' = [of EXCEPT ![i] = r]
               /\ tool' = [tool EXCEPT ![i] = t]
       \/ Goto(r, "loop") /\ UNCHANGED <<cur, ids>>
    /\ UNCHANGED <<conv, cancelling, table, gate, service, ended, history>>

\* RequiresConfirm, Trusted, and the row (UpsertToolInvocation).
Insert(r) ==
    /\ rpc[r] = "insert"
    /\ LET ask == tool[cur[r]] \in Risky /\ ~Trusted(r, tool[cur[r]])
       IN  /\ \/ /\ row' = [row EXCEPT ![cur[r]] = IF ask THEN "pending" ELSE "running"]
                 /\ UNCHANGED missed
              \/ WriteFails(cur[r])
           /\ Goto(r, IF ask THEN "register" ELSE "check")
    /\ UNCHANGED <<cur, conv, results, cancelling, ids, gate, service, ended, history>>

\* Mutant: the waiter is registered without its invocation id.
RegisterNoInv(r) ==
    /\ rpc[r] = "register"
    /\ waiters' = waiters \cup {NoInv}
    /\ Goto(r, "await")
    /\ UNCHANGED <<chan, runTrust, convTrust, sending>>
    /\ UNCHANGED <<cur, conv, cancelling, ids, table, service, ended, history>>

\* tool.pending was published; Register.
Register(r) ==
    /\ rpc[r] = "register"
    /\ waiters' = waiters \cup {cur[r]}
    /\ Goto(r, "await")
    /\ UNCHANGED <<chan, runTrust, convTrust, sending>>
    /\ UNCHANGED <<cur, conv, cancelling, ids, table, service, ended, history>>

\* The select over the decision and ctx.Done: any that is ready may win.
Await(r) ==
    /\ rpc[r] = "await"
    /\ \/ /\ chan[cur[r]] # "empty"
          /\ Goto(r, IF chan[cur[r]] = "yes" THEN "approved" ELSE "refused")
          /\ chan' = [chan EXCEPT ![cur[r]] = "empty"]
       \/ /\ Cancelled(r)
          /\ Goto(r, "withdraw")
          /\ UNCHANGED chan
    /\ UNCHANGED <<waiters, runTrust, convTrust, sending>>
    /\ UNCHANGED <<cur, conv, cancelling, ids, table, service, ended, history>>

\* After an invocation: the next one, unless the run was cancelled.
Continue(r) == Goto(r, IF Cancelled(r) THEN "closing" ELSE "calls")

Refused(r) ==
    /\ rpc[r] = "refused"
    /\ \/ SetRow(cur[r], "rejected") /\ UNCHANGED missed
       \/ WriteFails(cur[r])
    /\ PublishResult({cur[r]})
    /\ Continue(r)
    /\ UNCHANGED <<cur, conv, cancelling, ids, gate, service, ended, history>>

\* Gate.Cancel
Withdraw(r) ==
    /\ rpc[r] = "withdraw"
    /\ waiters' = waiters \ {cur[r]}
    /\ Goto(r, "drop")
    /\ UNCHANGED <<chan, runTrust, convTrust, sending>>
    /\ UNCHANGED <<cur, conv, cancelling, ids, table, service, ended, history>>

\* cancelledTool
Drop(r) ==
    /\ rpc[r] = "drop"
    /\ SetRowIfOpen(cur[r], "cancelled")
    /\ Goto(r, "closing")
    /\ UNCHANGED <<cur, conv, cancelling, ids, gate, service, ended, history>>

\* The context is looked at once more before anything happens.
Check(r) ==
    /\ rpc[r] \in {"check", "approved"}
    /\ Goto(r, IF Cancelled(r) THEN "drop"
               ELSE IF rpc[r] = "approved" THEN "mark" ELSE "start")
    /\ UNCHANGED <<cur, conv, cancelling, ids, table, gate, service, ended, history>>

\* A confirmed invocation becomes running, whatever its row is by now.
Mark(r) ==
    /\ rpc[r] = "mark"
    /\ SetRow(cur[r], "running") \/ UNCHANGED row
    /\ Goto(r, "start")
    /\ UNCHANGED <<cur, conv, results, missed, cancelling, ids, gate, service, ended, history>>

\* Mutant: the query is sent first.
StartUnlisted(r) ==
    /\ rpc[r] = "start"
    /\ Goto(r, "send")
    /\ UNCHANGED <<cur, conv, cancelling, ids, table, gate, service, ended, history>>

\* tool.start was published; runSQL registers its callback (RegisterStop).
Start(r) ==
    /\ rpc[r] = "start"
    /\ IF tool[cur[r]] \in Queries
         THEN /\ stops' = [stops EXCEPT ![r] = @ \cup {cur[r]}]
              /\ Goto(r, "recheck")
         ELSE Goto(r, "send") /\ UNCHANGED stops
    /\ UNCHANGED <<registered, ctxDone, cpc, opened, out>>
    /\ UNCHANGED <<cur, conv, ids, table, gate, service, ended, history>>

\* ... and looks at the context again.
Recheck(r) ==
    /\ rpc[r] = "recheck"
    /\ Goto(r, IF Cancelled(r) THEN "failed" ELSE "send")
    /\ UNCHANGED <<cur, conv, cancelling, ids, table, gate, service, ended, history>>

\* The request is written to the service, or that fails.
Send(r) ==
    /\ rpc[r] = "send"
    /\ \/ Goto(r, "failed") /\ UNCHANGED exec
       \/ Goto(r, "reply") /\ exec' = [exec EXCEPT ![cur[r]] = "sent"]
    /\ UNCHANGED <<live, cur, conv, cancelling, ids, table, gate, ended, history>>

\* The answer, an error or success.  Only an MCP call gives up waiting when
\* the context is cancelled.
Reply(r) ==
    /\ rpc[r] = "reply"
    /\ \/ exec[cur[r]] = "finished" /\ Goto(r, "settle")
       \/ exec[cur[r]] = "finished" /\ Goto(r, "failed")
       \/ tool[cur[r]] \notin Queries /\ Cancelled(r) /\ Goto(r, "failed")
    /\ UNCHANGED <<cur, conv, cancelling, ids, table, gate, service, ended, history>>

\* The last update of the row.
Settle(r) ==
    /\ rpc[r] \in {"settle", "failed"}
    /\ SetRowIfOpen(cur[r], IF Cancelled(r) THEN "cancelled"
                            ELSE IF rpc[r] = "settle" THEN "done" ELSE "error")
    /\ Continue(r)
    /\ UNCHANGED <<cur, conv, cancelling, ids, gate, service, ended, history>>

\* The deferred runs.remove.
Close(r) ==
    /\ rpc[r] = "closing"
    /\ registered' = registered \ {r}
    /\ cur' = [cur EXCEPT ![r] = NoInv]
    /\ Goto(r, "ended")
    /\ UNCHANGED <<ctxDone, stops, cpc, opened, out, conv>>
    /\ UNCHANGED <<ids, table, gate, service, ended, history>>

Invoke(r) ==
    \/ Insert(r) \/ Register(r) \/ Await(r) \/ Refused(r) \/ Withdraw(r)
    \/ Drop(r) \/ Check(r) \/ Mark(r) \/ Start(r) \/ Recheck(r) \/ Send(r)
    \/ Reply(r) \/ Settle(r)

-----------------------------------------------------------------------------
(* The service that executes a tool.                                       *)

\* A query gets its request id (RegisterQuery) when it begins.
Begin(i) ==
    /\ exec[i] = "sent"
    /\ exec' = [exec EXCEPT ![i] = "executing"]
    /\ live' = IF Cancelled(of[i]) THEN live ELSE live \cup {i}
    /\ UNCHANGED <<cancelling, run, ids, table, gate, ended, history>>

Finish(i) ==
    /\ exec[i] \in {"executing", "stopped"}
    /\ exec' = [exec EXCEPT ![i] = "finished"]
    /\ UNCHANGED <<live, cancelling, run, ids, table, gate, ended, history>>

-----------------------------------------------------------------------------
(* Cancel (chat.cancel).  `take' lets one call in.                         *)

CancelStep(r, from, to) == cpc[r] = from /\ cpc' = [cpc EXCEPT ![r] = to]

Take(r) ==
    /\ r \in registered
    /\ registered' = registered \ {r}
    /\ CancelStep(r, "idle", "reject")
    /\ UNCHANGED <<ctxDone, stops, opened, out>>
    /\ UNCHANGED <<run, ids, table, gate, service, ended, history>>

CancelReject(r) ==
    /\ CancelStep(r, "reject", "cancel")
    /\ RejectRun(r)
    /\ UNCHANGED <<convTrust, sending, registered, ctxDone, stops, opened, out>>
    /\ UNCHANGED <<run, ids, table, service, ended, history>>

\* Mutant: the context stays as it is.
CancelContextNot(r) ==
    /\ CancelStep(r, "cancel", "fire")
    /\ UNCHANGED <<ctxDone, registered, stops, opened, out>>
    /\ UNCHANGED <<run, ids, table, gate, service, ended, history>>

CancelContext(r) ==
    /\ CancelStep(r, "cancel", "fire")
    /\ ctxDone' = ctxDone \cup {r}
    /\ UNCHANGED <<registered, stops, opened, out>>
    /\ UNCHANGED <<run, ids, table, gate, service, ended, history>>

\* StopRegistry.Fire: a query.cancel for every registered query stops the
\* one the service is executing.
CancelFire(r) ==
    /\ CancelStep(r, "fire", "select")
    /\ exec' = [i \in Invs |-> IF i \in stops[r] /\ exec[i] = "executing"
                               THEN "stopped" ELSE exec[i]]
    /\ stops' = [stops EXCEPT ![r] = {}]
    /\ UNCHANGED <<live, registered, ctxDone, opened, out>>
    /\ UNCHANGED <<run, ids, table, gate, ended, history>>

\* CancelOpenInvocations: the SELECT; if it fails nothing is closed here.
CancelSelect(r) ==
    /\ \/ /\ CancelStep(r, "select", "update")
          /\ opened' = [opened EXCEPT ![r] = {i \in Invs : of[i] = r /\ row[i] \in Open}]
       \/ CancelStep(r, "select", "status") /\ UNCHANGED opened
    /\ UNCHANGED <<out, registered, ctxDone, stops>>
    /\ UNCHANGED <<run, ids, table, gate, service, ended, history>>

\* ... one UPDATE per row; after one that fails, no row is announced.
CancelUpdate(r) ==
    /\ cpc[r] = "update"
    /\ \E i \in opened[r] :
         \/ /\ row' = [row EXCEPT ![i] = IF @ \in Open THEN "cancelled" ELSE @]
            /\ opened' = [opened EXCEPT ![r] = @ \ {i}]
            /\ out' = [out EXCEPT ![r] = @ \cup {i}]
            /\ UNCHANGED <<cpc, missed>>
         \/ /\ CancelStep(r, "update", "status")
            /\ missed' = missed \cup (out[r] \ results)
            /\ opened' = [opened EXCEPT ![r] = {}]
            /\ out' = [out EXCEPT ![r] = {}]
            /\ UNCHANGED row
    /\ UNCHANGED <<results, registered, ctxDone, stops>>
    /\ UNCHANGED <<run, ids, gate, service, ended, history>>

\* A tool.result for every row that was selected.
CancelResults(r) ==
    /\ opened[r] = {}
    /\ CancelStep(r, "update", "status")
    /\ PublishResult(out[r])
    /\ out' = [out EXCEPT ![r] = {}]
    /\ UNCHANGED <<row, missed, opened, registered, ctxDone, stops>>
    /\ UNCHANGED <<run, ids, gate, service, ended, history>>

CancelStatus(r) ==
    /\ CancelStep(r, "status", "done")
    /\ PublishEnd(r, "cancelled")
    /\ UNCHANGED <<registered, ctxDone, stops, opened, out>>
    /\ UNCHANGED <<run, ids, table, gate, service, history>>

Cancel(r) ==
    \/ CancelReject(r) \/ CancelContext(r) \/ CancelFire(r) \/ CancelSelect(r)
    \/ CancelUpdate(r) \/ CancelResults(r) \/ CancelStatus(r)

-----------------------------------------------------------------------------
Next ==
    \/ \E r \in Runs : Launch(r) \/ Loop(r) \/ Stream(r) \/ NextCall(r) \/ Invoke(r) \/ Close(r)
    \/ \E r \in Runs : Take(r) \/ Cancel(r)
    \/ \E i \in Invs : Decide(i) \/ SendDecision(i) \/ Begin(i) \/ Finish(i)

Spec == Init /\ [][Next]_vars

\* Goroutines run and services answer (queries have a timeout of 30 s).
\* Nothing makes the model stop calling tools or the user decide.
Fairness ==
    /\ \A r \in Runs : WF_vars(Loop(r) \/ Stream(r) \/ NextCall(r) \/ Invoke(r) \/ Close(r))
    /\ \A r \in Runs : WF_vars(Cancel(r))
    /\ \A i \in Invs : WF_vars(SendDecision(i)) /\ WF_vars(Begin(i) \/ Finish(i))

FairSpec == Spec /\ Fairness

-----------------------------------------------------------------------------
(* Properties.                                                             *)

\* No write or dangerous tool reaches a service unless the user approved
\* this invocation, or the same tool for this run or its conversation; and
\* none that the user rejected does.  No permission leaks to another run or
\* conversation, and no cancellation turns into one.
OnlyAllowedToolsRun ==
    \A i \in Invs : exec[i] # "none" /\ tool[i] \in Risky =>
        /\ decision[i] # "reject"
        /\ \/ decision[i] = "approve"
           \/ <<of[i], tool[i]>> \in granted
           \/ <<conv[of[i]], tool[i]>> \in granted

\* A decision finds room in the channel of its waiter, so policy.confirm
\* never blocks: RejectRun and Decide never both answer one waiter.
SendNeverBlocks ==
    \A i \in Invs : sending[i] # "none" => chan[i] = "empty"

\* When a run's goroutine has ended and its Cancel, if any, has returned,
\* the gate waits for none of its invocations, and each has a row, which is
\* closed, and was answered by a tool.result: the two that write the rows
\* always close them between them, also if Cancel's statements or the change
\* to running fail.  Only three failures lose an invocation: of its insertion,
\* of the run's own last update, and of Cancel's after it has closed the row.
NothingLeftOpen ==
    \A i \in Invs :
        of[i] # NoRun /\ rpc[of[i]] = "ended" /\ cpc[of[i]] \in {"idle", "done"} =>
            /\ i \notin missed => row[i] \in Terminal /\ i \in results
            /\ i \notin waiters

\* A query that the service was executing when its run was cancelled is
\* stopped by the callbacks of that Cancel.
CancelReachesQuery ==
    \A i \in live :
        exec[i] = "executing" /\ tool[i] \in Queries =>
            cpc[of[i]] \in {"idle", "reject", "cancel", "fire"}

\* A cancelled run stops, whatever it was waiting for, and says so.
CancelEndsRun ==
    \A r \in Runs : cpc[r] # "idle" ~> rpc[r] = "ended" /\ "cancelled" \in ended[r]

-----------------------------------------------------------------------------
(* What comments say and the code does not do.                             *)

\* "so that a record already cancelled is not overwritten"
\* (store/ai_conversation.go:360): a cancelled row stays cancelled.
CancelledIsFinal ==
    [][\A i \in Invs : row[i] = "cancelled" => row'[i] = "cancelled"]_vars

=============================================================================
