------------------------------ MODULE AiPanel ------------------------------
(***************************************************************************)
(* The conversations of the AI panel, web/src/stores/ai.ts: sending,       *)
(* stopping, switching and deleting while the platform runs the agent.     *)
(*                                                                         *)
(* Replies of calls and events arrive by two ways that are not ordered     *)
(* with each other; events keep their own order.  The code runs one        *)
(* callback at a time, so an action is what runs between two awaits.  A    *)
(* send, an edit and a regeneration are numbered, and run i is the one     *)
(* that the platform starts for send i.  Of the messages only the answers  *)
(* are kept, each named by its run; tool cards are left out.               *)
(***************************************************************************)
EXTENDS Naturals, FiniteSets, Sequences

CONSTANTS
    Conversations,
    MaxRuns,        \* bound: sends in a behaviour
    Loads,          \* bound: hydrations under way at once
    Budgets,        \* bound: how many events of each class a behaviour may have;
                    \* one budget is chosen initially
    NoConv, NoSlot

VARIABLES
    active,         \* activeConversationId
    slot,           \* sessions: conversation -> Slot or NoSlot
    dropped,        \* droppedConversationIds
    closed,         \* closedRunIds
    loadGen,        \* conversation -> generation of its last hydration
    load,           \* hydrations
    send,           \* sends
    removing,       \* conversation -> where removeConversation awaits, and its removingActive
    cancels,        \* runs with a chat.cancel on its way
    srv,            \* run -> what the platform has done for it
    taken,          \* runs that chat.cancel has taken out of the run registry
    erased,         \* conversations deleted in the store
    stored,         \* conversation -> answers in the store
    events,         \* bridge events on their way, <<run, type>>
    stopped,        \* history: runs the user has stopped or deleted
    orphans,        \* history: runs whose call failed although they had started
    overlapped,     \* history: sends made while the call of another was unanswered
    torn,           \* history: conversations sent to while a hydration was under way,
                    \* whose edit was refused for want of a login, or which were not
                    \* restored after a failed edit or regeneration
    budget          \* class -> how many of the bounded events may yet happen

panel == <<active, slot, dropped, closed, loadGen>>
calls == <<load, send, removing, cancels>>
platform == <<srv, taken, erased, stored, events>>
history == <<stopped, orphans, overlapped, torn>>
vars == <<panel, calls, platform, history, budget>>

Classes == {<<"send">>, <<"stop">>, <<"fail">>, <<"speak">>} \cup ({"open", "remove"} \X Conversations)
Runs == 1..MaxRuns
None == 0   \* no run
Statuses == {"idle", "running", "done", "cancelled", "error"}
Terminal == {"done", "cancelled", "error"}
Kinds == {"send", "edit", "regenerate"}

Slot == [runId : Runs \cup {None}, status : Statuses, sending : BOOLEAN,
         cancelPending : BOOLEAN,
         text : SUBSET Runs,    \* whose tokens streamingText holds
         messages : SUBSET Runs,
         loaded : BOOLEAN]

createSession == [runId |-> None, status |-> "idle", sending |-> FALSE,
                  cancelPending |-> FALSE, text |-> {}, messages |-> {}, loaded |-> FALSE]

SendOf == [conv : Conversations \cup {NoConv}, kind : Kinds, from : Runs \cup {None},
           stage : {"unsent", "token", "calling", "adopted", "given up"}]
LoadOf == [conv : Conversations \cup {NoConv}, gen : Nat,
           current : BOOLEAN,   \* the slot it was asked for is still in use
           rows : SUBSET Runs,
           stage : {"unused", "asked", "read"}]

NoLoad == [conv |-> NoConv, gen |-> 0, current |-> FALSE, rows |-> {}, stage |-> "unused"]

sessionBusy(s) == s.sending \/ s.status = "running"
sessionOf(c) == IF slot[c] = NoSlot THEN createSession ELSE slot[c]

Init ==
    /\ active = NoConv
    /\ slot = [c \in Conversations |-> NoSlot]
    /\ dropped = {}
    /\ closed = {}
    /\ loadGen = [c \in Conversations |-> 0]
    /\ load = [n \in Loads |-> NoLoad]
    /\ send = [i \in Runs |-> [conv |-> NoConv, kind |-> "send", from |-> None, stage |-> "unsent"]]
    /\ removing = [c \in Conversations |-> [stage |-> "no", wasActive |-> FALSE]]
    /\ cancels = {}
    /\ srv = [i \in Runs |-> "none"]
    /\ taken = {}
    /\ erased = {}
    /\ stored = [c \in Conversations |-> {}]
    /\ events = <<>>
    /\ stopped = {}
    /\ orphans = {}
    /\ overlapped = {}
    /\ torn = {}
    /\ budget \in Budgets
    /\ budget \in [Classes -> Nat]

Spend(class) == budget[class] > 0 /\ budget' = [budget EXCEPT ![class] = @ - 1]
Free == UNCHANGED budget

----------------------------------------------------------------------------
(* Opening, hydrating and releasing conversations.                         *)

\* what releaseIdleSession leaves of an idle slot
Released(s) ==
    IF s.status \in {"cancelled", "error"}
    THEN [s EXCEPT !.messages = {}, !.text = {}, !.loaded = FALSE]
    ELSE NoSlot

\* a deleted slot is still written to by the hydrations that began on it
Detach(c, loads) ==
    [n \in Loads |-> IF loads[n].conv = c THEN [loads[n] EXCEPT !.current = FALSE] ELSE loads[n]]

\* releaseIdleSession(c), the slot having become s
releaseIdleSession(c, s) ==
    IF sessionBusy(s)
    THEN slot' = [slot EXCEPT ![c] = s] /\ UNCHANGED <<loadGen, load>>
    ELSE /\ slot' = [slot EXCEPT ![c] = Released(s)]
         /\ loadGen' = [loadGen EXCEPT ![c] = 0]
         /\ load' = IF Released(s) = NoSlot THEN Detach(c, load) ELSE load

settleSessionView(c, s) ==
    IF active = c
    THEN slot' = [slot EXCEPT ![c] = s] /\ UNCHANGED <<loadGen, load>>
    ELSE releaseIdleSession(c, s)

\* hydrateConversation(c) up to its await
hydrateConversation(c, slots, gens, loads) ==
    /\ slot' = slots
    /\ IF sessionBusy(slots[c])
       THEN loadGen' = gens /\ load' = loads
       ELSE LET unused == {n \in Loads : loads[n].stage = "unused"}
                n == CHOOSE m \in unused : TRUE
            IN  /\ unused # {}
                /\ loadGen' = [gens EXCEPT ![c] = @ + 1]
                /\ load' = [loads EXCEPT ![n] =
                       [conv |-> c, gen |-> gens[c] + 1, current |-> TRUE, rows |-> {}, stage |-> "asked"]]

openConversation(c) ==
    LET leaves == active \notin {NoConv, c} /\ slot[active] # NoSlot /\ ~sessionBusy(slot[active])
        slots == IF leaves THEN [slot EXCEPT ![active] = Released(@)] ELSE slot
        gens == IF leaves THEN [loadGen EXCEPT ![active] = 0] ELSE loadGen
        loads == IF leaves /\ slots[active] = NoSlot THEN Detach(active, load) ELSE load
    IN  /\ active' = c
        /\ hydrateConversation(c, [slots EXCEPT ![c] = sessionOf(c)], gens, loads)

\* the user picks a conversation of the list
Open(c) ==
    /\ Spend(<<"open", c>>)
    /\ c \notin erased
    /\ openConversation(c)
    /\ UNCHANGED <<dropped, closed, send, removing, cancels, platform, history>>

Latest(c) == {i \in Runs : send[i].conv = c /\ \A j \in Runs : send[j].conv = c => j <= i}

\* the last send cut the view of c, and its run was never started
CutFailed(c) ==
    \E i \in Latest(c) : send[i].kind # "send" /\ send[i].stage = "given up" /\ srv[i] = "none"

LoadReads(n) ==
    /\ Free
    /\ load[n].stage = "asked"
    /\ load[n].conv \notin erased
    /\ load' = [load EXCEPT ![n].rows = stored[load[n].conv], ![n].stage = "read"]
    /\ UNCHANGED <<panel, send, removing, cancels, platform, history>>

LoadFails(n) ==
    LET c == load[n].conv
    IN  /\ load[n].stage = "asked"
        /\ IF c \in erased THEN Free ELSE Spend(<<"fail">>)
        /\ load' = [load EXCEPT ![n] = NoLoad]
        /\ torn' = IF load[n].current /\ CutFailed(c) THEN torn \cup {c} ELSE torn
        /\ UNCHANGED <<panel, send, removing, cancels, platform, stopped, orphans, overlapped>>

\* hydrateConversation after its await
LoadReturns(n) ==
    LET l == load[n]
        c == l.conv
    IN  /\ Free
        /\ l.stage = "read"
        /\ load' = [load EXCEPT ![n] = NoLoad]
        /\ slot' = IF loadGen[c] = l.gen /\ c \notin dropped /\ l.current /\ ~sessionBusy(slot[c])
                   THEN [slot EXCEPT ![c].messages = l.rows, ![c].loaded = TRUE]
                   ELSE slot
        /\ UNCHANGED <<active, dropped, closed, loadGen, send, removing, cancels, platform, history>>

----------------------------------------------------------------------------
(* Sending: send(), with and without an edit, and regenerate().            *)

NextRun(i) == \A j \in Runs : send[j].stage = "unsent" <=> j >= i
Cut(answers, from) == {r \in answers : from = None \/ r < from}
Hydrating(c) == \E n \in Loads : load[n].conv = c /\ load[n].current

\* Mutant: an edit leaves the answers after the message in the view.
SendUncut(i, kind, from) ==
    LET c == active
        s == sessionOf(c)
    IN  /\ Spend(<<"send">>)
        /\ NextRun(i)
        /\ c # NoConv
        /\ ~s.sending
        /\ IF kind = "send" THEN from = None ELSE from \in s.messages
        /\ closed' = closed \cup ({s.runId} \ {None})
        /\ slot' = [slot EXCEPT ![c] =
              [s EXCEPT !.cancelPending = FALSE, !.runId = None, !.sending = TRUE,
                        !.status = "running", !.text = {}]]
        /\ send' = [send EXCEPT ![i] = [conv |-> c, kind |-> kind, from |-> from, stage |-> "token"]]
        /\ UNCHANGED <<active, dropped, loadGen, load, removing, cancels, platform, history>>

Send(i, kind, from) ==
    LET c == active
        s == sessionOf(c)
    IN  /\ Spend(<<"send">>)
        /\ NextRun(i)
        /\ c # NoConv
        /\ ~s.sending
        /\ IF kind = "send" THEN from = None ELSE from \in s.messages
        /\ closed' = closed \cup ({s.runId} \ {None})
        /\ slot' = [slot EXCEPT ![c] =
              [s EXCEPT !.cancelPending = FALSE, !.runId = None, !.sending = TRUE,
                        !.status = "running", !.text = {}, !.messages = Cut(@, from)]]
        /\ send' = [send EXCEPT ![i] = [conv |-> c, kind |-> kind, from |-> from, stage |-> "token"]]
        /\ overlapped' = IF \E j \in Runs : send[j].conv = c /\ send[j].stage = "calling"
                         THEN overlapped \cup {i} ELSE overlapped
        /\ torn' = IF Hydrating(c) THEN torn \cup {c} ELSE torn
        /\ UNCHANGED <<active, dropped, loadGen, load, removing, cancels, platform, stopped, orphans>>

Settle(i, stage) == send' = [send EXCEPT ![i].stage = stage]

\* resolveCloudAccessToken returns
TokenResolves(i) ==
    LET c == send[i].conv
    IN  /\ Free
        /\ send[i].stage = "token"
        /\ Settle(i, IF c \in dropped \/ slot[c] = NoSlot THEN "given up" ELSE "calling")
        /\ UNCHANGED <<panel, load, removing, cancels, platform, history>>

\* the catch of send and regenerate; `login` is login_required
Throws(i, login) ==
    LET c == send[i].conv
        back == login /\ send[i].kind # "regenerate"
        s == [slot[c] EXCEPT !.sending = FALSE, !.status = IF back THEN "idle" ELSE "error"]
    IN  /\ Settle(i, "given up")
        /\ IF c \in dropped \/ slot[c] = NoSlot
           THEN UNCHANGED <<slot, loadGen, load, torn>>
           ELSE /\ torn' = IF back /\ send[i].kind = "edit" THEN torn \cup {c} ELSE torn
                /\ IF send[i].kind = "send" \/ back
                   THEN slot' = [slot EXCEPT ![c] = s] /\ UNCHANGED <<loadGen, load>>
                   ELSE hydrateConversation(c, [slot EXCEPT ![c] = s], loadGen, load)
        /\ UNCHANGED <<active, dropped, closed, removing, cancels, platform, stopped, overlapped>>

TokenFails(i) ==
    /\ Spend(<<"fail">>)
    /\ send[i].stage = "token"
    /\ \E login \in BOOLEAN : Throws(i, login)
    /\ UNCHANGED orphans

\* the platform does not find the conversation or the message to start from
Refused(i) == srv[i] = "none" /\ ~(send[i].conv \notin erased /\ send[i].from \in stored[send[i].conv] \cup {None})

\* chat.stream is refused or fails, or its answer is lost
CallFails(i) ==
    /\ send[i].stage = "calling"
    /\ IF Refused(i) THEN Free ELSE Spend(<<"fail">>)
    /\ Throws(i, FALSE)
    /\ orphans' = IF srv[i] = "none" THEN orphans ELSE orphans \cup {i}

\* Mutant: a stop before the run is known is forgotten.
AdoptStopped(i) ==
    LET c == send[i].conv
    IN  /\ Free
        /\ send[i].stage = "calling"
        /\ srv[i] # "none"
        /\ IF c \in dropped \/ slot[c] = NoSlot
           THEN Settle(i, "given up") /\ UNCHANGED slot
           ELSE /\ Settle(i, "adopted")
                /\ slot' = [slot EXCEPT ![c].runId = i, ![c].cancelPending = FALSE]
        /\ UNCHANGED <<active, dropped, closed, loadGen, load, removing, cancels, platform, history>>

\* chat.stream returns the run: adoptRun
adoptRun(i) ==
    LET c == send[i].conv
        s == slot[c]
    IN  /\ Free
        /\ send[i].stage = "calling"
        /\ srv[i] # "none"
        /\ IF c \in dropped \/ s = NoSlot
           THEN /\ Settle(i, "given up")         \* discardRun
                /\ closed' = closed \cup {i}
                /\ cancels' = cancels \cup {i}
                /\ UNCHANGED slot
           ELSE IF ~s.cancelPending
           THEN /\ Settle(i, "adopted")
                /\ slot' = [slot EXCEPT ![c].runId = i]
                /\ UNCHANGED <<closed, cancels>>
           ELSE /\ Settle(i, "given up")
                /\ closed' = closed \cup {i}
                /\ cancels' = cancels \cup {i}
                /\ slot' = [slot EXCEPT ![c] =
                      [s EXCEPT !.cancelPending = FALSE, !.text = {}, !.runId = None,
                                !.status = "cancelled", !.sending = FALSE]]
        /\ UNCHANGED <<active, dropped, loadGen, load, removing, platform, history>>

\* Mutant: a run that is not known yet is cancelled by its empty number.
StopUnknown ==
    /\ Spend(<<"stop">>)
    /\ active # NoConv
    /\ slot[active] # NoSlot
    /\ cancels' = cancels \cup {slot[active].runId}
    /\ stopped' = stopped \cup Latest(active)
    /\ UNCHANGED <<panel, load, send, removing, platform, orphans, overlapped, torn>>

\* stop()
Stop ==
    LET s == slot[active]
    IN  /\ Spend(<<"stop">>)
        /\ active # NoConv
        /\ s # NoSlot
        /\ IF s.runId # None
           THEN /\ cancels' = cancels \cup {s.runId}
                /\ stopped' = stopped \cup {s.runId}
                /\ UNCHANGED slot
           ELSE /\ sessionBusy(s)
                /\ slot' = [slot EXCEPT ![active].cancelPending = TRUE]
                /\ stopped' = stopped \cup Latest(active)
                /\ UNCHANGED cancels
        /\ UNCHANGED <<active, dropped, closed, loadGen, load, send, removing, platform,
                       orphans, overlapped, torn>>

----------------------------------------------------------------------------
(* Deleting a conversation: removeConversation().                          *)

RemoveTo(c, stage) == removing' = [removing EXCEPT ![c].stage = stage]

Remove(c) ==
    /\ Spend(<<"remove", c>>)
    /\ removing[c].stage = "no"
    /\ c \notin erased
    /\ removing' = [removing EXCEPT ![c] = [stage |-> "asked", wasActive |-> active = c]]
    /\ UNCHANGED <<panel, load, send, cancels, platform, history>>

StoreDeletes(c) ==
    /\ Free
    /\ removing[c].stage = "asked"
    /\ RemoveTo(c, "deleted")
    /\ erased' = erased \cup {c}
    /\ UNCHANGED <<panel, load, send, cancels, srv, taken, stored, events, history>>

RemoveFails(c) ==
    /\ Spend(<<"fail">>)
    /\ removing[c].stage = "asked"
    /\ RemoveTo(c, "no")
    /\ UNCHANGED <<panel, load, send, cancels, platform, history>>

\* after the await: removingActive was read before it
RemoveReturns(c) ==
    LET run == IF slot[c] = NoSlot THEN {} ELSE {slot[c].runId} \ {None}
    IN  /\ Free
        /\ removing[c].stage = "deleted"
        /\ RemoveTo(c, "refreshing")
        /\ dropped' = dropped \cup {c}
        /\ closed' = closed \cup run
        /\ cancels' = cancels \cup run
        /\ slot' = [slot EXCEPT ![c] = NoSlot]
        /\ load' = Detach(c, load)
        /\ loadGen' = [loadGen EXCEPT ![c] = 0]
        /\ active' = IF removing[c].wasActive THEN NoConv ELSE active
        /\ stopped' = stopped \cup {i \in Runs : send[i].conv = c}
        /\ UNCHANGED <<send, platform, orphans, overlapped, torn>>

\* the list is fetched again, or that fails; its first entry is opened
RemoveRefreshed(c) ==
    /\ Free
    /\ removing[c].stage = "refreshing"
    /\ RemoveTo(c, "done")
    /\ \/ active = NoConv /\ \E d \in Conversations \ erased : openConversation(d)
       \/ UNCHANGED <<active, slot, loadGen, load>>
    /\ UNCHANGED <<dropped, closed, send, cancels, platform, history>>

----------------------------------------------------------------------------
(* applyBridgeEvent.                                                       *)

\* Mutant: events that overtake the answer to the call are refused.
AcceptsKnown(s, i) == i \notin closed /\ s.runId = i

\* Mutant: events of a run that is over are taken for those of the next.
AcceptsClosed(s, i) == s.runId \in {None, i} /\ sessionBusy(s)

acceptsRun(s, i) ==
    /\ i \notin closed
    /\ ~(s.cancelPending /\ s.runId = None)
    /\ s.runId \in {None, i}
    /\ s.runId # None \/ sessionBusy(s)

\* what an accepted event makes of the slot
Applied(s, i, type) ==
    CASE type = "token"     -> [s EXCEPT !.text = @ \cup {i}]
      [] type = "message"   -> [s EXCEPT !.text = {}, !.messages = @ \cup {i}]
      [] type = "running"   -> [s EXCEPT !.status = "running"]
      [] type = "cancelled" -> [s EXCEPT !.status = type, !.sending = FALSE, !.runId = None]
      [] type \in {"done", "error"} ->
            [s EXCEPT !.status = type, !.sending = FALSE, !.runId = None, !.text = {}]

applyBridgeEvent ==
    /\ Free
    /\ events # <<>>
    /\ events' = Tail(events)
    /\ LET i == Head(events)[1]
           type == Head(events)[2]
           c == send[i].conv
       IN  IF c \in dropped \/ slot[c] = NoSlot
           THEN UNCHANGED <<slot, closed, loadGen, load>>
           ELSE IF ~acceptsRun(slot[c], i)
           THEN UNCHANGED <<slot, closed, loadGen, load>>
           ELSE IF type \in Terminal
           THEN /\ closed' = closed \cup {i}
                /\ settleSessionView(c, Applied(slot[c], i, type))
           ELSE /\ slot' = [slot EXCEPT ![c] = Applied(@, i, type)]
                /\ UNCHANGED <<closed, loadGen, load>>
    /\ UNCHANGED <<active, dropped, send, removing, cancels, srv, taken, erased, stored, history>>

----------------------------------------------------------------------------
(* The platform: the run of a send, as the panel sees it.                  *)

Running == {"running", "spoken", "answered"}

Emit(i, type) == events' = Append(events, <<i, type>>)

RunStarts(i) ==
    /\ Free
    /\ send[i].stage = "calling"
    /\ srv[i] = "none"
    /\ ~Refused(i)
    /\ srv' = [srv EXCEPT ![i] = "running"]
    /\ stored' = [stored EXCEPT ![send[i].conv] = Cut(@, send[i].from)]
    /\ Emit(i, "running")
    /\ UNCHANGED <<panel, calls, taken, erased, history>>

RunSpeaks(i) ==
    /\ Spend(<<"speak">>)
    /\ srv[i] = "running"
    /\ srv' = [srv EXCEPT ![i] = "spoken"]
    /\ Emit(i, "token")
    /\ UNCHANGED <<panel, calls, taken, erased, stored, history>>

RunAnswers(i) ==
    /\ Free
    /\ srv[i] \in {"running", "spoken"}
    /\ send[i].conv \notin erased
    /\ srv' = [srv EXCEPT ![i] = "answered"]
    /\ stored' = [stored EXCEPT ![send[i].conv] = @ \cup {i}]
    /\ Emit(i, "message")
    /\ UNCHANGED <<panel, calls, taken, erased, history>>

\* a cancelled run may also leave its end to the event of chat.cancel
RunEnds(i) ==
    /\ Free
    /\ srv[i] \in Running
    /\ srv' = [srv EXCEPT ![i] = "ended"]
    /\ \/ \E type \in {"done", "error"} : Emit(i, type)
       \/ i \in taken /\ Emit(i, "cancelled")
       \/ i \in taken /\ UNCHANGED events
    /\ UNCHANGED <<panel, calls, taken, erased, stored, history>>

CancelArrives(i) ==
    /\ Free
    /\ i \in cancels
    /\ cancels' = cancels \ {i}
    /\ IF srv[i] \in Running /\ i \notin taken
       THEN taken' = taken \cup {i} /\ Emit(i, "cancelled")
       ELSE UNCHANGED <<taken, events>>
    /\ UNCHANGED <<panel, load, send, removing, srv, erased, stored, history>>

----------------------------------------------------------------------------
Next ==
    \/ \E c \in Conversations :
          Open(c) \/ Remove(c) \/ StoreDeletes(c) \/ RemoveFails(c) \/ RemoveReturns(c) \/ RemoveRefreshed(c)
    \/ \E n \in Loads : LoadReads(n) \/ LoadFails(n) \/ LoadReturns(n)
    \/ \E i \in Runs :
          \/ \E kind \in Kinds, from \in Runs \cup {None} : Send(i, kind, from)
          \/ TokenResolves(i) \/ TokenFails(i) \/ CallFails(i) \/ adoptRun(i)
          \/ RunStarts(i) \/ RunSpeaks(i) \/ RunAnswers(i) \/ RunEnds(i) \/ CancelArrives(i)
    \/ Stop
    \/ applyBridgeEvent

Spec == Init /\ [][Next]_vars

----------------------------------------------------------------------------
(* Type invariant of the panel and of the platform as it sees it.          *)
TypeOK ==
    /\ active \in Conversations \cup {NoConv}
    /\ slot \in [Conversations -> Slot \cup {NoSlot}]
    /\ dropped \subseteq Conversations
    /\ closed \subseteq Runs
    /\ loadGen \in [Conversations -> Nat]
    /\ load \in [Loads -> LoadOf]
    /\ send \in [Runs -> SendOf]
    /\ removing \in [Conversations -> [stage : {"no", "asked", "deleted", "refreshing", "done"},
                                       wasActive : BOOLEAN]]
    /\ cancels \subseteq Runs
    /\ srv \in [Runs -> Running \cup {"none", "ended"}]
    /\ taken \subseteq Runs
    /\ erased \subseteq Conversations
    /\ stored \in [Conversations -> SUBSET Runs]
    /\ events \in Seq(Runs \X (Terminal \cup {"running", "token", "message"}))
    /\ stopped \cup orphans \cup overlapped \subseteq Runs
    /\ torn \subseteq Conversations
    /\ budget \in [Classes -> Nat]

\* no send of the conversation overtook, or lost, the answer to a call
Plain(c) == \A i \in Runs : send[i].conv = c => i \notin orphans \cup overlapped

EndIsComing(i) ==
    \/ send[i].stage \in {"token", "calling"}
    \/ srv[i] \in Running \ {"none"} /\ i \notin taken
    \/ \E n \in DOMAIN events : events[n][1] = i /\ events[n][2] \in Terminal

(* A conversation that shows it is busy has something to wait for: an      *)
(* answer to its last send, a run that goes on and will be heard, or the   *)
(* event of its end.  Otherwise the composer is locked for ever.           *)
NeverStuck ==
    \A c \in Conversations \ dropped :
        slot[c] # NoSlot /\ Plain(c) =>
            (sessionBusy(slot[c]) => \E i \in Latest(c) : EndIsComing(i))

(* The text that streams into a conversation is of the run of its last     *)
(* send, though an older one may still be talking.                         *)
OneRunShown ==
    \A c \in Conversations \ dropped :
        slot[c] # NoSlot /\ Plain(c) => slot[c].text \subseteq Latest(c)

Quiet(c) ==
    /\ ~sessionBusy(slot[c]) /\ ~Hydrating(c)
    /\ \A i \in Runs : send[i].conv = c => send[i].stage \in {"adopted", "given up"} /\ srv[i] \notin Running
    /\ \A n \in DOMAIN events : send[events[n][1]].conv # c

(* When nothing is under way, a conversation that has been loaded shows    *)
(* the answers of the store, but for those of runs it has stopped.         *)
ViewMatchesStore ==
    \A c \in Conversations \ (dropped \cup erased \cup torn) :
        slot[c] # NoSlot /\ Plain(c) /\ slot[c].loaded /\ Quiet(c) =>
            /\ slot[c].messages \subseteq stored[c]
            /\ stored[c] \ slot[c].messages \subseteq stopped

\* chat.cancel for run i has arrived, is on its way, or will be sent when the
\* answer to the call is there
CancelIsComing(i) ==
    \/ i \in taken \cup cancels
    \/ /\ send[i].stage = "calling"
       /\ LET c == send[i].conv
          IN  c \in dropped \/ slot[c] = NoSlot \/ slot[c].cancelPending

(* A run that the user has stopped, before or after its number was known,  *)
(* or whose conversation was deleted, does not go on unseen.               *)
StoppedRunEnds ==
    \A i \in stopped :
        srv[i] \in Running /\ Plain(send[i].conv) => CancelIsComing(i)

=============================================================================
