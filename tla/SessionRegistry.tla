-------------------------- MODULE SessionRegistry --------------------------
(***************************************************************************)
(* The session registry of the web shell, web/src/stores/                  *)
(* session-registry.ts: which tabs borrow which physical session, and when *)
(* `session.open` and `session.close` are called.  One connection profile  *)
(* of one kind is modelled; the kind, with its policy, is chosen           *)
(* initially.                                                              *)
(*                                                                         *)
(* JavaScript runs one callback at a time and drains the microtask queue   *)
(* before the next one, so a state between two steps is one where some     *)
(* code awaits.  An operation that awaits is an element of Ops with a      *)
(* place `pc`; when what it awaits settles it goes to the queue `micro`,   *)
(* and Resume runs its head.  Every other action is a callback of its own  *)
(* and waits for an empty queue.                                           *)
(*                                                                         *)
(* A lease object is named by the session it holds and the tab whose       *)
(* acquire made it: an object that has left the table may still be         *)
(* referenced by an operation or by its idle timer.                        *)
(***************************************************************************)
EXTENDS Naturals, FiniteSets, Sequences, SequencesExt

CONSTANTS
    Kinds,          \* connection kinds
    SESSION_POLICY, \* kind -> [sharing, closeOnRelease, slow]; see SessionAssumption
    Tabs,           \* tabs of the profile
    Database,       \* tab -> logical database, the scope of a scoped key
    MaxOpens,       \* bound: sessions opened in a behaviour
    MaxTroubles,    \* bound: disconnects, reconnects, failures and deaths in a behaviour
    NoLease

Policy == [sharing : {"per_tab", "scoped", "per_profile"},
           closeOnRelease : BOOLEAN,
           slow : BOOLEAN]      \* the release hooks wait for a bridge call

ASSUME SessionAssumption ==
    /\ SESSION_POLICY \in [Kinds -> Policy]
    /\ \A k \in Kinds : SESSION_POLICY[k].closeOnRelease
                          => SESSION_POLICY[k].sharing = "per_tab" /\ ~SESSION_POLICY[k].slow
    /\ IsFiniteSet(Tabs)
    /\ MaxOpens \in Nat /\ MaxTroubles \in Nat
    /\ NoLease \notin (1..MaxOpens) \X Tabs

Sessions == 1..MaxOpens
Leases == Sessions \X Tabs
Drops == {"disconnect", "lost"}
Ops == ({"job", "close"} \X Tabs) \cup ({"drop"} \X Drops)

VARIABLES
    kind,       \* the kind of the connection, constant after Init
    tab,        \* tab -> "absent", "open" or "closed"
    shown,      \* tab -> the sessionId its view holds, 0 for none
    stray,      \* history: closed tabs whose view connected again, or was still connecting
    leases,     \* key -> lease object or NoLease
    bound,      \* lease object -> tabs in its tabBindings
    timer,      \* lease objects whose idleTimer runs
    inflight,   \* `inflightOpens`: key -> the tabs that await the open, in order
    newest,     \* the last session opened; they are numbered
    remote,     \* sessions open at the service
    closing,    \* sessions whose session.close is under way
    lost,       \* sessions that died and whose lost event is not yet handled
    exited,     \* the service exited and its event, for all sessions, is not yet handled
    overtaken,  \* history: sessions opened at its successor before that event
    raced,      \* history: a session was opened for a key to which `disconnect` had yet to come
    pc, at,     \* operation -> where it awaits, and the lease it refers to
    todo,       \* drop operation -> the leases it has yet to visit
    micro,      \* the microtask queue
    troubles    \* how many of the bounded events have happened

registry == <<leases, bound, timer, inflight>>
serviceVars == <<newest, remote, closing, lost, exited, overtaken, raced>>
view == <<tab, shown, stray>>
sessionVars == <<kind, view, registry, serviceVars, pc, at, todo, micro, troubles>>

policy == SESSION_POLICY[kind]

\* Mutant: tabs that should have a session of their own share one.
SharedKey(t) == IF policy.sharing = "scoped" THEN <<kind, Database[t]>> ELSE <<kind>>

\* buildSessionKey; the tabs are of one profile, so only what differs is kept
buildSessionKey(t) == CASE policy.sharing = "per_tab"     -> <<kind, t>>
                        [] policy.sharing = "scoped"      -> <<kind, Database[t]>>
                        [] policy.sharing = "per_profile" -> <<kind>>
Keys == {buildSessionKey(t) : t \in Tabs}
KeyOf(l) == buildSessionKey(l[2])

getLeaseByTabId(t) ==
    LET held == {k \in Keys : leases[k] # NoLease /\ t \in bound[leases[k]]}
    IN  IF held = {} THEN NoLease ELSE leases[CHOOSE k \in held : TRUE]

SessionInit ==
    /\ kind \in Kinds
    /\ tab = [t \in Tabs |-> "absent"]
    /\ shown = [t \in Tabs |-> 0]
    /\ stray = {}
    /\ leases = [k \in Keys |-> NoLease]
    /\ bound = [l \in Leases |-> {}]
    /\ timer = {}
    /\ inflight = [k \in Keys |-> <<>>]
    /\ newest = 0
    /\ remote = {}
    /\ closing = {}
    /\ lost = {}
    /\ exited = FALSE
    /\ overtaken = {}
    /\ raced = FALSE
    /\ pc = [o \in Ops |-> "idle"]
    /\ at = [o \in Ops |-> NoLease]
    /\ todo = [d \in Drops |-> {}]
    /\ micro = <<>>
    /\ troubles = 0

----------------------------------------------------------------------------
(* Steps shared by the operations.                                         *)

GoesTo(o, p, l) == pc' = [pc EXCEPT ![o] = p] /\ at' = [at EXCEPT ![o] = l]

\* await runTabRelease: hooks that only touch the page settle at once, the
\* ones that stop a stream wait for the bridge (HooksDone)
AwaitHooks(o, l, queue) ==
    /\ GoesTo(o, "cleanup", l)
    /\ micro' = IF policy.slow THEN queue ELSE Append(queue, o)

\* Mutant: the lease leaves the table, its session stays.
ForgetLease(l) ==
    /\ timer' = timer \ {l}
    /\ leases' = [leases EXCEPT ![KeyOf(l)] = NoLease]
    /\ UNCHANGED closing

\* finalizeClose up to its await: the entry of the lease's KEY is deleted,
\* whichever lease it is, and this lease's session is closed
finalizeClose(l) ==
    /\ timer' = timer \ {l}
    /\ IF leases[KeyOf(l)] = NoLease
       THEN UNCHANGED <<leases, closing>>
       ELSE /\ leases' = [leases EXCEPT ![KeyOf(l)] = NoLease]
            /\ closing' = closing \cup {l[1]}

\* Mutant: a lease that is found keeps its idle timer.
AcquireTimed(o, t, queue) ==
    LET k == buildSessionKey(t)
        l == leases[k]
    IN  IF l # NoLease
        THEN /\ bound' = [bound EXCEPT ![l] = @ \cup {t}]
             /\ shown' = [shown EXCEPT ![t] = l[1]]
             /\ GoesTo(o, "idle", NoLease)
             /\ micro' = queue
             /\ UNCHANGED <<timer, inflight>>
        ELSE /\ inflight' = [inflight EXCEPT ![k] = Append(@, t)]
             /\ GoesTo(o, "opening", NoLease)
             /\ micro' = queue
             /\ UNCHANGED <<timer, bound, shown>>

\* acquire(opts) of tab t by operation o, up to its first await
acquire(o, t, queue) ==
    LET k == buildSessionKey(t)
        l == leases[k]
    IN  IF l # NoLease
        THEN /\ timer' = timer \ {l}
             /\ bound' = [bound EXCEPT ![l] = @ \cup {t}]
             /\ shown' = [shown EXCEPT ![t] = l[1]]
             /\ GoesTo(o, "idle", NoLease)
             /\ micro' = queue
             /\ UNCHANGED inflight
        ELSE /\ inflight' = [inflight EXCEPT ![k] = Append(@, t)]
             /\ GoesTo(o, "opening", NoLease)
             /\ micro' = queue
             /\ UNCHANGED <<timer, bound, shown>>

----------------------------------------------------------------------------
(* Callbacks: user actions, replies of the bridge, timers, events.         *)

Quiet == micro = <<>> /\ UNCHANGED troubles

Trouble ==
    /\ micro = <<>>
    /\ troubles < MaxTroubles
    /\ troubles' = troubles + 1

\* the tab appears and its view mounts; the profile is loaded first
OpenTab(t) ==
    /\ Quiet
    /\ tab[t] = "absent"
    /\ tab' = [tab EXCEPT ![t] = "open"]
    /\ pc' = [pc EXCEPT ![<<"job", t>>] = "loading"]
    /\ UNCHANGED <<kind, shown, stray, registry, serviceVars, at, todo, micro>>

\* onMounted goes on to acquireSession, whether the tab is still open or not
ProfileLoaded(t) ==
    /\ Quiet
    /\ pc[<<"job", t>>] = "loading"
    /\ acquire(<<"job", t>>, t, micro)
    /\ UNCHANGED <<kind, tab, stray, leases, serviceVars, todo>>

\* closeTab -> releaseMany: keep-alive keeps the view
CloseTab(t) ==
    /\ Quiet
    /\ tab[t] = "open"
    /\ tab' = [tab EXCEPT ![t] = "closed"]
    /\ stray' = IF pc[<<"job", t>>] = "idle" THEN stray ELSE stray \cup {t}
    /\ IF getLeaseByTabId(t) = NoLease
       THEN UNCHANGED <<pc, at, micro>>
       ELSE AwaitHooks(<<"close", t>>, getLeaseByTabId(t), micro)
    /\ UNCHANGED <<kind, shown, registry, serviceVars, todo>>

Reconnecting(order) ==
    /\ Trouble
    /\ pc' = [o \in Ops |-> IF \E t \in ToSet(order) : o = <<"job", t>> THEN "reconnect" ELSE pc[o]]
    /\ micro' = [i \in DOMAIN order |-> <<"job", order[i]>>]
    /\ stray' = stray \cup {t \in ToSet(order) : tab[t] = "closed"}
    /\ UNCHANGED <<kind, tab, shown, registry, serviceVars, at, todo>>

Idling == {t \in Tabs : tab[t] # "absent" /\ pc[<<"job", t>>] = "idle"}

\* the button of the view, or an operation of it that found the connection dead
Reconnect(t) == t \in Idling /\ tab[t] = "open" /\ Reconnecting(<<t>>)

\* the reconnect signal of the profile reaches the view of every tab,
\* those of closed tabs that keep-alive still holds included
RequestReconnect == Idling # {} /\ \E order \in SetToSeqs(Idling) : Reconnecting(order)

HooksDone(o) ==
    /\ Quiet
    /\ policy.slow
    /\ pc[o] = "cleanup"
    /\ micro' = <<o>>
    /\ UNCHANGED <<kind, view, registry, serviceVars, pc, at, todo>>

\* Mutant: every tab that awaits the open is given a session number.
OpenReturnsToEach(k) ==
    /\ Quiet
    /\ inflight[k] # <<>>
    /\ newest < MaxOpens
    /\ newest' = newest + Len(inflight[k])
    /\ remote' = remote \cup {newest + 1}
    /\ overtaken' = IF exited THEN overtaken \cup {newest + 1} ELSE overtaken
    /\ pc' = [o \in Ops |-> IF \E t \in ToSet(inflight[k]) : o = <<"job", t>>
                            THEN "opened" ELSE pc[o]]
    /\ micro' = [i \in DOMAIN inflight[k] |-> <<"job", inflight[k][i]>>]
    /\ inflight' = [inflight EXCEPT ![k] = <<>>]
    /\ UNCHANGED <<kind, view, leases, bound, timer, closing, lost, exited, raced, at, todo>>

\* session.open returns: everyone who awaits it resumes, the opener first
OpenReturns(k) ==
    /\ Quiet
    /\ inflight[k] # <<>>
    /\ newest < MaxOpens
    /\ newest' = newest + 1
    /\ remote' = remote \cup {newest + 1}
    /\ overtaken' = IF exited THEN overtaken \cup {newest + 1} ELSE overtaken
    /\ raced' = (raced \/ \E l \in todo["disconnect"] : KeyOf(l) = k)
    /\ pc' = [o \in Ops |-> IF \E t \in ToSet(inflight[k]) : o = <<"job", t>>
                            THEN "opened" ELSE pc[o]]
    /\ micro' = [i \in DOMAIN inflight[k] |-> <<"job", inflight[k][i]>>]
    /\ inflight' = [inflight EXCEPT ![k] = <<>>]
    /\ UNCHANGED <<kind, view, leases, bound, timer, closing, lost, exited, at, todo>>

\* session.open fails: every acquire that awaits it throws
OpenFails(k) ==
    /\ Trouble
    /\ inflight[k] # <<>>
    /\ pc' = [o \in Ops |-> IF \E t \in ToSet(inflight[k]) : o = <<"job", t>>
                            THEN "idle" ELSE pc[o]]
    /\ inflight' = [inflight EXCEPT ![k] = <<>>]
    /\ UNCHANGED <<kind, view, leases, bound, timer, serviceVars, at, todo, micro>>

\* session.close returns (a failure is swallowed): who awaits it resumes
CloseReturns(s) ==
    /\ Quiet
    /\ s \in closing
    /\ remote' = remote \ {s}
    /\ closing' = closing \ {s}
    /\ micro' = SetToSeq({o \in Ops : pc[o] = "closing" /\ at[o][1] = s})
    /\ UNCHANGED <<kind, view, registry, newest, lost, exited, overtaken, raced, pc, at, todo>>

IdleTimerFires(l) ==
    /\ Quiet
    /\ l \in timer
    /\ bound[l] = {}
    /\ finalizeClose(l)
    /\ UNCHANGED <<kind, view, bound, inflight, newest, remote, lost, exited, overtaken, raced, pc, at, todo, micro>>

\* a session dies at the server; its event comes later
SessionDies(s) ==
    /\ Trouble
    /\ s \in remote
    /\ remote' = remote \ {s}
    /\ lost' = lost \cup {s}
    /\ UNCHANGED <<kind, view, registry, newest, closing, exited, overtaken, raced, pc, at, todo, micro>>

\* the service exits; the next session.open may find its successor running
\* before the event arrives
ServiceExits ==
    /\ Trouble
    /\ remote # {}
    /\ ~exited
    /\ remote' = {}
    /\ exited' = TRUE
    /\ UNCHANGED <<kind, view, registry, newest, closing, lost, overtaken, raced, pc, at, todo, micro>>

----------------------------------------------------------------------------
(* disconnect, markSessionLost and markKindLost: a loop over leases.       *)

LeasesIn(sessions) == {l \in {leases[k] : k \in Keys} \ {NoLease} : l[1] \in sessions}

\* the loop of drop operation d with `rest` still to visit: a lease without
\* bindings has no hook to await
NextLease(d, rest, queue) ==
    IF rest = {}
    THEN /\ GoesTo(<<"drop", d>>, "idle", NoLease)
         /\ todo' = [todo EXCEPT ![d] = {}]
         /\ micro' = queue
    ELSE \E l \in rest :
            /\ todo' = [todo EXCEPT ![d] = rest \ {l}]
            /\ IF bound[l] = {}
               THEN GoesTo(<<"drop", d>>, "cleanup", l) /\ micro' = <<<<"drop", d>>>> \o queue
               ELSE AwaitHooks(<<"drop", d>>, l, queue)

\* the user disconnects the profile from the connection tree
Disconnect ==
    /\ Trouble
    /\ pc[<<"drop", "disconnect">>] = "idle"
    /\ LeasesIn(Sessions) # {}
    /\ NextLease("disconnect", LeasesIn(Sessions), micro)
    /\ UNCHANGED <<kind, view, registry, serviceVars>>

\* onServiceLost: the event names one session, or means all of the kind
LostEvent ==
    /\ Quiet
    /\ pc[<<"drop", "lost">>] = "idle"
    /\ \/ \E s \in lost : /\ NextLease("lost", LeasesIn({s}), micro)
                         /\ lost' = lost \ {s}
                         /\ UNCHANGED exited
       \/ /\ exited
          /\ NextLease("lost", LeasesIn(Sessions), micro)
          /\ exited' = FALSE
          /\ UNCHANGED lost
    /\ UNCHANGED <<kind, view, registry, newest, remote, closing, overtaken, raced>>

----------------------------------------------------------------------------
(* Microtasks: the code after an await.                                    *)

\* Mutant: the binding of the tab stays.
AfterReleaseBound(o, force) ==
    /\ leases' = [leases EXCEPT ![KeyOf(at[o])] = at[o]]
    /\ UNCHANGED <<bound, timer, closing>>

\* Mutant: no idle timer is started.
AfterReleaseUntimed(o, force) ==
    LET l == at[o]
        rest == bound[l] \ {o[2]}
    IN  /\ bound' = [bound EXCEPT ![l] = rest]
        /\ IF rest = {} /\ (force \/ policy.closeOnRelease)
           THEN finalizeClose(l)
           ELSE leases' = [leases EXCEPT ![KeyOf(l)] = l] /\ UNCHANGED <<timer, closing>>

\* release(tabId) after its hooks; `force` is forceReconnect's forceClose
AfterRelease(o, force) ==
    LET l == at[o]
        t == o[2]
        rest == bound[l] \ {t}
    IN  /\ bound' = [bound EXCEPT ![l] = rest]
        /\ IF rest # {}
           THEN /\ leases' = [leases EXCEPT ![KeyOf(l)] = l]
                /\ UNCHANGED <<timer, closing>>
           ELSE IF force \/ policy.closeOnRelease
           THEN finalizeClose(l)
           ELSE /\ leases' = [leases EXCEPT ![KeyOf(l)] = l]    \* scheduleIdleClose
                /\ timer' = timer \cup {l}
                /\ UNCHANGED closing

ResumeClose(o) ==
    /\ pc[o] = "cleanup"
    /\ AfterRelease(o, FALSE)
    /\ GoesTo(o, "idle", NoLease)
    /\ micro' = Tail(micro)
    /\ UNCHANGED <<kind, view, inflight, newest, remote, lost, exited, overtaken, raced, todo>>

\* the head of forceReconnect: release(tabId, forceClose)
ResumeReconnect(o) ==
    /\ pc[o] = "reconnect"
    /\ LET l == getLeaseByTabId(o[2])
       IN  IF l = NoLease
           THEN GoesTo(o, "reacquire", NoLease) /\ micro' = Append(Tail(micro), o)
           ELSE AwaitHooks(o, l, Tail(micro))
    /\ UNCHANGED <<kind, view, registry, serviceVars, todo>>

\* its release goes on; forceReconnect awaits the close when there is one
ResumeRelease(o) ==
    /\ pc[o] = "cleanup"
    /\ AfterRelease(o, TRUE)
    /\ IF bound'[at[o]] = {} /\ leases[KeyOf(at[o])] # NoLease
       THEN GoesTo(o, "closing", at[o]) /\ micro' = Tail(micro)
       ELSE GoesTo(o, "reacquire", NoLease) /\ micro' = Append(Tail(micro), o)
    /\ UNCHANGED <<kind, view, inflight, newest, remote, lost, exited, overtaken, raced, todo>>

ResumeAcquire(o) ==
    /\ pc[o] \in {"closing", "reacquire"}
    /\ acquire(o, o[2], Tail(micro))
    /\ UNCHANGED <<kind, tab, stray, leases, serviceVars, todo>>

\* acquire after session.open: a NEW lease replaces the entry of the key,
\* also when another tab that awaited the same open has just made one
ResumeOpened(o) ==
    LET l == <<newest, o[2]>>
    IN  /\ pc[o] = "opened"
        /\ bound' = [bound EXCEPT ![l] = {o[2]}]
        /\ leases' = [leases EXCEPT ![KeyOf(l)] = l]
        /\ shown' = [shown EXCEPT ![o[2]] = newest]
        /\ GoesTo(o, "idle", NoLease)
        /\ micro' = Tail(micro)
        /\ UNCHANGED <<kind, tab, stray, timer, inflight, serviceVars, todo>>

\* disconnect closes the session of the lease, a lost one only leaves the table
ResumeDrop(o) ==
    LET l == at[o]
    IN  /\ pc[o] = "cleanup"
        /\ bound' = [bound EXCEPT ![l] = {}]
        /\ IF o[2] = "disconnect"
           THEN /\ finalizeClose(l)
                /\ IF leases[KeyOf(l)] # NoLease
                   THEN GoesTo(o, "closing", l) /\ micro' = Tail(micro) /\ UNCHANGED todo
                   ELSE NextLease(o[2], todo[o[2]], Tail(micro))
           ELSE /\ leases' = [leases EXCEPT ![KeyOf(l)] = NoLease]
                /\ timer' = timer \ {l}
                /\ NextLease(o[2], todo[o[2]], Tail(micro))
                /\ UNCHANGED closing
    /\ UNCHANGED <<kind, view, inflight, newest, remote, lost, exited, overtaken, raced>>

ResumeDropClosed(o) ==
    /\ pc[o] = "closing"
    /\ NextLease(o[2], todo[o[2]], Tail(micro))
    /\ UNCHANGED <<kind, view, registry, serviceVars>>

Resume ==
    /\ micro # <<>>
    /\ UNCHANGED troubles
    /\ LET o == Head(micro)
       IN  \/ o[1] = "close" /\ ResumeClose(o)
           \/ o[1] = "job" /\ (ResumeReconnect(o) \/ ResumeRelease(o) \/ ResumeAcquire(o) \/ ResumeOpened(o))
           \/ o[1] = "drop" /\ (ResumeDrop(o) \/ ResumeDropClosed(o))

SessionNext ==
    \/ Resume
    \/ \E t \in Tabs : OpenTab(t) \/ ProfileLoaded(t) \/ CloseTab(t) \/ Reconnect(t)
    \/ RequestReconnect
    \/ \E o \in Ops : HooksDone(o)
    \/ \E k \in Keys : OpenReturns(k) \/ OpenFails(k)
    \/ \E s \in Sessions : CloseReturns(s) \/ SessionDies(s)
    \/ \E l \in Leases : IdleTimerFires(l)
    \/ Disconnect
    \/ LostEvent
    \/ ServiceExits

SessionSpec == SessionInit /\ [][SessionNext]_sessionVars

\* the event loop runs on, every bridge call is answered, timers expire;
\* users, the service and the servers owe nothing
SessionFairness ==
    /\ WF_sessionVars(Resume)
    /\ \A t \in Tabs : WF_sessionVars(ProfileLoaded(t))
    /\ \A o \in Ops : WF_sessionVars(HooksDone(o))
    /\ \A t \in Tabs : WF_sessionVars(\E k \in Keys : k = buildSessionKey(t) /\ (OpenReturns(k) \/ OpenFails(k)))
    /\ \A s \in Sessions : WF_sessionVars(CloseReturns(s))
    /\ \A l \in Leases : WF_sessionVars(IdleTimerFires(l))
    /\ WF_sessionVars(LostEvent)

SessionFairSpec == SessionSpec /\ SessionFairness

----------------------------------------------------------------------------
Places == {"idle", "loading", "reconnect", "cleanup", "closing", "reacquire", "opening", "opened"}

(* Type invariant of the registry, the views and the service.              *)
SessionTypeOK ==
    /\ kind \in Kinds
    /\ tab \in [Tabs -> {"absent", "open", "closed"}]
    /\ shown \in [Tabs -> 0..MaxOpens]
    /\ stray \subseteq Tabs
    /\ leases \in [Keys -> Leases \cup {NoLease}]
    /\ bound \in [Leases -> SUBSET Tabs]
    /\ timer \subseteq Leases
    /\ inflight \in [Keys -> Seq(Tabs)]
    /\ newest \in 0..MaxOpens
    /\ remote \subseteq Sessions
    /\ closing \subseteq Sessions
    /\ lost \subseteq Sessions
    /\ exited \in BOOLEAN
    /\ overtaken \subseteq Sessions
    /\ raced \in BOOLEAN
    /\ pc \in [Ops -> Places]
    /\ at \in [Ops -> Leases \cup {NoLease}]
    /\ todo \in [Drops -> SUBSET Leases]
    /\ micro \in Seq(Ops)
    /\ troubles \in 0..MaxTroubles

(* A lease of the table that no tab borrows has its idle timer running,    *)
(* and one that is borrowed has not: no connection is forgotten, and none  *)
(* is closed by a timer while a registered tab uses it.                    *)
UnusedIffTimed ==
    \A k \in Keys : leases[k] # NoLease => (bound[leases[k]] = {} <=> leases[k] \in timer)

Settled == micro = <<>> /\ closing = {} /\ lost = {} /\ ~exited

(* Where hooks do not wait, the registry and the service agree once the    *)
(* calls under way are answered: the sessions open at the service are      *)
(* those of the table, so each can be found and disconnected, and no tab   *)
(* is given a session that is gone.  Not so after a race of `disconnect`   *)
(* with an open for the same key, see ClosesWhatIsRegistered.              *)
TableMatchesService ==
    ~policy.slow /\ ~raced /\ Settled =>
        remote \ overtaken = {leases[k][1] : k \in {h \in Keys : leases[h] # NoLease}} \ overtaken

(* Where hooks do not wait, only tabs that are open borrow, but for those  *)
(* closed while they were connecting or reconnected after they closed.     *)
BorrowersAreOpen ==
    ~policy.slow /\ micro = <<>> =>
        \A k \in Keys : leases[k] # NoLease =>
            \A t \in bound[leases[k]] \ stray : tab[t] = "open"

Uses(t) == tab[t] = "open" /\ pc[<<"job", t>>] = "idle" /\ shown[t] \in remote \ (closing \cup overtaken)

(* A tab whose kind gives it a session of its own, and that shows one, is  *)
(* registered as its borrower: closing the tab will close the session.     *)
OwnerIsRegistered ==
    policy.sharing = "per_tab" /\ ~policy.slow /\ ~raced /\ Settled =>
        \A t \in Tabs : Uses(t) => getLeaseByTabId(t) # NoLease /\ getLeaseByTabId(t)[1] = shown[t]

(* Where hooks do not wait, a lease that has left the table is not closed  *)
(* again, nor is what took its place deleted (session-registry.ts:327,     *)
(* finalizeClose): session.close is called for a session of the table.     *)
ClosesWhatIsRegistered ==
    [][~policy.slow => \A s \in closing' \ closing :
            \E k \in Keys : leases[k] # NoLease /\ leases[k][1] = s]_sessionVars

(* Every tab that shows a live session is registered as its borrower       *)
(* (docs/21 section 3.2, rule 1).                                          *)
EveryBorrowerRegistered ==
    ~policy.slow /\ Settled => \A t \in Tabs : Uses(t) => getLeaseByTabId(t) # NoLease

(* Once every tab of a connection has been closed, its session is closed,  *)
(* whatever the policy.                                                    *)
Deserted(k) == \A t \in Tabs : buildSessionKey(t) = k => tab[t] = "closed" /\ t \notin stray
DesertedIsClosed ==
    \A t \in Tabs :
        ~policy.slow /\ Deserted(buildSessionKey(t))
            ~> leases[buildSessionKey(t)] = NoLease \/ ~Deserted(buildSessionKey(t))
=============================================================================
