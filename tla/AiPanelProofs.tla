---------------------------- MODULE AiPanelProofs ----------------------------
(* Proofs about AiPanel, for any conversations, any number of sends, any   *)
(* hydrations and any budgets.                                             *)
EXTENDS AiPanel, TLAPS

\* A conversation in which no call was lost, and that was not deleted.
Watched(c) == c \notin dropped /\ Plain(c)
Sending(c) == slot[c] # NoSlot /\ slot[c].sending
Pending == {"token", "calling"}
Of(c) == {i \in Runs : send[i].conv = c}

LoadOwned(l, slots) ==
    /\ l.stage # "unused" => l.conv \in Conversations
    /\ l.current => l.conv \in Conversations /\ slots[l.conv] \in Slot

\* Sends, hydrations and events belong to a conversation.
OwnedInv ==
    /\ \A i \in Runs : send[i].stage # "unsent" => send[i].conv \in Conversations
    /\ \A i \in Runs : send[i].stage = "unsent" => srv[i] = "none"
    /\ \A n \in Loads : LoadOwned(load[n], slot)
    /\ \A n \in DOMAIN events : srv[events[n][1]] # "none"

TypeInv == TypeOK /\ OwnedInv

\* What cannot be before a send is made, before its run has started, and
\* after its conversation was deleted.
FreshInv ==
    /\ \A i \in Runs :
        /\ send[i].stage = "unsent" => send[i].conv = NoConv /\ i \notin stopped
        /\ send[i].stage = "token" => srv[i] = "none"
        /\ send[i].stage = "adopted" => srv[i] # "none"
        /\ send[i].stage = "adopted" /\ send[i].conv \in dropped => i \in stopped
        /\ i \in closed \cup cancels \cup taken => srv[i] # "none"

\* The event of the end is sent by a run that ends or is taken out.
EndInv ==
    \A n \in DOMAIN events :
        events[n][2] \in Terminal => srv[events[n][1]] = "ended" \/ events[n][1] \in taken

\* A run that the panel has closed is over, or its cancellation is under way.
ClosedInv ==
    \A i \in closed :
        Plain(send[i].conv) => srv[i] = "ended" \/ i \in taken \cup cancels

\* A send is given up before its run starts, with its run closed or as an orphan.
GivenUpInv ==
    \A i \in Runs : send[i].stage = "given up" => srv[i] = "none" \/ i \in orphans \cup closed

\* The run that a conversation shows.
RunAt(c) ==
    slot[c] # NoSlot =>
        /\ slot[c].runId # None =>
               /\ send[slot[c].runId].conv = c
               /\ send[slot[c].runId].stage = "adopted"
               /\ c \notin dropped
        /\ Watched(c) =>
               /\ slot[c].status = "running" => slot[c].sending
               /\ slot[c].runId # None =>
                    slot[c].runId \in Latest(c) /\ (slot[c].sending \/ slot[c].runId \in closed)

\* A send whose call is not answered is the last one of its conversation,
\* which waits for it unless the event of its end has overtaken the answer.
PendingAt(c) ==
    Watched(c) =>
        \A i \in Of(c) : send[i].stage \in Pending =>
            /\ i \in Latest(c)
            /\ Sending(c) <=> i \notin closed
            /\ slot[c] # NoSlot => slot[c].runId = None

\* An adopted run that is not closed is the one that its conversation shows.
AdoptedAt(c) ==
    Watched(c) =>
        \A i \in Of(c) : send[i].stage = "adopted" =>
            i \in closed \/ (slot[c] # NoSlot /\ slot[c].runId = i)

TextAt(c) == Watched(c) /\ slot[c] # NoSlot => slot[c].text \subseteq Latest(c)

\* A conversation waits for its last send.
BusyAt(c) ==
    Watched(c) /\ Sending(c) =>
        \E i \in Latest(c) :
            /\ i \notin closed
            /\ send[i].stage \in Pending \/ (send[i].stage = "adopted" /\ slot[c].runId = i)

EndSent(i) ==
    \/ srv[i] \in Running /\ i \notin taken
    \/ \E n \in DOMAIN events : events[n][1] = i /\ events[n][2] \in Terminal

\* The end of a run that is waited for, and whose events are heard, comes.
ComingAt(c) ==
    Watched(c) /\ Sending(c) =>
        \A i \in Of(c) \ closed :
            srv[i] # "none" /\ ~(slot[c].cancelPending /\ slot[c].runId = None) => EndSent(i)

RunInv == \A c \in Conversations : RunAt(c)
PendingInv == \A c \in Conversations : PendingAt(c)
AdoptedInv == \A c \in Conversations : AdoptedAt(c)
TextInv == \A c \in Conversations : TextAt(c)
BusyInv == \A c \in Conversations : BusyAt(c)
ComingInv == \A c \in Conversations : ComingAt(c)

\* A stop is kept until the run is known, and then sent.
StopInv ==
    \A i \in stopped :
        Plain(send[i].conv) =>
            /\ send[i].stage \in Pending /\ send[i].conv \notin dropped =>
                   Sending(send[i].conv) /\ slot[send[i].conv].cancelPending
            /\ send[i].stage = "adopted" => srv[i] = "ended" \/ i \in taken \cup cancels

IInv == FreshInv /\ EndInv /\ ClosedInv /\ GivenUpInv /\ RunInv /\ PendingInv /\ AdoptedInv
        /\ TextInv /\ BusyInv /\ ComingInv /\ StopInv

USE DEF panel, calls, platform, history, RunAt, PendingAt, AdoptedAt, TextAt, BusyAt, ComingAt

-----------------------------------------------------------------------------
\* Next, one disjunct per action.
LEMMA NextCases ==
    ASSUME Next
    PROVE  \/ \E c \in Conversations : Open(c)
           \/ \E c \in Conversations : Remove(c)
           \/ \E c \in Conversations : StoreDeletes(c)
           \/ \E c \in Conversations : RemoveFails(c)
           \/ \E c \in Conversations : RemoveReturns(c)
           \/ \E c \in Conversations : RemoveRefreshed(c)
           \/ \E n \in Loads : LoadReads(n)
           \/ \E n \in Loads : LoadFails(n)
           \/ \E n \in Loads : LoadReturns(n)
           \/ \E i \in Runs, kind \in Kinds, from \in Runs \cup {None} : Send(i, kind, from)
           \/ \E i \in Runs : TokenResolves(i)
           \/ \E i \in Runs : TokenFails(i)
           \/ \E i \in Runs : CallFails(i)
           \/ \E i \in Runs : adoptRun(i)
           \/ \E i \in Runs : RunStarts(i)
           \/ \E i \in Runs : RunSpeaks(i)
           \/ \E i \in Runs : RunAnswers(i)
           \/ \E i \in Runs : RunEnds(i)
           \/ \E i \in Runs : CancelArrives(i)
           \/ Stop
           \/ applyBridgeEvent
BY DEF Next

-----------------------------------------------------------------------------
(* Types.                                                                   *)

USE DEF None, Statuses, Terminal, Kinds, Slot, SendOf, LoadOf, NoLoad, createSession,
        sessionBusy, sessionOf, Running, Settle, Emit, RemoveTo

Event == Runs \X (Terminal \cup {"running", "token", "message"})

RemoveOf == [stage : {"no", "asked", "deleted", "refreshing", "done"}, wasActive : BOOLEAN]

LEMMA EventTypes ==
    ASSUME TypeOK, NEW i \in Runs, NEW type \in Terminal \cup {"running", "token", "message"},
           Emit(i, type)
    PROVE  events' \in Seq(Event)
<1>1. <<i, type>> \in Event
    BY DEF Event
<1>2. events \in Seq(Event)
    BY DEF TypeOK, Event
<1>3. events' = Append(events, <<i, type>>)
    OBVIOUS
<1>. HIDE DEF Event
<1>. QED  BY <1>1, <1>2, <1>3

LEMMA BudgetTypes ==
    ASSUME TypeOK, Free \/ \E class : Spend(class)
    PROVE  budget' \in [Classes -> Nat]
<1>1. ASSUME NEW class, Spend(class) PROVE budget' \in [Classes -> Nat]
    <2>1. budget \in [Classes -> Nat] /\ budget' = [budget EXCEPT ![class] = @ - 1] /\ budget[class] > 0
        BY <1>1 DEF TypeOK, Spend
    <2>2. ASSUME class \in Classes PROVE budget[class] - 1 \in Nat
        BY <2>1, <2>2
    <2>. QED  BY <2>1, <2>2
<1>. QED  BY <1>1 DEF TypeOK, Free

LEMMA ReleasedTypes ==
    ASSUME NEW s \in Slot
    PROVE  Released(s) \in Slot \cup {NoSlot}
BY DEF Released

LEMMA DetachTypes ==
    ASSUME NEW c \in Conversations, NEW loads \in [Loads -> LoadOf]
    PROVE  Detach(c, loads) \in [Loads -> LoadOf]
BY DEF Detach

LEMMA HydrateTypes ==
    ASSUME NEW c \in Conversations, NEW slots \in [Conversations -> Slot \cup {NoSlot}],
           NEW gens \in [Conversations -> Nat], NEW loads \in [Loads -> LoadOf],
           hydrateConversation(c, slots, gens, loads)
    PROVE  /\ slot' \in [Conversations -> Slot \cup {NoSlot}]
           /\ loadGen' \in [Conversations -> Nat]
           /\ load' \in [Loads -> LoadOf]
<1>1. CASE sessionBusy(slots[c])
    BY <1>1 DEF hydrateConversation
<1>2. CASE ~sessionBusy(slots[c])
    <2>. DEFINE unused == {n \in Loads : loads[n].stage = "unused"}
                n == CHOOSE m \in unused : TRUE
                new == [conv |-> c, gen |-> gens[c] + 1, current |-> TRUE, rows |-> {}, stage |-> "asked"]
    <2>1. n \in Loads
        BY <1>2 DEF hydrateConversation
    <2>2. new \in LoadOf
        OBVIOUS
    <2>3. load' = [loads EXCEPT ![n] = new] /\ loadGen' = [gens EXCEPT ![c] = @ + 1] /\ slot' = slots
        BY <1>2 DEF hydrateConversation
    <2>. HIDE DEF n, new
    <2>. QED  BY <2>1, <2>2, <2>3
<1>. QED  BY <1>1, <1>2

LEMMA OpenTypes ==
    ASSUME TypeOK, NEW c \in Conversations, openConversation(c)
    PROVE  /\ active' \in Conversations
           /\ slot' \in [Conversations -> Slot \cup {NoSlot}]
           /\ loadGen' \in [Conversations -> Nat]
           /\ load' \in [Loads -> LoadOf]
<1>. DEFINE leaves == active \notin {NoConv, c} /\ slot[active] # NoSlot /\ ~sessionBusy(slot[active])
            slots == IF leaves THEN [slot EXCEPT ![active] = Released(@)] ELSE slot
            gens == IF leaves THEN [loadGen EXCEPT ![active] = 0] ELSE loadGen
            loads == IF leaves /\ slots[active] = NoSlot THEN Detach(active, load) ELSE load
<1>1. slots \in [Conversations -> Slot \cup {NoSlot}]
    BY ReleasedTypes, ZenonT(60) DEF TypeOK
<1>2. gens \in [Conversations -> Nat]
    BY DEF TypeOK
<1>3. loads \in [Loads -> LoadOf]
    BY DetachTypes DEF TypeOK
<1>4. sessionOf(c) \in Slot
    BY ZenonT(60) DEF TypeOK, Runs
<1>5. active' = c /\ hydrateConversation(c, [slots EXCEPT ![c] = sessionOf(c)], gens, loads)
    BY DEF openConversation
<1>. HIDE DEF slots, gens, loads
<1>6. [slots EXCEPT ![c] = sessionOf(c)] \in [Conversations -> Slot \cup {NoSlot}]
    BY <1>1, <1>4
<1>. QED  BY <1>2, <1>3, <1>5, <1>6, HydrateTypes

LEMMA HydrateOwns ==
    ASSUME NEW c \in Conversations, NEW slots, NEW gens, NEW loads \in [Loads -> LoadOf],
           slots[c] \in Slot, \A n \in Loads : LoadOwned(loads[n], slots),
           hydrateConversation(c, slots, gens, loads)
    PROVE  \A n \in Loads : LoadOwned(load'[n], slot')
<1>1. CASE sessionBusy(slots[c])
    BY <1>1 DEF hydrateConversation
<1>2. CASE ~sessionBusy(slots[c])
    <2>. DEFINE n == CHOOSE m \in {m \in Loads : loads[m].stage = "unused"} : TRUE
                new == [conv |-> c, gen |-> gens[c] + 1, current |-> TRUE, rows |-> {}, stage |-> "asked"]
    <2>1. load' = [loads EXCEPT ![n] = new] /\ slot' = slots
        BY <1>2 DEF hydrateConversation
    <2>2. LoadOwned(new, slots)
        BY DEF LoadOwned
    <2>. HIDE DEF n, new, Slot, LoadOf
    <2>. QED  BY <2>1, <2>2
<1>. QED  BY <1>1, <1>2

\* A slot that is released keeps no hydration.
LEMMA ReleaseOwns ==
    ASSUME NEW a \in Conversations, NEW slots \in [Conversations -> Slot \cup {NoSlot}],
           NEW loads \in [Loads -> LoadOf], NEW s \in Slot,
           \A n \in Loads : LoadOwned(loads[n], slots)
    PROVE  LET left == [slots EXCEPT ![a] = Released(s)]
           IN  \A n \in Loads :
                  LoadOwned((IF Released(s) = NoSlot THEN Detach(a, loads) ELSE loads)[n], left)
<1>1. Released(s) \in Slot \cup {NoSlot}
    BY ReleasedTypes
<1>. HIDE DEF Slot
<1>. QED  BY <1>1 DEF LoadOwned, Detach, LoadOf

LEMMA DropOwns ==
    ASSUME NEW a \in Conversations, NEW slots \in [Conversations -> Slot \cup {NoSlot}],
           NEW loads \in [Loads -> LoadOf],
           \A n \in Loads : LoadOwned(loads[n], slots)
    PROVE  \A n \in Loads : LoadOwned(Detach(a, loads)[n], [slots EXCEPT ![a] = NoSlot])
<1>. HIDE DEF Slot
<1>. QED  BY DEF LoadOwned, Detach, LoadOf

\* Opening asks for a hydration of the conversation that is opened.
LEMMA OpenOwns ==
    ASSUME TypeOK, OwnedInv, NEW c \in Conversations, openConversation(c)
    PROVE  \A n \in Loads : LoadOwned(load'[n], slot')
<1>. DEFINE leaves == active \notin {NoConv, c} /\ slot[active] # NoSlot /\ ~sessionBusy(slot[active])
            slots == IF leaves THEN [slot EXCEPT ![active] = Released(@)] ELSE slot
            gens == IF leaves THEN [loadGen EXCEPT ![active] = 0] ELSE loadGen
            loads == IF leaves /\ slots[active] = NoSlot THEN Detach(active, load) ELSE load
            opened == [slots EXCEPT ![c] = sessionOf(c)]
<1>1. slots \in [Conversations -> Slot \cup {NoSlot}] /\ loads \in [Loads -> LoadOf]
    <2>. HIDE DEF Slot, LoadOf
    <2>1. leaves => active \in Conversations /\ slot[active] \in Slot
        BY DEF TypeOK
    <2>2. slots \in [Conversations -> Slot \cup {NoSlot}]
        BY <2>1, ReleasedTypes DEF TypeOK
    <2>3. loads \in [Loads -> LoadOf]
        BY <2>1, DetachTypes DEF TypeOK
    <2>. QED  BY <2>2, <2>3
<1>2. sessionOf(c) \in Slot
    BY ZenonT(60) DEF TypeOK, Runs
<1>3. active' = c /\ hydrateConversation(c, opened, gens, loads)
    BY DEF openConversation
<1>4. \A n \in Loads : LoadOwned(loads[n], slots)
    <2>1. CASE leaves
        <3>1. active \in Conversations /\ slot[active] \in Slot
            BY <2>1, ZenonT(60) DEF TypeOK
        <3>2. slots = [slot EXCEPT ![active] = Released(slot[active])] /\ slots[active] = Released(slot[active])
            BY <2>1, <3>1 DEF TypeOK
        <3>3. loads = IF Released(slot[active]) = NoSlot THEN Detach(active, load) ELSE load
            BY <2>1, <3>2
        <3>. HIDE DEF slots, loads
        <3>. QED  BY <3>1, <3>2, <3>3, ReleaseOwns DEF TypeOK, OwnedInv
    <2>2. CASE ~leaves
        BY <2>2 DEF OwnedInv
    <2>. QED  BY <2>1, <2>2
<1>. HIDE DEF slots, gens, loads
<1>5. opened[c] \in Slot /\ \A n \in Loads : LoadOwned(loads[n], opened)
    <2>. HIDE DEF Slot
    <2>. QED  BY <1>1, <1>2, <1>4 DEF LoadOwned
<1>. HIDE DEF opened
<1>. QED  BY <1>1, <1>3, <1>5, HydrateOwns

LEMMA SettleSend ==
    ASSUME send \in [Runs -> SendOf], NEW i \in Runs,
           NEW stage \in {"unsent", "token", "calling", "adopted", "given up"}, Settle(i, stage)
    PROVE  /\ send' \in [Runs -> SendOf]
           /\ send' = [send EXCEPT ![i] = [send[i] EXCEPT !.stage = stage]]
           /\ \A j \in Runs : send'[j].conv = send[j].conv /\ send'[j].kind = send[j].kind
           /\ \A j \in Runs : send'[j].stage = IF j = i THEN stage ELSE send[j].stage
<1>1. [send[i] EXCEPT !.stage = stage] \in SendOf
    OBVIOUS
<1>2. send' = [send EXCEPT ![i] = [send[i] EXCEPT !.stage = stage]]
    OBVIOUS
<1>3. send' \in [Runs -> SendOf]
    <2>. HIDE DEF SendOf
    <2>. QED  BY <1>1, <1>2
<1>. DEFINE new == [send[i] EXCEPT !.stage = stage]
<1>4. new.stage = stage /\ new.conv = send[i].conv /\ new.kind = send[i].kind
    OBVIOUS
<1>. HIDE DEF new, SendOf
<1>5. \A j \in Runs : send'[j] = IF j = i THEN new ELSE send[j]
    BY <1>2 DEF new
<1>. QED  BY <1>2, <1>3, <1>4, <1>5

\* An event that is appended is of a run that has started.
LEMMA EventOwns ==
    ASSUME NEW f, NEW i \in Runs, NEW type, events \in Seq(Event), f[i] # "none",
           \A m \in DOMAIN events : f[events[m][1]] # "none",
           Emit(i, type)
    PROVE  \A m \in DOMAIN events' : f[events'[m][1]] # "none"
<1>. HIDE DEF Event
<1>. QED  OBVIOUS

\* A run that has started may send an event.
LEMMA EmitOwned ==
    ASSUME TypeOK, OwnedInv, NEW i \in Runs, send[i].stage # "unsent", srv'[i] # "none",
           \A j \in Runs : srv'[j] = "none" <=> srv[j] = "none" /\ j # i,
           events' = events \/ \E type : Emit(i, type),
           UNCHANGED <<load, send, slot>>
    PROVE  OwnedInv'
<1>. DEFINE f == srv'
<1>0. events \in Seq(Event)
    BY DEF TypeOK, Event
<1>1. events \in Seq(Event) /\ \A m \in DOMAIN events : events[m] \in Event
    <2>. HIDE DEF Event
    <2>. QED  BY <1>0
<1>2. f[i] # "none" /\ \A m \in DOMAIN events : f[events[m][1]] # "none"
    BY <1>1 DEF OwnedInv, Event
<1>. HIDE DEF f, Event
<1>3. ASSUME NEW type, Emit(i, type) PROVE \A m \in DOMAIN events' : f[events'[m][1]] # "none"
    BY <1>1, <1>2, <1>3, EventOwns
<1>4. \A m \in DOMAIN events' : f[events'[m][1]] # "none"
    BY <1>2, <1>3
<1>. HIDE DEF Slot, LoadOf
<1>. QED  BY <1>4 DEF f, OwnedInv

LEMMA TailOwns ==
    ASSUME NEW f, events \in Seq(Event), events # <<>>, events' = Tail(events),
           \A m \in DOMAIN events : f[events[m][1]] # "none"
    PROVE  /\ events' \in Seq(Event)
           /\ \A m \in DOMAIN events' : f[events'[m][1]] # "none"
<1>. HIDE DEF Event
<1>. QED  OBVIOUS

\* Writing a slot disturbs no hydration.
LEMMA SlotOwns ==
    ASSUME NEW c \in Conversations, NEW slots \in [Conversations -> Slot \cup {NoSlot}],
           NEW loads \in [Loads -> LoadOf], NEW s \in Slot,
           \A n \in Loads : LoadOwned(loads[n], slots)
    PROVE  /\ [slots EXCEPT ![c] = s] \in [Conversations -> Slot \cup {NoSlot}]
           /\ \A n \in Loads : LoadOwned(loads[n], [slots EXCEPT ![c] = s])
<1>. HIDE DEF Slot, LoadOf
<1>. QED  BY DEF LoadOwned

LEMMA SettleTypes ==
    ASSUME TypeOK, OwnedInv, NEW c \in Conversations, NEW s \in Slot, settleSessionView(c, s)
    PROVE  /\ slot' \in [Conversations -> Slot \cup {NoSlot}]
           /\ loadGen' \in [Conversations -> Nat]
           /\ load' \in [Loads -> LoadOf]
           /\ \A n \in Loads : LoadOwned(load'[n], slot')
<1>1. slot \in [Conversations -> Slot \cup {NoSlot}] /\ load \in [Loads -> LoadOf]
      /\ loadGen \in [Conversations -> Nat] /\ \A n \in Loads : LoadOwned(load[n], slot)
    BY DEF TypeOK, OwnedInv
<1>2. CASE slot' = [slot EXCEPT ![c] = s] /\ UNCHANGED <<loadGen, load>>
    BY <1>1, <1>2, SlotOwns
<1>3. CASE /\ slot' = [slot EXCEPT ![c] = Released(s)]
           /\ loadGen' = [loadGen EXCEPT ![c] = 0]
           /\ load' = IF Released(s) = NoSlot THEN Detach(c, load) ELSE load
    <2>1. \A n \in Loads : LoadOwned(load'[n], slot')
        BY <1>1, <1>3, ReleaseOwns
    <2>2. load' \in [Loads -> LoadOf]
        BY <1>1, <1>3, DetachTypes
    <2>. HIDE DEF Slot, LoadOf
    <2>3. slot' \in [Conversations -> Slot \cup {NoSlot}] /\ loadGen' \in [Conversations -> Nat]
        BY <1>1, <1>3, ReleasedTypes
    <2>. QED  BY <2>1, <2>2, <2>3
<1>. QED  BY <1>2, <1>3 DEF settleSessionView, releaseIdleSession

LEMMA AppliedTypes ==
    ASSUME NEW s \in Slot, NEW i \in Runs, NEW type \in Terminal \cup {"running", "token", "message"}
    PROVE  Applied(s, i, type) \in Slot
BY DEF Applied

LEMMA ThrowsTypes ==
    ASSUME TypeOK, OwnedInv, NEW i \in Runs, send[i].stage # "unsent", NEW login \in BOOLEAN,
           Throws(i, login)
    PROVE  /\ slot' \in [Conversations -> Slot \cup {NoSlot}]
           /\ loadGen' \in [Conversations -> Nat]
           /\ load' \in [Loads -> LoadOf]
           /\ \A n \in Loads : LoadOwned(load'[n], slot')
           /\ send' \in [Runs -> SendOf]
           /\ torn' \subseteq Conversations
<1>. DEFINE c == send[i].conv
            back == login /\ send[i].kind # "regenerate"
            s == [slot[c] EXCEPT !.sending = FALSE, !.status = IF back THEN "idle" ELSE "error"]
<1>1. slot \in [Conversations -> Slot \cup {NoSlot}] /\ load \in [Loads -> LoadOf]
      /\ loadGen \in [Conversations -> Nat] /\ \A n \in Loads : LoadOwned(load[n], slot)
    BY DEF TypeOK, OwnedInv
<1>2. c \in Conversations
    BY DEF OwnedInv
<1>3. send' \in [Runs -> SendOf] /\ torn' \subseteq Conversations
    <2>1. send' \in [Runs -> SendOf]
        <3>1. Settle(i, "given up")
            BY DEF Throws
        <3>. QED  BY <3>1, SettleSend DEF TypeOK
    <2>2. torn' = torn \/ torn' = torn \cup {c}
        BY DEF Throws
    <2>3. torn' \subseteq Conversations
        BY <1>2, <2>2 DEF TypeOK
    <2>. QED  BY <2>1, <2>3
<1>4. CASE UNCHANGED <<slot, loadGen, load>>
    BY <1>1, <1>3, <1>4
<1>5. CASE slot[c] # NoSlot
    <2>1. s \in Slot
        <3>1. slot[c] \in Slot
            BY <1>1, <1>2, <1>5
        <3>. QED  BY <3>1
    <2>2. CASE slot' = [slot EXCEPT ![c] = s] /\ UNCHANGED <<loadGen, load>>
        <3>. HIDE DEF s
        <3>. QED  BY <1>1, <1>2, <1>3, <2>1, <2>2, SlotOwns
    <2>3. CASE hydrateConversation(c, [slot EXCEPT ![c] = s], loadGen, load)
        <3>. HIDE DEF s, c
        <3>1. /\ [slot EXCEPT ![c] = s] \in [Conversations -> Slot \cup {NoSlot}]
              /\ \A n \in Loads : LoadOwned(load[n], [slot EXCEPT ![c] = s])
            BY <1>1, <1>2, <2>1, SlotOwns
        <3>2. [slot EXCEPT ![c] = s][c] \in Slot
            BY <1>1, <1>2, <2>1
        <3>. QED  BY <1>1, <1>2, <1>3, <2>3, <3>1, <3>2, HydrateTypes, HydrateOwns
    <2>. QED  BY <2>2, <2>3, <1>4, <1>5 DEF Throws
<1>. QED  BY <1>4, <1>5 DEF Throws

LEMMA TypeInit == Init => TypeInv
<1>. SUFFICES ASSUME Init PROVE TypeInv
    OBVIOUS
<1>. QED  BY DEF Init, TypeInv, TypeOK, OwnedInv, LoadOwned, LoadOf

LEMMA TypeNext == TypeInv /\ [Next]_vars => TypeInv'
<1>. SUFFICES ASSUME TypeInv, [Next]_vars PROVE TypeInv'
    OBVIOUS
<1>0. TypeOK /\ OwnedInv
    BY DEF TypeInv
<1>t1. slot \in [Conversations -> Slot \cup {NoSlot}] /\ load \in [Loads -> LoadOf] /\ send \in [Runs -> SendOf]
    BY <1>0 DEF TypeOK
<1>e. events \in Seq(Event)
    BY <1>0 DEF TypeOK, Event
<1>. USE <1>0 DEF RemoveOf
<1>1. ASSUME NEW c \in Conversations, Open(c) PROVE TypeInv'
    <2>. USE <1>1
    <2>1. budget' \in [Classes -> Nat]
        BY BudgetTypes DEF Open
    <2>2. UNCHANGED <<dropped, closed, send, removing, cancels, srv, taken, erased, stored, events, stopped, orphans, overlapped, torn>>
        BY DEF Open
    <2>3. active' \in Conversations /\ slot' \in [Conversations -> Slot \cup {NoSlot}] /\ loadGen' \in [Conversations -> Nat] /\ load' \in [Loads -> LoadOf]
        BY OpenTypes DEF Open
    <2>4. OwnedInv'
        BY OpenOwns DEF OwnedInv, Open
    <2>. HIDE <1>1
    <2>. QED  BY <2>1, <2>2, <2>3, <2>4 DEF TypeInv, TypeOK, Event
<1>2. ASSUME NEW c \in Conversations, Remove(c) PROVE TypeInv'
    <2>. USE <1>2
    <2>1. budget' \in [Classes -> Nat]
        BY BudgetTypes DEF Remove
    <2>2. UNCHANGED <<active, dropped, closed, loadGen, load, send, cancels, srv, taken, erased, stored, events, stopped, orphans, overlapped, torn, slot>>
        BY DEF Remove
    <2>3. removing' \in [Conversations -> RemoveOf]
        BY DEF TypeOK, Remove
    <2>4. OwnedInv'
        BY DEF OwnedInv, LoadOwned, TypeOK, Remove
    <2>. HIDE <1>2
    <2>. QED  BY <2>1, <2>2, <2>3, <2>4 DEF TypeInv, TypeOK, Event
<1>3. ASSUME NEW c \in Conversations, StoreDeletes(c) PROVE TypeInv'
    <2>. USE <1>3
    <2>1. budget' \in [Classes -> Nat]
        BY BudgetTypes DEF StoreDeletes
    <2>2. UNCHANGED <<active, dropped, closed, loadGen, load, send, cancels, srv, taken, stored, events, stopped, orphans, overlapped, torn, slot>>
        BY DEF StoreDeletes
    <2>3. removing' \in [Conversations -> RemoveOf]
        BY DEF TypeOK, StoreDeletes
    <2>4. erased' \subseteq Conversations
        BY DEF TypeOK, StoreDeletes
    <2>5. OwnedInv'
        BY DEF OwnedInv, LoadOwned, TypeOK, StoreDeletes
    <2>. HIDE <1>3
    <2>. QED  BY <2>1, <2>2, <2>3, <2>4, <2>5 DEF TypeInv, TypeOK, Event
<1>4. ASSUME NEW c \in Conversations, RemoveFails(c) PROVE TypeInv'
    <2>. USE <1>4
    <2>1. budget' \in [Classes -> Nat]
        BY BudgetTypes DEF RemoveFails
    <2>2. UNCHANGED <<active, dropped, closed, loadGen, load, send, cancels, srv, taken, erased, stored, events, stopped, orphans, overlapped, torn, slot>>
        BY DEF RemoveFails
    <2>3. removing' \in [Conversations -> RemoveOf]
        BY DEF TypeOK, RemoveFails
    <2>4. OwnedInv'
        BY DEF OwnedInv, LoadOwned, TypeOK, RemoveFails
    <2>. HIDE <1>4
    <2>. QED  BY <2>1, <2>2, <2>3, <2>4 DEF TypeInv, TypeOK, Event
<1>5. ASSUME NEW c \in Conversations, RemoveReturns(c) PROVE TypeInv'
    <2>. USE <1>5
    <2>1. budget' \in [Classes -> Nat]
        BY BudgetTypes DEF RemoveReturns
    <2>2. UNCHANGED <<send, srv, taken, erased, stored, events, orphans, overlapped, torn>>
        BY DEF RemoveReturns
    <2>3. removing' \in [Conversations -> RemoveOf]
        BY DEF TypeOK, RemoveReturns
    <2>4. slot[c] \in Slot \cup {NoSlot}
        BY DEF TypeOK
    <2>5. (IF slot[c] = NoSlot THEN {} ELSE {slot[c].runId} \ {None}) \subseteq Runs
        BY <2>4
    <2>6. dropped' \subseteq Conversations /\ active' \in Conversations \cup {NoConv}
        BY DEF TypeOK, RemoveReturns
    <2>7. closed' \subseteq Runs /\ cancels' \subseteq Runs
        BY <2>5 DEF TypeOK, RemoveReturns
    <2>8. slot' \in [Conversations -> Slot \cup {NoSlot}]
        BY DEF TypeOK, RemoveReturns
    <2>9. loadGen' \in [Conversations -> Nat]
        BY DEF TypeOK, RemoveReturns
    <2>10. load' \in [Loads -> LoadOf]
        BY DetachTypes DEF TypeOK, RemoveReturns
    <2>11. (stopped \cup orphans \cup overlapped)' \subseteq Runs
        BY DEF TypeOK, RemoveReturns
    <2>12. OwnedInv'
        <3>1. load' = Detach(c, load) /\ slot' = [slot EXCEPT ![c] = NoSlot] /\ UNCHANGED <<send, srv, events>>
            BY DEF RemoveReturns
        <3>2. \A n \in Loads : LoadOwned(load'[n], slot')
            BY <3>1, <1>t1, DropOwns DEF OwnedInv
        <3>. HIDE DEF Slot, LoadOf
        <3>. QED  BY <3>1, <3>2 DEF OwnedInv, TypeOK
    <2>. HIDE <1>5
    <2>. QED  BY <2>1, <2>2, <2>3, <2>4, <2>5, <2>6, <2>7, <2>8, <2>9, <2>10, <2>11, <2>12 DEF TypeInv, TypeOK, Event
<1>6. ASSUME NEW c \in Conversations, RemoveRefreshed(c) PROVE TypeInv'
    <2>. USE <1>6
    <2>1. budget' \in [Classes -> Nat]
        BY BudgetTypes DEF RemoveRefreshed
    <2>2. UNCHANGED <<dropped, closed, send, cancels, srv, taken, erased, stored, events, stopped, orphans, overlapped, torn>>
        BY DEF RemoveRefreshed
    <2>3. removing' \in [Conversations -> RemoveOf]
        BY DEF TypeOK, RemoveRefreshed
    <2>4. active' \in Conversations \cup {NoConv} /\ slot' \in [Conversations -> Slot \cup {NoSlot}] /\ loadGen' \in [Conversations -> Nat] /\ load' \in [Loads -> LoadOf]
        BY OpenTypes DEF TypeOK, RemoveRefreshed
    <2>5. OwnedInv'
        BY OpenOwns DEF OwnedInv, RemoveRefreshed
    <2>. HIDE <1>6
    <2>. QED  BY <2>1, <2>2, <2>3, <2>4, <2>5 DEF TypeInv, TypeOK, Event
<1>7. ASSUME NEW n \in Loads, LoadReads(n) PROVE TypeInv'
    <2>. USE <1>7
    <2>1. budget' \in [Classes -> Nat]
        BY BudgetTypes DEF LoadReads
    <2>2. UNCHANGED <<active, dropped, closed, loadGen, send, removing, cancels, srv, taken, erased, stored, events, stopped, orphans, overlapped, torn, slot>>
        BY DEF LoadReads
    <2>3. load[n] \in LoadOf /\ load[n].conv \in Conversations
        BY DEF TypeOK, OwnedInv, LoadOwned, LoadReads
    <2>4. stored[load[n].conv] \subseteq Runs
        BY <2>3 DEF TypeOK
    <2>5. [load[n] EXCEPT !.rows = stored[load[n].conv], !.stage = "read"] \in LoadOf
        BY <2>3, <2>4
    <2>6. load' = [load EXCEPT ![n] = [load[n] EXCEPT !.rows = stored[load[n].conv], !.stage = "read"]]
        BY <2>3 DEF TypeOK, LoadReads
    <2>7. load' \in [Loads -> LoadOf]
        BY <2>5, <2>6 DEF TypeOK
    <2>8. OwnedInv'
        <3>1. LoadOwned([load[n] EXCEPT !.rows = stored[load[n].conv], !.stage = "read"], slot)
            BY <2>3 DEF LoadOwned, OwnedInv, TypeOK
        <3>2. UNCHANGED <<slot, send, srv, events>>
            BY DEF LoadReads
        <3>. HIDE DEF Slot, LoadOf
        <3>. QED  BY <2>6, <3>1, <3>2 DEF OwnedInv, TypeOK
    <2>. HIDE <1>7
    <2>. QED  BY <2>1, <2>2, <2>3, <2>4, <2>5, <2>6, <2>7, <2>8 DEF TypeInv, TypeOK, Event
<1>8. ASSUME NEW n \in Loads, LoadFails(n) PROVE TypeInv'
    <2>. USE <1>8
    <2>1. budget' \in [Classes -> Nat]
        BY BudgetTypes DEF LoadFails
    <2>2. UNCHANGED <<active, dropped, closed, loadGen, send, removing, cancels, srv, taken, erased, stored, events, stopped, orphans, overlapped, slot>>
        BY DEF LoadFails
    <2>3. load' \in [Loads -> LoadOf]
        BY DEF TypeOK, LoadFails
    <2>3a. torn' \subseteq Conversations
        <3>1. load[n].conv \in Conversations
            BY DEF OwnedInv, LoadOwned, LoadFails
        <3>2. torn' = torn \/ torn' = torn \cup {load[n].conv}
            BY DEF LoadFails
        <3>. QED  BY <3>1, <3>2 DEF TypeOK
    <2>4. OwnedInv'
        BY DEF OwnedInv, LoadOwned, TypeOK, LoadFails
    <2>. HIDE <1>8
    <2>. QED  BY <2>1, <2>2, <2>3, <2>3a, <2>4 DEF TypeInv, TypeOK, Event
<1>9. ASSUME NEW n \in Loads, LoadReturns(n) PROVE TypeInv'
    <2>. USE <1>9
    <2>1. budget' \in [Classes -> Nat]
        BY BudgetTypes DEF LoadReturns
    <2>2. UNCHANGED <<active, dropped, closed, loadGen, send, removing, cancels, srv, taken, erased, stored, events, stopped, orphans, overlapped, torn>>
        BY DEF LoadReturns
    <2>3. load' \in [Loads -> LoadOf]
        BY DEF TypeOK, LoadReturns
    <2>4. load[n] \in LoadOf
        BY DEF TypeOK
    <2>5. LET c == load[n].conv IN slot' = slot \/ (slot[c] \in Slot /\ c \in Conversations /\ slot' = [slot EXCEPT ![c] = [slot[c] EXCEPT !.messages = load[n].rows, !.loaded = TRUE]])
        BY DEF TypeOK, OwnedInv, LoadOwned, LoadReturns
    <2>6. \A x \in Slot : [x EXCEPT !.messages = load[n].rows, !.loaded = TRUE] \in Slot
        BY <2>4
    <2>7. slot' \in [Conversations -> Slot \cup {NoSlot}]
        <3>. DEFINE c == load[n].conv
                    new == [slot[c] EXCEPT !.messages = load[n].rows, !.loaded = TRUE]
        <3>1. slot' = slot \/ (new \in Slot /\ c \in Conversations /\ slot' = [slot EXCEPT ![c] = new])
            BY <2>5, <2>6
        <3>. HIDE <1>0, <1>9 DEF Slot, new, c
        <3>. QED  BY <3>1, <1>t1
    <2>8. OwnedInv'
        <3>. DEFINE c == load[n].conv
        <3>1. load' = [load EXCEPT ![n] = NoLoad] /\ UNCHANGED <<send, srv, events>>
            BY DEF LoadReturns
        <3>2. \A x \in Conversations : slot[x] \in Slot => slot'[x] \in Slot
            <4>. HIDE DEF Slot
            <4>. QED  BY <2>5, <2>6, <2>7, ZenonT(60) DEF TypeOK
        <3>3. LoadOwned(NoLoad, slot')
            BY DEF LoadOwned
        <3>. HIDE DEF Slot, LoadOf, NoLoad
        <3>. QED  BY <3>1, <3>2, <3>3 DEF OwnedInv, LoadOwned, TypeOK
    <2>. HIDE <1>9
    <2>. QED  BY <2>1, <2>2, <2>3, <2>4, <2>5, <2>6, <2>7, <2>8 DEF TypeInv, TypeOK, Event
<1>10. ASSUME NEW i \in Runs, NEW kind \in Kinds, NEW from \in Runs \cup {None}, Send(i, kind, from) PROVE TypeInv'
    <2>. USE <1>10
    <2>1. budget' \in [Classes -> Nat]
        BY BudgetTypes DEF Send
    <2>2. UNCHANGED <<active, dropped, loadGen, load, removing, cancels, srv, taken, erased, stored, events, stopped, orphans>>
        BY DEF Send
    <2>3. active \in Conversations
        BY DEF TypeOK, Send
    <2>4. sessionOf(active) \in Slot
        BY <2>3, <1>t1 DEF Runs
    <2>5. [sessionOf(active) EXCEPT !.cancelPending = FALSE, !.runId = None, !.sending = TRUE, !.status = "running",
                  !.text = {}, !.messages = Cut(@, from)] \in Slot
        BY <2>4 DEF Cut
    <2>6. slot' \in [Conversations -> Slot \cup {NoSlot}] /\ \A n \in Loads : LoadOwned(load'[n], slot')
        <3>. DEFINE new == [sessionOf(active) EXCEPT !.cancelPending = FALSE, !.runId = None, !.sending = TRUE,
                                !.status = "running", !.text = {}, !.messages = Cut(@, from)]
        <3>1. slot' = [slot EXCEPT ![active] = new] /\ load' = load
            BY DEF Send
        <3>. HIDE DEF new
        <3>. QED  BY <2>3, <2>5, <3>1, <1>t1, SlotOwns, ZenonT(60) DEF OwnedInv, new
    <2>7. send' = [send EXCEPT ![i] = [conv |-> active, kind |-> kind, from |-> from, stage |-> "token"]]
        BY DEF Send
    <2>8. send' \in [Runs -> SendOf]
        BY <2>3, <2>7, <1>t1
    <2>9. closed' \subseteq Runs /\ (stopped \cup orphans \cup overlapped)' \subseteq Runs /\ torn' \subseteq Conversations
        BY <2>3, <2>4 DEF TypeOK, Send
    <2>10. OwnedInv'
        <3>1. UNCHANGED <<srv, events>> /\ send[i].stage = "unsent"
            BY DEF Send, NextRun, Runs
        <3>. HIDE DEF Slot, LoadOf
        <3>. QED  BY <2>3, <2>6, <2>7, <3>1, <1>t1 DEF OwnedInv
    <2>. HIDE <1>10
    <2>. QED  BY <2>1, <2>2, <2>3, <2>4, <2>5, <2>6, <2>7, <2>8, <2>9, <2>10 DEF TypeInv, TypeOK, Event
<1>11. ASSUME NEW i \in Runs, TokenResolves(i) PROVE TypeInv'
    <2>. USE <1>11
    <2>1. budget' \in [Classes -> Nat]
        BY BudgetTypes DEF TokenResolves
    <2>2. UNCHANGED <<active, dropped, closed, loadGen, load, removing, cancels, srv, taken, erased, stored, events, stopped, orphans, overlapped, torn, slot>>
        BY DEF TokenResolves
    <2>3. \E stage \in {"given up", "calling"} : Settle(i, stage)
        BY DEF TokenResolves
    <2>4. send' \in [Runs -> SendOf]
        BY <1>t1, <2>3, SettleSend
    <2>5. \A j \in Runs : send'[j].conv = send[j].conv /\ (send'[j].stage = "unsent" <=> send[j].stage = "unsent")
        <3>1. send[i].stage # "unsent"
            BY DEF TokenResolves
        <3>2. send \in [Runs -> SendOf]
            BY <1>t1
        <3>. HIDE DEF Settle, SendOf
        <3>. QED  BY <2>3, <3>1, <3>2, SettleSend, ZenonT(60)
    <2>6. OwnedInv'
        <3>. HIDE DEF Slot, LoadOf
        <3>. QED  BY <2>2, <2>5 DEF OwnedInv
    <2>. HIDE <1>11
    <2>. QED  BY <2>1, <2>2, <2>3, <2>4, <2>5, <2>6 DEF TypeInv, TypeOK, Event
<1>12. ASSUME NEW i \in Runs, TokenFails(i) PROVE TypeInv'
    <2>. USE <1>12
    <2>1. budget' \in [Classes -> Nat]
        BY BudgetTypes DEF TokenFails
    <2>2. send[i].stage # "unsent" /\ \E login \in BOOLEAN : Throws(i, login)
        BY DEF TokenFails
    <2>3. slot' \in [Conversations -> Slot \cup {NoSlot}] /\ loadGen' \in [Conversations -> Nat] /\ load' \in [Loads -> LoadOf]
        BY <2>2, ThrowsTypes
    <2>4. send' \in [Runs -> SendOf] /\ torn' \subseteq Conversations /\ \A n \in Loads : LoadOwned(load'[n], slot')
        BY <2>2, ThrowsTypes
    <2>5. UNCHANGED <<active, dropped, closed, removing, cancels, srv, taken, erased, stored, events, stopped, overlapped>>
        BY DEF TokenFails, Throws
    <2>6. (stopped \cup orphans \cup overlapped)' \subseteq Runs
        BY <2>5 DEF TypeOK, TokenFails
    <2>7. OwnedInv'
        <3>1. send' = [send EXCEPT ![i].stage = "given up"]
            BY <2>2 DEF Throws
        <3>. HIDE DEF Slot, LoadOf
        <3>. QED  BY <2>2, <2>4, <2>5, <3>1, <1>t1, ZenonT(60) DEF OwnedInv
    <2>. HIDE <1>12
    <2>. QED  BY <2>1, <2>2, <2>3, <2>4, <2>5, <2>6, <2>7 DEF TypeInv, TypeOK, Event
<1>13. ASSUME NEW i \in Runs, CallFails(i) PROVE TypeInv'
    <2>. USE <1>13
    <2>1. budget' \in [Classes -> Nat]
        BY BudgetTypes DEF CallFails
    <2>2. send[i].stage # "unsent" /\ \E login \in BOOLEAN : Throws(i, login)
        BY DEF CallFails
    <2>3. slot' \in [Conversations -> Slot \cup {NoSlot}] /\ loadGen' \in [Conversations -> Nat] /\ load' \in [Loads -> LoadOf]
        BY <2>2, ThrowsTypes
    <2>4. send' \in [Runs -> SendOf] /\ torn' \subseteq Conversations /\ \A n \in Loads : LoadOwned(load'[n], slot')
        BY <2>2, ThrowsTypes
    <2>5. UNCHANGED <<active, dropped, closed, removing, cancels, srv, taken, erased, stored, events, stopped, overlapped>>
        BY DEF CallFails, Throws
    <2>6. (stopped \cup orphans \cup overlapped)' \subseteq Runs
        BY <2>5 DEF TypeOK, CallFails
    <2>7. OwnedInv'
        <3>1. send' = [send EXCEPT ![i].stage = "given up"]
            BY <2>2 DEF Throws
        <3>. HIDE DEF Slot, LoadOf
        <3>. QED  BY <2>2, <2>4, <2>5, <3>1, <1>t1, ZenonT(60) DEF OwnedInv
    <2>. HIDE <1>13
    <2>. QED  BY <2>1, <2>2, <2>3, <2>4, <2>5, <2>6, <2>7 DEF TypeInv, TypeOK, Event
<1>14. ASSUME NEW i \in Runs, adoptRun(i) PROVE TypeInv'
    <2>. USE <1>14
    <2>1. budget' \in [Classes -> Nat]
        BY BudgetTypes DEF adoptRun
    <2>2. UNCHANGED <<active, dropped, loadGen, load, removing, srv, taken, erased, stored, events, stopped, orphans, overlapped, torn>>
        BY DEF adoptRun
    <2>3. send[i].conv \in Conversations
        BY DEF OwnedInv, adoptRun
    <2>4. send' \in [Runs -> SendOf] /\ closed' \subseteq Runs /\ cancels' \subseteq Runs
        <3>1. closed' \subseteq Runs /\ cancels' \subseteq Runs
            <4>1. closed' \in {closed, closed \cup {i}} /\ cancels' \in {cancels, cancels \cup {i}}
                BY DEF adoptRun
            <4>. QED  BY <4>1 DEF TypeOK
        <3>2. \E stage \in {"given up", "adopted"} : Settle(i, stage)
            BY DEF adoptRun
        <3>. QED  BY <3>1, <3>2, <1>t1, SettleSend
    <2>5. slot' = slot \/ \E s \in Slot : slot' = [slot EXCEPT ![send[i].conv] = s]
        <3>. DEFINE c == send[i].conv
        <3>1. slot[c] = NoSlot \/ slot[c] \in Slot
            BY <2>3, <1>t1
        <3>2. slot[c] \in Slot => /\ [slot[c] EXCEPT !.runId = i] \in Slot
                                 /\ [slot[c] EXCEPT !.cancelPending = FALSE, !.text = {}, !.runId = None,
                                                    !.status = "cancelled", !.sending = FALSE] \in Slot
            OBVIOUS
        <3>3. \/ slot[c] = NoSlot /\ slot' = slot
              \/ slot' = slot
              \/ slot' = [slot EXCEPT ![c] = [slot[c] EXCEPT !.runId = i]]
              \/ slot' = [slot EXCEPT ![c] = [slot[c] EXCEPT !.cancelPending = FALSE, !.text = {}, !.runId = None,
                                                    !.status = "cancelled", !.sending = FALSE]]
            BY <2>3, <1>t1 DEF adoptRun
        <3>4. slot' # slot => slot[c] # NoSlot
            BY DEF adoptRun
        <3>. HIDE DEF Slot, c
        <3>. QED  BY <3>1, <3>2, <3>3, <3>4 DEF c
    <2>6. slot' \in [Conversations -> Slot \cup {NoSlot}] /\ \A n \in Loads : LoadOwned(load'[n], slot')
        <3>0. load' = load /\ \A n \in Loads : LoadOwned(load[n], slot)
            BY <2>2 DEF OwnedInv
        <3>. HIDE DEF Slot, LoadOf
        <3>1. CASE slot' = slot
            BY <3>0, <3>1, <1>t1
        <3>2. ASSUME NEW s \in Slot, slot' = [slot EXCEPT ![send[i].conv] = s]
              PROVE  slot' \in [Conversations -> Slot \cup {NoSlot}] /\ \A n \in Loads : LoadOwned(load'[n], slot')
            BY <2>3, <3>0, <3>2, <1>t1, SlotOwns
        <3>. QED  BY <2>5, <3>1, <3>2
    <2>7. OwnedInv'
        <3>1. send[i].stage # "unsent" /\ \E stage \in {"given up", "adopted"} : Settle(i, stage)
            BY DEF adoptRun
        <3>2. \A j \in Runs : send'[j].conv = send[j].conv /\ (send'[j].stage = "unsent" <=> send[j].stage = "unsent")
            BY <3>1, <1>t1, SettleSend
        <3>. QED  BY <2>2, <2>6, <3>2 DEF OwnedInv
    <2>. HIDE <1>14
    <2>. QED  BY <2>1, <2>2, <2>3, <2>4, <2>5, <2>6, <2>7 DEF TypeInv, TypeOK, Event
<1>15. ASSUME NEW i \in Runs, RunStarts(i) PROVE TypeInv'
    <2>. USE <1>15
    <2>1. budget' \in [Classes -> Nat]
        BY BudgetTypes DEF RunStarts
    <2>2. UNCHANGED <<active, dropped, closed, loadGen, load, send, removing, cancels, taken, erased, stopped, orphans, overlapped, torn, slot>>
        BY DEF RunStarts
    <2>3. srv' \in [Runs -> Running \cup {"none", "ended"}]
        BY DEF TypeOK, RunStarts
    <2>4. events' = events \/ \E type \in Terminal \cup {"running", "token", "message"} : Emit(i, type)
        BY DEF RunStarts
    <2>5. events' \in Seq(Event)
        BY <2>4, EventTypes, <1>e
    <2>6. stored' \in [Conversations -> SUBSET Runs]
        BY DEF TypeOK, RunStarts, Cut
    <2>7. OwnedInv'
        <3>1. send[i].stage # "unsent" /\ srv'[i] # "none" /\ \A j \in Runs : srv'[j] = "none" <=> srv[j] = "none" /\ j # i
            BY DEF OwnedInv, TypeOK, RunStarts
        <3>2. events' = events \/ \E type : Emit(i, type)
            BY DEF RunStarts
        <3>. QED  BY <2>2, <3>1, <3>2, EmitOwned
    <2>. HIDE <1>15
    <2>. QED  BY <2>1, <2>2, <2>3, <2>4, <2>5, <2>6, <2>7 DEF TypeInv, TypeOK, Event
<1>16. ASSUME NEW i \in Runs, RunSpeaks(i) PROVE TypeInv'
    <2>. USE <1>16
    <2>1. budget' \in [Classes -> Nat]
        BY BudgetTypes DEF RunSpeaks
    <2>2. UNCHANGED <<active, dropped, closed, loadGen, load, send, removing, cancels, taken, erased, stored, stopped, orphans, overlapped, torn, slot>>
        BY DEF RunSpeaks
    <2>3. srv' \in [Runs -> Running \cup {"none", "ended"}]
        BY DEF TypeOK, RunSpeaks
    <2>4. events' = events \/ \E type \in Terminal \cup {"running", "token", "message"} : Emit(i, type)
        BY DEF RunSpeaks
    <2>5. events' \in Seq(Event)
        BY <2>4, EventTypes, <1>e
    <2>6. OwnedInv'
        <3>1. send[i].stage # "unsent" /\ srv'[i] # "none" /\ \A j \in Runs : srv'[j] = "none" <=> srv[j] = "none" /\ j # i
            BY DEF OwnedInv, TypeOK, RunSpeaks
        <3>2. events' = events \/ \E type : Emit(i, type)
            BY DEF RunSpeaks
        <3>. QED  BY <2>2, <3>1, <3>2, EmitOwned
    <2>. HIDE <1>16
    <2>. QED  BY <2>1, <2>2, <2>3, <2>4, <2>5, <2>6 DEF TypeInv, TypeOK, Event
<1>17. ASSUME NEW i \in Runs, RunAnswers(i) PROVE TypeInv'
    <2>. USE <1>17
    <2>1. budget' \in [Classes -> Nat]
        BY BudgetTypes DEF RunAnswers
    <2>2. UNCHANGED <<active, dropped, closed, loadGen, load, send, removing, cancels, taken, erased, stopped, orphans, overlapped, torn, slot>>
        BY DEF RunAnswers
    <2>3. srv' \in [Runs -> Running \cup {"none", "ended"}]
        BY DEF TypeOK, RunAnswers
    <2>4. events' = events \/ \E type \in Terminal \cup {"running", "token", "message"} : Emit(i, type)
        BY DEF RunAnswers
    <2>5. events' \in Seq(Event)
        BY <2>4, EventTypes, <1>e
    <2>6. stored' \in [Conversations -> SUBSET Runs]
        BY DEF TypeOK, RunAnswers
    <2>7. OwnedInv'
        <3>1. send[i].stage # "unsent" /\ srv'[i] # "none" /\ \A j \in Runs : srv'[j] = "none" <=> srv[j] = "none" /\ j # i
            BY DEF OwnedInv, TypeOK, RunAnswers
        <3>2. events' = events \/ \E type : Emit(i, type)
            BY DEF RunAnswers
        <3>. QED  BY <2>2, <3>1, <3>2, EmitOwned
    <2>. HIDE <1>17
    <2>. QED  BY <2>1, <2>2, <2>3, <2>4, <2>5, <2>6, <2>7 DEF TypeInv, TypeOK, Event
<1>18. ASSUME NEW i \in Runs, RunEnds(i) PROVE TypeInv'
    <2>. USE <1>18
    <2>1. budget' \in [Classes -> Nat]
        BY BudgetTypes DEF RunEnds
    <2>2. UNCHANGED <<active, dropped, closed, loadGen, load, send, removing, cancels, taken, erased, stored, stopped, orphans, overlapped, torn, slot>>
        BY DEF RunEnds
    <2>3. srv' \in [Runs -> Running \cup {"none", "ended"}]
        BY DEF TypeOK, RunEnds
    <2>4. events' = events \/ \E type \in Terminal \cup {"running", "token", "message"} : Emit(i, type)
        BY DEF RunEnds
    <2>5. events' \in Seq(Event)
        BY <2>4, EventTypes, <1>e
    <2>6. OwnedInv'
        <3>1. send[i].stage # "unsent" /\ srv'[i] # "none" /\ \A j \in Runs : srv'[j] = "none" <=> srv[j] = "none" /\ j # i
            BY DEF OwnedInv, TypeOK, RunEnds
        <3>2. events' = events \/ \E type : Emit(i, type)
            BY DEF RunEnds
        <3>. QED  BY <2>2, <3>1, <3>2, EmitOwned
    <2>. HIDE <1>18
    <2>. QED  BY <2>1, <2>2, <2>3, <2>4, <2>5, <2>6 DEF TypeInv, TypeOK, Event
<1>19. ASSUME NEW i \in Runs, CancelArrives(i) PROVE TypeInv'
    <2>. USE <1>19
    <2>1. budget' \in [Classes -> Nat]
        BY BudgetTypes DEF CancelArrives
    <2>2. UNCHANGED <<active, dropped, closed, loadGen, load, send, removing, srv, erased, stored, stopped, orphans, overlapped, torn, slot>>
        BY DEF CancelArrives
    <2>3. cancels' \subseteq Runs /\ taken' \subseteq Runs
        BY ZenonT(60) DEF TypeOK, CancelArrives
    <2>4. events' = events \/ \E type \in Terminal \cup {"running", "token", "message"} : Emit(i, type)
        BY DEF CancelArrives
    <2>5. events' \in Seq(Event)
        BY <2>4, EventTypes, <1>e
    <2>6. OwnedInv'
        <3>1. events' = events \/ (srv[i] # "none" /\ \E type : Emit(i, type))
            BY DEF CancelArrives
        <3>2. \A m \in DOMAIN events' : srv[events'[m][1]] # "none"
            BY <3>1, <1>e, EventOwns DEF OwnedInv
        <3>. HIDE DEF Slot, LoadOf
        <3>. QED  BY <2>2, <3>2 DEF OwnedInv
    <2>. HIDE <1>19
    <2>. QED  BY <2>1, <2>2, <2>3, <2>4, <2>5, <2>6 DEF TypeInv, TypeOK, Event
<1>20. ASSUME Stop PROVE TypeInv'
    <2>. USE <1>20
    <2>1. budget' \in [Classes -> Nat]
        BY BudgetTypes DEF Stop
    <2>2. UNCHANGED <<active, dropped, closed, loadGen, load, send, removing, srv, taken, erased, stored, events, orphans, overlapped, torn>>
        BY DEF Stop
    <2>3. active \in Conversations /\ slot[active] \in Slot
        <3>1. active \in Conversations \cup {NoConv}
            BY DEF TypeOK
        <3>2. active # NoConv /\ slot[active] # NoSlot
            BY DEF Stop
        <3>. QED  BY <3>1, <3>2, <1>t1
    <2>4. [slot[active] EXCEPT !.cancelPending = TRUE] \in Slot
        BY <2>3
    <2>5. slot' = slot \/ slot' = [slot EXCEPT ![active] = [slot[active] EXCEPT !.cancelPending = TRUE]]
        BY DEF Stop
    <2>6. slot' \in [Conversations -> Slot \cup {NoSlot}] /\ \A n \in Loads : LoadOwned(load'[n], slot')
        <3>0. load' = load /\ \A n \in Loads : LoadOwned(load[n], slot)
            BY <2>2 DEF OwnedInv
        <3>. HIDE DEF Slot, LoadOf
        <3>1. CASE slot' = slot
            BY <3>0, <3>1, <1>t1
        <3>2. ASSUME NEW s \in Slot, slot' = [slot EXCEPT ![active] = s]
              PROVE  slot' \in [Conversations -> Slot \cup {NoSlot}] /\ \A n \in Loads : LoadOwned(load'[n], slot')
            BY <2>3, <3>0, <3>2, <1>t1, SlotOwns
        <3>. QED  BY <2>4, <2>5, <3>1, <3>2
    <2>7. stopped' \subseteq Runs /\ cancels' \subseteq Runs /\ UNCHANGED <<orphans, overlapped>>
        BY <2>3, ZenonT(60) DEF TypeOK, Latest, Stop
    <2>8. OwnedInv'
        <3>. HIDE DEF Slot, LoadOf
        <3>. QED  BY <2>2, <2>6 DEF OwnedInv
    <2>. HIDE <1>20
    <2>. QED  BY <2>1, <2>2, <2>3, <2>4, <2>5, <2>6, <2>7, <2>8 DEF TypeInv, TypeOK, Event
<1>21. ASSUME applyBridgeEvent PROVE TypeInv'
    <2>. USE <1>21
    <2>1. budget' \in [Classes -> Nat]
        BY BudgetTypes DEF applyBridgeEvent
    <2>2. UNCHANGED <<active, dropped, send, removing, cancels, srv, taken, erased, stored, stopped, orphans, overlapped, torn>>
        BY DEF applyBridgeEvent
    <2>3. events' = Tail(events) /\ events # <<>> /\ Head(events) \in Event
        BY <1>e DEF applyBridgeEvent
    <2>4. events' \in Seq(Event) /\ \A m \in DOMAIN events' : srv[events'[m][1]] # "none"
        BY <2>3, <1>e, TailOwns DEF OwnedInv
    <2>5. Head(events)[1] \in Runs /\ Head(events)[2] \in Terminal \cup {"running", "token", "message"}
        BY <2>3 DEF Event
    <2>6. send[Head(events)[1]].conv \in Conversations
        BY <2>3, <2>5, <1>e DEF OwnedInv, Event
    <2>7. closed' \subseteq Runs
        <3>1. closed' \in {closed, closed \cup {Head(events)[1]}}
            BY DEF applyBridgeEvent
        <3>2. closed \subseteq Runs
            BY DEF TypeOK
        <3>. HIDE <1>0, <1>21
        <3>. QED  BY <2>5, <3>1, <3>2
    <2>8. slot' \in [Conversations -> Slot \cup {NoSlot}] /\ loadGen' \in [Conversations -> Nat] /\ load' \in [Loads -> LoadOf] /\ \A n \in Loads : LoadOwned(load'[n], slot')
        <3>. DEFINE i == Head(events)[1]
                    type == Head(events)[2]
                    c == send[i].conv
                    s == Applied(slot[c], i, type)
        <3>1. CASE UNCHANGED <<slot, loadGen, load>>
            BY <3>1, <1>t1 DEF OwnedInv, TypeOK
        <3>2. CASE slot[c] # NoSlot
            <4>1. s \in Slot
                <5>1. slot[c] \in Slot
                    BY <3>2, <2>6, <1>t1
                <5>. HIDE DEF Slot, Terminal
                <5>. QED  BY <5>1, <2>5, AppliedTypes
            <4>2. \/ UNCHANGED <<slot, loadGen, load>>
                  \/ settleSessionView(c, s)
                  \/ slot' = [slot EXCEPT ![c] = s] /\ UNCHANGED <<loadGen, load>>
                BY SMTT(40) DEF applyBridgeEvent
            <4>3. CASE settleSessionView(c, s)
                BY <2>6, <4>1, <4>3, SettleTypes
            <4>4. CASE slot' = [slot EXCEPT ![c] = s] /\ UNCHANGED <<loadGen, load>>
                <5>. HIDE DEF s
                <5>. QED  BY <2>6, <4>1, <4>4, <1>t1, SlotOwns DEF OwnedInv, TypeOK
            <4>. QED  BY <3>1, <4>2, <4>3, <4>4
        <3>. QED  BY <3>1, <3>2 DEF applyBridgeEvent
    <2>9. OwnedInv'
        <3>. HIDE DEF Slot, LoadOf
        <3>. QED  BY <2>2, <2>4, <2>8 DEF OwnedInv
    <2>. HIDE <1>21
    <2>. QED  BY <2>1, <2>2, <2>3, <2>4, <2>5, <2>6, <2>7, <2>8, <2>9 DEF TypeInv, TypeOK, Event
<1>22. CASE UNCHANGED vars
    BY <1>22 DEF TypeInv, TypeOK, OwnedInv, vars
<1>. QED  BY <1>1, <1>2, <1>3, <1>4, <1>5, <1>6, <1>7, <1>8, <1>9, <1>10, <1>11, <1>12, <1>13, <1>14, <1>15, <1>16, <1>17, <1>18, <1>19, <1>20, <1>21, <1>22, NextCases

-----------------------------------------------------------------------------
(* The steps that leave every busy conversation and every run alone.       *)

Rests(c) ==
    \/ slot'[c] = slot[c]
    \/ slot[c] # NoSlot /\ ~sessionBusy(slot[c]) /\ slot'[c] = NoSlot
    \/ slot[c] = NoSlot /\ slot'[c] = createSession
    \/ /\ slot[c] # NoSlot /\ ~sessionBusy(slot[c])
       /\ slot'[c].runId = slot[c].runId /\ slot'[c].status = slot[c].status
       /\ slot'[c].sending = slot[c].sending /\ slot'[c].cancelPending = slot[c].cancelPending
       /\ slot'[c].text \subseteq slot[c].text

LEMMA RestKeeps ==
    ASSUME NoSlot \notin Slot, TypeInv, IInv, \A c \in Conversations : Rests(c),
           UNCHANGED <<dropped, closed, send, cancels, srv, taken, events, stopped, orphans, overlapped>>
    PROVE  IInv'
<1>1. \A c : /\ Watched(c)' <=> Watched(c)
             /\ Plain(c)' <=> Plain(c)
             /\ Latest(c)' = Latest(c) /\ Of(c)' = Of(c)
    BY DEF Watched, Plain, Latest, Of
<1>2. \A c \in Conversations : Sending(c)' <=> Sending(c)
    BY DEF Rests, Sending
<1>3. createSession # NoSlot
    <2>1. createSession \in Slot
        BY DEF Runs
    <2>. HIDE DEF Slot, createSession
    <2>. QED  BY <2>1
<1>4. FreshInv' /\ EndInv' /\ ClosedInv' /\ GivenUpInv'
    BY <1>1 DEF IInv, FreshInv, EndInv, ClosedInv, GivenUpInv
<1>5. RunInv'
    BY <1>1, <1>3 DEF IInv, RunInv, Rests
<1>6. PendingInv'
    BY <1>1, <1>2, <1>3 DEF IInv, PendingInv, Rests, Sending
<1>7. AdoptedInv'
    BY <1>1, <1>3 DEF IInv, AdoptedInv, RunInv, Rests, Of, Runs
<1>8. TextInv'
    BY <1>1, <1>3 DEF IInv, TextInv, Rests
<1>9. BusyInv'
    BY <1>1, <1>2 DEF IInv, BusyInv, Rests, Sending
<1>10. ComingInv'
    BY <1>1, <1>2 DEF IInv, ComingInv, Rests, Sending, EndSent
<1>11. StopInv'
    <2>1. \A i \in stopped : send[i].stage \in Pending => send[i].conv \in Conversations
        BY DEF TypeInv, TypeOK, OwnedInv, Pending
    <2>. QED  BY <1>1, <1>2, <2>1 DEF IInv, StopInv, Rests, Sending
<1>. QED  BY <1>4, <1>5, <1>6, <1>7, <1>8, <1>9, <1>10, <1>11 DEF IInv

LEMMA OpenRests ==
    ASSUME TypeInv, NEW c \in Conversations, openConversation(c)
    PROVE  \A x \in Conversations : Rests(x)
<1>. DEFINE leaves == active \notin {NoConv, c} /\ slot[active] # NoSlot /\ ~sessionBusy(slot[active])
            slots == IF leaves THEN [slot EXCEPT ![active] = Released(@)] ELSE slot
<1>1. slot \in [Conversations -> Slot \cup {NoSlot}] /\ active \in Conversations \cup {NoConv}
    BY DEF TypeInv, TypeOK
<1>2. slot' = [slots EXCEPT ![c] = sessionOf(c)]
    BY DEF openConversation, hydrateConversation
<1>3. ASSUME NEW x \in Conversations PROVE Rests(x)
    <2>1. CASE x = c
        <3>1. slot'[c] = IF slot[c] = NoSlot THEN createSession ELSE slot[c]
            BY <1>1, <1>2
        <3>. QED  BY <2>1, <3>1 DEF Rests
    <2>2. CASE x # c /\ leaves /\ x = active
        <3>1. slot'[x] = Released(slot[x]) /\ slot[x] \in Slot
            <4>1. slots = [slot EXCEPT ![x] = Released(slot[x])] /\ slot[x] \in Slot
                BY <1>1, <2>2
            <4>. QED  BY <1>1, <1>2, <2>2, <4>1
        <3>. QED  BY <2>2, <3>1 DEF Rests, Released
    <2>3. CASE x # c /\ ~(leaves /\ x = active)
        <3>1. slots[x] = slot[x] /\ slot'[x] = slots[x]
            BY <1>1, <1>2, <2>3
        <3>. QED  BY <3>1 DEF Rests
    <2>. QED  BY <2>1, <2>2, <2>3
<1>. QED  BY <1>3

\* Steps that do not change a slot, a send or what the panel has closed.
LEMMA FrameKeeps ==
    ASSUME IInv, UNCHANGED <<slot, send, closed, dropped, orphans, overlapped>>
    PROVE  /\ \A c : /\ Watched(c)' <=> Watched(c)
                     /\ Plain(c)' <=> Plain(c)
                     /\ Sending(c)' <=> Sending(c)
                     /\ Latest(c)' = Latest(c) /\ Of(c)' = Of(c)
           /\ RunInv' /\ PendingInv' /\ AdoptedInv' /\ TextInv' /\ BusyInv'
<1>1. \A c : /\ Watched(c)' <=> Watched(c)
             /\ Plain(c)' <=> Plain(c)
             /\ Sending(c)' <=> Sending(c)
             /\ Latest(c)' = Latest(c) /\ Of(c)' = Of(c)
    BY DEF Watched, Plain, Sending, Latest, Of
<1>2. RunInv' /\ TextInv'
    BY <1>1 DEF IInv, RunInv, TextInv
<1>3. PendingInv' /\ AdoptedInv'
    BY <1>1 DEF IInv, PendingInv, AdoptedInv
<1>4. BusyInv'
    BY <1>1 DEF IInv, BusyInv
<1>. QED  BY <1>1, <1>2, <1>3, <1>4

LEMMA RestActions ==
    ASSUME NoSlot \notin Slot, TypeInv, IInv,
           \/ \E c \in Conversations : Open(c) \/ Remove(c) \/ StoreDeletes(c) \/ RemoveFails(c) \/ RemoveRefreshed(c)
           \/ \E n \in Loads : LoadReads(n) \/ LoadFails(n) \/ LoadReturns(n)
    PROVE  IInv'
<1>1. ASSUME slot' = slot, UNCHANGED <<dropped, closed, send, cancels, srv, taken, events, stopped, orphans, overlapped>>
      PROVE  IInv'
    BY <1>1, RestKeeps DEF Rests
<1>2. ASSUME NEW c \in Conversations, Open(c) \/ RemoveRefreshed(c) PROVE IInv'
    <2>1. UNCHANGED <<dropped, closed, send, cancels, srv, taken, events, stopped, orphans, overlapped>>
        BY <1>2 DEF Open, RemoveRefreshed
    <2>2. slot' = slot \/ \E d \in Conversations : openConversation(d)
        BY <1>2 DEF Open, RemoveRefreshed
    <2>. QED  BY <1>1, <2>1, <2>2, OpenRests, RestKeeps
<1>3. ASSUME NEW c \in Conversations, Remove(c) \/ StoreDeletes(c) \/ RemoveFails(c) PROVE IInv'
    BY <1>1, <1>3 DEF Remove, StoreDeletes, RemoveFails
<1>4. ASSUME NEW n \in Loads, LoadReads(n) \/ LoadFails(n) PROVE IInv'
    BY <1>1, <1>4 DEF LoadReads, LoadFails
<1>5. ASSUME NEW n \in Loads, LoadReturns(n) PROVE IInv'
    <2>1. UNCHANGED <<dropped, closed, send, cancels, srv, taken, events, stopped, orphans, overlapped>>
        BY <1>5 DEF LoadReturns
    <2>2. ASSUME NEW x \in Conversations PROVE Rests(x)
        <3>. DEFINE c == load[n].conv
        <3>1. CASE slot' = slot
            BY <3>1 DEF Rests
        <3>2. CASE slot' # slot
            <4>1. /\ slot' = [slot EXCEPT ![c].messages = load[n].rows, ![c].loaded = TRUE]
                  /\ load[n].current /\ ~sessionBusy(slot[c])
                BY <1>5, <3>2 DEF LoadReturns
            <4>2. c \in Conversations /\ slot[c] \in Slot /\ slot \in [Conversations -> Slot \cup {NoSlot}]
                BY <4>1 DEF TypeInv, TypeOK, OwnedInv, LoadOwned
            <4>3. CASE x = c
                <5>1. slot'[x] = [slot[x] EXCEPT !.messages = load[n].rows, !.loaded = TRUE]
                    BY <4>1, <4>2, <4>3
                <5>2. slot[x] # NoSlot
                    <6>. HIDE DEF Slot
                    <6>. QED  BY <4>2, <4>3
                <5>. QED  BY <4>1, <4>2, <4>3, <5>1, <5>2 DEF Rests
            <4>4. CASE x # c
                BY <4>1, <4>2, <4>4 DEF Rests
            <4>. QED  BY <4>3, <4>4, SMTT(40)
        <3>. QED  BY <3>1, <3>2
    <2>. QED  BY <2>1, <2>2, RestKeeps, SMTT(40)
<1>. QED  BY <1>2, <1>3, <1>4, <1>5

-----------------------------------------------------------------------------
(* The platform's steps.                                                   *)

LEMMA EmitEvents ==
    ASSUME events \in Seq(Event), NEW i \in Runs, NEW type, Emit(i, type)
    PROVE  /\ \A n \in DOMAIN events : n \in DOMAIN events' /\ events'[n] = events[n]
           /\ \A n \in DOMAIN events' : (n \in DOMAIN events /\ events'[n] = events[n]) \/ events'[n] = <<i, type>>
           /\ \E n \in DOMAIN events' : events'[n] = <<i, type>>
<1>. HIDE DEF Event
<1>1. Len(events) + 1 \in DOMAIN events' /\ events'[Len(events) + 1] = <<i, type>>
    OBVIOUS
<1>. QED  BY <1>1

LEMMA Typed ==
    ASSUME TypeInv
    PROVE  /\ slot \in [Conversations -> Slot \cup {NoSlot}]
           /\ send \in [Runs -> SendOf]
           /\ srv \in [Runs -> Running \cup {"none", "ended"}]
           /\ events \in Seq(Event)
           /\ closed \subseteq Runs /\ cancels \subseteq Runs /\ taken \subseteq Runs /\ stopped \subseteq Runs
           /\ active \in Conversations \cup {NoConv}
           /\ \A n \in DOMAIN events : events[n][1] \in Runs
           /\ OwnedInv
<1>1. events \in Seq(Event)
    BY DEF TypeInv, TypeOK, Event
<1>2. \A n \in DOMAIN events : events[n][1] \in Runs
    BY <1>1 DEF Event
<1>. QED  BY <1>1, <1>2 DEF TypeInv, TypeOK

\* A step of run i that does not end it.
LEMMA RunGoesOn ==
    ASSUME TypeInv, IInv, NEW i \in Runs, NEW to \in Running, NEW type \in {"running", "token", "message"},
           srv[i] \in Running \/ (srv[i] = "none" /\ send[i].stage = "calling"),
           srv' = [srv EXCEPT ![i] = to], Emit(i, type),
           UNCHANGED <<slot, send, closed, dropped, orphans, overlapped, cancels, taken, stopped>>
    PROVE  IInv'
<1>1. RunInv' /\ PendingInv' /\ AdoptedInv' /\ TextInv' /\ BusyInv'
    BY FrameKeeps
<1>2. \A c : /\ Watched(c)' <=> Watched(c)
             /\ Plain(c)' <=> Plain(c)
             /\ Sending(c)' <=> Sending(c)
             /\ Latest(c)' = Latest(c) /\ Of(c)' = Of(c)
    BY FrameKeeps
<1>3. \A j \in Runs : srv'[j] = IF j = i THEN to ELSE srv[j]
    BY Typed
<1>4. /\ \A n \in DOMAIN events : n \in DOMAIN events' /\ events'[n] = events[n]
      /\ \A n \in DOMAIN events' : (n \in DOMAIN events /\ events'[n] = events[n]) \/ events'[n] = <<i, type>>
    BY Typed, EmitEvents
<1>. HIDE DEF Emit
<1>5. FreshInv'
    BY <1>3, Typed DEF IInv, FreshInv
<1>6. EndInv'
    <2>1. ASSUME NEW n \in DOMAIN events', events'[n][2] \in Terminal
          PROVE  srv'[events'[n][1]] = "ended" \/ events'[n][1] \in taken
        <3>1. n \in DOMAIN events /\ events'[n] = events[n]
            BY <1>4, <2>1
        <3>2. events[n][1] \in Runs /\ (srv[events[n][1]] = "ended" \/ events[n][1] \in taken)
            BY <2>1, <3>1, Typed DEF IInv, EndInv
        <3>. QED  BY <1>3, <3>1, <3>2
    <2>. QED  BY <2>1 DEF EndInv
<1>7. ClosedInv' /\ GivenUpInv'
    BY <1>2, <1>3, Typed DEF IInv, ClosedInv, GivenUpInv, FreshInv
<1>8. ASSUME NEW j \in Runs, EndSent(j) \/ (j = i /\ srv[i] = "none") PROVE EndSent(j)'
    BY <1>3, <1>4, <1>8 DEF EndSent, IInv, FreshInv
<1>9. ComingInv'
    BY <1>2, <1>3, <1>8 DEF IInv, ComingInv, Of
<1>10. StopInv'
    BY <1>2, <1>3, Typed DEF IInv, StopInv
<1>. QED  BY <1>1, <1>5, <1>6, <1>7, <1>9, <1>10 DEF IInv

LEMMA RunEndsInv ==
    ASSUME TypeInv, IInv, NEW i \in Runs, RunEnds(i)
    PROVE  IInv'
<1>0. /\ UNCHANGED <<slot, send, closed, dropped, orphans, overlapped, cancels, taken, stopped>>
      /\ srv[i] \in Running /\ srv' = [srv EXCEPT ![i] = "ended"]
      /\ i \notin taken => \E type \in Terminal : Emit(i, type)
      /\ events' = events \/ \E type \in Terminal : Emit(i, type)
    BY DEF RunEnds
<1>1. RunInv' /\ PendingInv' /\ AdoptedInv' /\ TextInv' /\ BusyInv'
    BY <1>0, FrameKeeps
<1>2. \A c : /\ Watched(c)' <=> Watched(c)
             /\ Plain(c)' <=> Plain(c)
             /\ Sending(c)' <=> Sending(c)
             /\ Latest(c)' = Latest(c) /\ Of(c)' = Of(c)
    BY <1>0, FrameKeeps
<1>3. \A j \in Runs : srv'[j] = IF j = i THEN "ended" ELSE srv[j]
    BY <1>0, Typed
<1>4. /\ \A n \in DOMAIN events : n \in DOMAIN events' /\ events'[n] = events[n]
      /\ \A n \in DOMAIN events' : (n \in DOMAIN events /\ events'[n] = events[n]) \/ events'[n][1] = i
      /\ i \notin taken => \E n \in DOMAIN events' : events'[n][1] = i /\ events'[n][2] \in Terminal
    <2>1. ASSUME NEW type \in Terminal, Emit(i, type)
          PROVE  /\ \A n \in DOMAIN events : n \in DOMAIN events' /\ events'[n] = events[n]
                 /\ \A n \in DOMAIN events' : (n \in DOMAIN events /\ events'[n] = events[n]) \/ events'[n][1] = i
                 /\ \E n \in DOMAIN events' : events'[n][1] = i /\ events'[n][2] \in Terminal
        <3>1. /\ \A n \in DOMAIN events : n \in DOMAIN events' /\ events'[n] = events[n]
              /\ \A n \in DOMAIN events' : (n \in DOMAIN events /\ events'[n] = events[n]) \/ events'[n] = <<i, type>>
              /\ \E n \in DOMAIN events' : events'[n] = <<i, type>>
            BY <2>1, Typed, EmitEvents
        <3>. HIDE DEF Emit, Terminal
        <3>. QED  BY <2>1, <3>1
    <2>. HIDE DEF Emit, Terminal
    <2>. QED  BY <1>0, <2>1
<1>5. FreshInv'
    BY <1>0, <1>3, Typed DEF IInv, FreshInv
<1>6. EndInv'
    BY <1>0, <1>3, <1>4, Typed DEF IInv, EndInv
<1>7. ClosedInv' /\ GivenUpInv'
    BY <1>0, <1>2, <1>3, Typed DEF IInv, ClosedInv, GivenUpInv, FreshInv
<1>8. ASSUME NEW j \in Runs, EndSent(j) PROVE EndSent(j)'
    BY <1>0, <1>3, <1>4, <1>8 DEF EndSent
<1>9. ComingInv'
    BY <1>0, <1>2, <1>3, <1>8 DEF IInv, ComingInv, Of
<1>10. StopInv'
    BY <1>0, <1>2, <1>3, Typed DEF IInv, StopInv
<1>. QED  BY <1>1, <1>5, <1>6, <1>7, <1>9, <1>10 DEF IInv

LEMMA CancelArrivesInv ==
    ASSUME TypeInv, IInv, NEW i \in Runs, CancelArrives(i)
    PROVE  IInv'
<1>0. /\ UNCHANGED <<slot, send, closed, dropped, orphans, overlapped, srv, stopped>>
      /\ i \in cancels /\ cancels' = cancels \ {i}
      /\ \/ srv[i] \in Running /\ taken' = taken \cup {i} /\ Emit(i, "cancelled")
         \/ (srv[i] \notin Running \/ i \in taken) /\ taken' = taken /\ events' = events
    BY DEF CancelArrives
<1>1. RunInv' /\ PendingInv' /\ AdoptedInv' /\ TextInv' /\ BusyInv'
    BY <1>0, FrameKeeps
<1>2. \A c : /\ Watched(c)' <=> Watched(c)
             /\ Plain(c)' <=> Plain(c)
             /\ Sending(c)' <=> Sending(c)
             /\ Latest(c)' = Latest(c) /\ Of(c)' = Of(c)
    BY <1>0, FrameKeeps
<1>3. srv[i] = "ended" \/ i \in taken'
    BY <1>0, Typed DEF IInv, FreshInv
<1>4. /\ \A n \in DOMAIN events : n \in DOMAIN events' /\ events'[n] = events[n]
      /\ \A n \in DOMAIN events' : (n \in DOMAIN events /\ events'[n] = events[n]) \/ (events'[n][1] = i /\ i \in taken')
      /\ i \in taken' \ taken => \E n \in DOMAIN events' : events'[n][1] = i /\ events'[n][2] \in Terminal
    <2>1. CASE taken' = taken \cup {i} /\ Emit(i, "cancelled")
        <3>1. /\ \A n \in DOMAIN events : n \in DOMAIN events' /\ events'[n] = events[n]
              /\ \A n \in DOMAIN events' : (n \in DOMAIN events /\ events'[n] = events[n]) \/ events'[n] = <<i, "cancelled">>
              /\ \E n \in DOMAIN events' : events'[n] = <<i, "cancelled">>
            BY <2>1, Typed, EmitEvents
        <3>. HIDE DEF Emit
        <3>. QED  BY <2>1, <3>1
    <2>2. CASE taken' = taken /\ events' = events
        BY <2>2
    <2>. QED  BY <1>0, <2>1, <2>2
<1>4a. taken \subseteq taken' /\ taken' \subseteq taken \cup {i}
    BY <1>0
<1>5. FreshInv'
    BY <1>0, Typed DEF IInv, FreshInv
<1>6. EndInv'
    BY <1>0, <1>4, <1>4a DEF IInv, EndInv
<1>7. ClosedInv' /\ GivenUpInv'
    BY <1>0, <1>2, <1>3, <1>4a DEF IInv, ClosedInv, GivenUpInv
<1>8. ASSUME NEW j \in Runs, EndSent(j) PROVE EndSent(j)'
    BY <1>0, <1>4, <1>4a, <1>8 DEF EndSent
<1>9. ComingInv'
    BY <1>0, <1>2, <1>8 DEF IInv, ComingInv, Of
<1>10. StopInv'
    BY <1>0, <1>2, <1>3, <1>4a DEF IInv, StopInv
<1>. QED  BY <1>1, <1>5, <1>6, <1>7, <1>9, <1>10 DEF IInv

LEMMA PlatformActions ==
    ASSUME TypeInv, IInv, NEW i \in Runs,
           RunStarts(i) \/ RunSpeaks(i) \/ RunAnswers(i) \/ RunEnds(i) \/ CancelArrives(i)
    PROVE  IInv'
<1>1. CASE RunStarts(i)
    BY <1>1, RunGoesOn DEF RunStarts
<1>2. CASE RunSpeaks(i)
    BY <1>2, RunGoesOn DEF RunSpeaks
<1>3. CASE RunAnswers(i)
    BY <1>3, RunGoesOn DEF RunAnswers
<1>. QED  BY <1>1, <1>2, <1>3, RunEndsInv, CancelArrivesInv

-----------------------------------------------------------------------------
(* The panel's steps.                                                      *)

LEMMA LatestUnique ==
    ASSUME NEW c, NEW i \in Latest(c), NEW j \in Latest(c)
    PROVE  i = j
BY DEF Latest, Runs

\* Settling a send moves no send to another conversation.
LEMMA SettleFrame ==
    ASSUME TypeInv, NEW i \in Runs, NEW stage \in {"unsent", "token", "calling", "adopted", "given up"},
           Settle(i, stage)
    PROVE  /\ \A j \in Runs : send'[j].conv = send[j].conv
           /\ \A j \in Runs : send'[j].stage = IF j = i THEN stage ELSE send[j].stage
           /\ \A c : Latest(c)' = Latest(c) /\ Of(c)' = Of(c)
           /\ orphans \subseteq orphans' /\ overlapped \subseteq overlapped' => \A c : Plain(c)' => Plain(c)
           /\ UNCHANGED <<orphans, overlapped>> => \A c : Plain(c)' <=> Plain(c)
<1>1. /\ \A j \in Runs : send'[j].conv = send[j].conv
      /\ \A j \in Runs : send'[j].stage = IF j = i THEN stage ELSE send[j].stage
    <2>1. send \in [Runs -> SendOf]
        BY Typed
    <2>. HIDE DEF Settle, SendOf
    <2>. QED  BY <2>1, SettleSend, ZenonT(60)
<1>. HIDE DEF Settle
<1>. QED  BY <1>1 DEF Latest, Of, Plain

LEMMA TokenResolvesInv ==
    ASSUME TypeInv, IInv, NEW i \in Runs, TokenResolves(i)
    PROVE  IInv'
<1>. DEFINE c == send[i].conv
            to == IF c \in dropped \/ slot[c] = NoSlot THEN "given up" ELSE "calling"
<1>0. /\ UNCHANGED <<slot, closed, dropped, orphans, overlapped, cancels, taken, stopped, srv, events>>
      /\ send[i].stage = "token" /\ Settle(i, to)
    BY DEF TokenResolves
<1>0a. to \in {"given up", "calling"} /\ (to = "given up" => c \in dropped \/ slot[c] = NoSlot)
    OBVIOUS
<1>. HIDE DEF to, Settle
<1>1. /\ \A j \in Runs : send'[j].conv = send[j].conv
      /\ \A j \in Runs : send'[j].stage = IF j = i THEN to ELSE send[j].stage
      /\ \A x : Latest(x)' = Latest(x) /\ Of(x)' = Of(x)
      /\ \A x : Plain(x)' <=> Plain(x)
    BY <1>0, <1>0a, SettleFrame
<1>2. \A x : (Watched(x)' <=> Watched(x)) /\ (Sending(x)' <=> Sending(x))
    BY <1>0, <1>1 DEF Watched, Sending
<1>3. c \in Conversations /\ srv[i] = "none"
    BY <1>0, Typed DEF OwnedInv, IInv, FreshInv
<1>. HIDE DEF c
<1>4. FreshInv' /\ EndInv' /\ GivenUpInv'
    BY <1>0, <1>0a, <1>1, <1>3 DEF IInv, FreshInv, EndInv, GivenUpInv
<1>5. ClosedInv'
    BY <1>0, <1>1, Typed DEF IInv, ClosedInv
<1>6. RunInv'
    <2>1. \A x \in Conversations : slot[x] # NoSlot /\ slot[x].runId # None =>
             slot[x].runId \in Runs /\ slot[x].runId # i
        <3>1. \A x \in Conversations : slot[x] # NoSlot => slot[x].runId \in Runs \cup {None}
            BY Typed
        <3>. QED  BY <1>0, <3>1 DEF IInv, RunInv
    <2>. QED  BY <1>0, <1>1, <1>2, <2>1 DEF IInv, RunInv
<1>7. PendingInv' /\ AdoptedInv'
    <2>1. \A x : Of(x) \subseteq Runs
        BY DEF Of
    <2>2. \A j \in Runs : /\ send'[j].stage \in Pending => send[j].stage \in Pending
                          /\ send'[j].stage = "adopted" => send[j].stage = "adopted"
        BY <1>0, <1>0a, <1>1 DEF Pending
    <2>3. PendingInv'
        BY <1>0, <1>1, <1>2, <2>1, <2>2 DEF IInv, PendingInv
    <2>4. AdoptedInv'
        BY <1>0, <1>1, <1>2, <2>1, <2>2 DEF IInv, AdoptedInv
    <2>. QED  BY <2>3, <2>4
<1>8. TextInv'
    BY <1>0, <1>1, <1>2 DEF IInv, TextInv
<1>9. BusyInv'
    <2>1. ASSUME NEW x \in Conversations, Watched(x), Sending(x), NEW j \in Latest(x), send[j].stage \in Pending
          PROVE  send'[j].stage \in Pending
        <3>1. j \in Runs /\ send[j].conv = x
            BY DEF Latest
        <3>2. CASE j = i
            BY <1>0a, <1>1, <2>1, <3>1, <3>2 DEF Watched, Sending, Pending, c
        <3>3. CASE j # i
            BY <1>1, <2>1, <3>1, <3>3
        <3>. QED  BY <3>2, <3>3
    <2>2. \A x : \A j \in Latest(x) : j \in Runs
        BY DEF Latest
    <2>3. \A j \in Runs : send[j].stage = "adopted" => send'[j].stage = "adopted"
        BY <1>0, <1>1
    <2>. QED  BY <1>0, <1>1, <1>2, <2>1, <2>2, <2>3 DEF IInv, BusyInv
<1>10. ComingInv'
    BY <1>0, <1>1, <1>2 DEF IInv, ComingInv, EndSent
<1>11. StopInv'
    BY <1>0, <1>0a, <1>1, <1>2, Typed DEF IInv, StopInv, Pending
<1>. QED  BY <1>4, <1>5, <1>6, <1>7, <1>8, <1>9, <1>10, <1>11 DEF IInv

LEMMA StopActionInv ==
    ASSUME NoSlot \notin Slot, TypeInv, IInv, Stop
    PROVE  IInv'
<1>. DEFINE c == active
            s == slot[c]
<1>0. /\ UNCHANGED <<send, closed, dropped, orphans, overlapped, taken, srv, events>>
      /\ c \in Conversations /\ c # NoConv /\ s # NoSlot /\ s \in Slot
    BY Typed DEF Stop
<1>1. \/ /\ s.runId # None /\ UNCHANGED slot
         /\ cancels' = cancels \cup {s.runId} /\ stopped' = stopped \cup {s.runId}
      \/ /\ s.runId = None /\ sessionBusy(s) /\ UNCHANGED cancels
         /\ slot' = [slot EXCEPT ![c].cancelPending = TRUE] /\ stopped' = stopped \cup Latest(c)
    BY DEF Stop
<1>2. \A x : /\ Watched(x)' <=> Watched(x)
             /\ Plain(x)' <=> Plain(x)
             /\ Latest(x)' = Latest(x) /\ Of(x)' = Of(x)
    BY <1>0 DEF Watched, Plain, Latest, Of
<1>3. \A x \in Conversations :
         /\ slot'[x] = NoSlot <=> slot[x] = NoSlot
         /\ slot[x] # NoSlot => /\ slot'[x].runId = slot[x].runId /\ slot'[x].status = slot[x].status
                                /\ slot'[x].sending = slot[x].sending /\ slot'[x].text = slot[x].text
                                /\ slot[x].cancelPending => slot'[x].cancelPending
    <2>1. [s EXCEPT !.cancelPending = TRUE] \in Slot
        BY <1>0
    <2>2. CASE slot' = [slot EXCEPT ![c] = [s EXCEPT !.cancelPending = TRUE]]
        <3>1. slot'[c] = [s EXCEPT !.cancelPending = TRUE] /\ \A x \in Conversations \ {c} : slot'[x] = slot[x]
            BY <1>0, <2>2, Typed
        <3>2. slot'[c] # NoSlot
            <4>. HIDE DEF Slot
            <4>. QED  BY <2>1, <3>1
        <3>. QED  BY <1>0, <3>1, <3>2
    <2>3. CASE slot' = slot
        BY <2>3
    <2>. QED  BY <1>1, <2>2, <2>3
<1>4. \A x \in Conversations : Sending(x)' <=> Sending(x)
    BY <1>3 DEF Sending
<1>5. s.runId # None => s.runId \in Runs /\ send[s.runId].conv = c /\ send[s.runId].stage = "adopted"
    BY <1>0 DEF IInv, RunInv
<1>6. FreshInv' /\ EndInv' /\ GivenUpInv'
    <2>1. \A i \in cancels' : srv[i] # "none"
        BY <1>1, <1>5, Typed, ZenonT(60) DEF IInv, FreshInv
    <2>2. \A i \in Runs : send[i].stage = "unsent" => i \notin stopped'
        BY <1>0, <1>1, <1>5 DEF IInv, FreshInv, Latest
    <2>3. stopped \subseteq stopped'
        BY <1>1
    <2>. QED  BY <1>0, <2>1, <2>2, <2>3 DEF IInv, FreshInv, EndInv, GivenUpInv
<1>7. ClosedInv'
    BY <1>0, <1>1, <1>2 DEF IInv, ClosedInv
<1>8. RunInv' /\ TextInv'
    BY <1>0, <1>2, <1>3 DEF IInv, RunInv, TextInv
<1>9. PendingInv' /\ AdoptedInv'
    BY <1>0, <1>2, <1>3, <1>4 DEF IInv, PendingInv, AdoptedInv
<1>10. BusyInv'
    BY <1>0, <1>2, <1>3, <1>4 DEF IInv, BusyInv, Sending
<1>11. ComingInv'
    BY <1>0, <1>2, <1>3, <1>4 DEF IInv, ComingInv, EndSent, Sending
<1>12. StopInv'
    <2>1. ASSUME NEW i \in stopped', Plain(send[i].conv), send[i].stage \in Pending, send[i].conv \notin dropped
          PROVE  Sending(send[i].conv) /\ slot'[send[i].conv].cancelPending
        <3>1. CASE i \in stopped
            BY <1>3, <2>1, <3>1, Typed DEF IInv, StopInv, OwnedInv, Pending, Sending
        <3>2. CASE i \notin stopped
            <4>1. i \in Latest(c) /\ slot' = [slot EXCEPT ![c].cancelPending = TRUE] /\ sessionBusy(s)
                BY <1>1, <1>5, <2>1, <3>2 DEF Pending
            <4>2. send[i].conv = c /\ Watched(c)
                BY <2>1, <4>1 DEF Latest, Watched
            <4>3. Sending(c)
                BY <1>0, <4>1, <4>2 DEF IInv, RunInv, Sending
            <4>4. slot'[c].cancelPending = TRUE
                BY <1>0, <4>1, Typed
            <4>. QED  BY <4>2, <4>3, <4>4
        <3>. QED  BY <3>1, <3>2
    <2>2. ASSUME NEW i \in stopped', Plain(send[i].conv), send[i].stage = "adopted"
          PROVE  srv[i] = "ended" \/ i \in taken \cup cancels'
        <3>1. CASE i \in stopped
            BY <1>1, <2>2, <3>1 DEF IInv, StopInv
        <3>2. CASE i \notin stopped /\ s.runId # None
            BY <1>1, <3>2
        <3>3. CASE i \notin stopped /\ s.runId = None
            <4>1. i \in Latest(c)
                BY <1>1, <2>2, <3>3
            <4>2. i \in Runs /\ send[i].conv = c
                BY <4>1 DEF Latest
            <4>3. c \notin dropped
                BY <2>2, <3>3, <4>2 DEF IInv, FreshInv
            <4>4. i \in closed
                BY <1>0, <2>2, <3>3, <4>2, <4>3 DEF IInv, AdoptedInv, Watched, Of, Runs
            <4>. QED  BY <1>1, <2>2, <4>4 DEF IInv, ClosedInv
        <3>. QED  BY <3>1, <3>2, <3>3
    <2>3. \A i \in stopped' : send[i].stage \in Pending => send[i].conv \in Conversations
        <3>1. stopped' \subseteq Runs
            BY <1>1, <1>5, Typed DEF Latest
        <3>. QED  BY <3>1, Typed DEF OwnedInv, Pending
    <2>. QED  BY <1>0, <1>2, <1>4, <2>1, <2>2, <2>3 DEF StopInv
<1>. QED  BY <1>6, <1>7, <1>8, <1>9, <1>10, <1>11, <1>12 DEF IInv

-----------------------------------------------------------------------------
(* Steps of one conversation.                                              *)

ConvInv(c) ==
    RunAt(c) /\ PendingAt(c) /\ AdoptedAt(c) /\ TextAt(c) /\ BusyAt(c) /\ ComingAt(c)

LEMMA ConvInvs ==
    /\ IInv => \A c \in Conversations : ConvInv(c)
    /\ FreshInv' /\ EndInv' /\ ClosedInv' /\ GivenUpInv' /\ StopInv' /\ (\A c \in Conversations : ConvInv(c)') => IInv'
<1>. HIDE DEF RunAt, PendingAt, AdoptedAt, TextAt, BusyAt, ComingAt
<1>. QED  BY DEF IInv, ConvInv, RunInv, PendingInv, AdoptedInv, TextInv, BusyInv, ComingInv

\* A conversation of which nothing changes.
LEMMA OthersKeep ==
    ASSUME TypeInv, NEW x \in Conversations, ConvInv(x),
           slot'[x] = slot[x], Watched(x)' => Watched(x), x \in dropped' => x \in dropped,
           Of(x)' = Of(x),
           \A j \in Of(x) : send'[j] = send[j] /\ (j \in closed' <=> j \in closed) /\ srv'[j] = srv[j],
           \A j \in Of(x) \ closed : Watched(x) /\ Sending(x) /\ EndSent(j)
                /\ srv[j] # "none" /\ ~(slot[x].cancelPending /\ slot[x].runId = None) => EndSent(j)'
    PROVE  ConvInv(x)'
<1>1. Latest(x)' = Latest(x) /\ Latest(x) \subseteq Of(x)
    BY DEF Latest, Of
<1>2. Sending(x)' <=> Sending(x)
    BY DEF Sending
<1>3. RunAt(x)'
    <2>0. slot[x] \in Slot \cup {NoSlot}
        BY Typed
    <2>1. slot[x] # NoSlot => slot[x].runId \in Runs \cup {None}
        BY <2>0
    <2>2. slot[x] # NoSlot /\ slot[x].runId # None => slot[x].runId \in Of(x)
        BY <2>1 DEF ConvInv, Of
    <2>. QED  BY <1>1, <2>2 DEF ConvInv, Of
<1>4. PendingAt(x)' /\ AdoptedAt(x)' /\ TextAt(x)'
    BY <1>1, <1>2 DEF ConvInv
<1>5. BusyAt(x)'
    BY <1>1, <1>2 DEF ConvInv
<1>6. ComingAt(x)'
    <2>. HIDE DEF EndSent
    <2>. QED  BY <1>1, <1>2 DEF ConvInv
<1>. QED  BY <1>3, <1>4, <1>5, <1>6 DEF ConvInv

\* Deleting: the run shown is closed and cancelled.
LEMMA RemoveReturnsInv ==
    ASSUME NoSlot \notin Slot, NoConv \notin Conversations, TypeInv, IInv,
           NEW c \in Conversations, RemoveReturns(c)
    PROVE  IInv'
<1>. DEFINE run == IF slot[c] = NoSlot THEN {} ELSE {slot[c].runId} \ {None}
<1>0. /\ UNCHANGED <<send, srv, taken, events, orphans, overlapped>>
      /\ dropped' = dropped \cup {c} /\ closed' = closed \cup run /\ cancels' = cancels \cup run
      /\ slot' = [slot EXCEPT ![c] = NoSlot]
      /\ stopped' = stopped \cup Of(c)
    BY DEF RemoveReturns, Of
<1>1. slot'[c] = NoSlot /\ \A x \in Conversations \ {c} : slot'[x] = slot[x]
    BY <1>0, Typed
<1>2. \A x : /\ Plain(x)' <=> Plain(x)
             /\ Latest(x)' = Latest(x) /\ Of(x)' = Of(x)
             /\ Watched(x)' => Watched(x)
    BY <1>0 DEF Watched, Plain, Latest, Of
<1>3. \A i \in run : i \in Runs /\ send[i].conv = c /\ send[i].stage = "adopted"
    <2>1. slot[c] \in Slot \cup {NoSlot}
        BY Typed
    <2>2. slot[c] # NoSlot => slot[c].runId \in Runs \cup {None}
        BY <2>1
    <2>. QED  BY <2>2 DEF IInv, RunInv
<1>3a. run = {} \/ (slot[c] # NoSlot /\ run = {slot[c].runId} /\ slot[c].runId # None)
    OBVIOUS
<1>. HIDE DEF run
<1>4. FreshInv' /\ EndInv' /\ GivenUpInv'
    <2>1. \A i \in Runs : send[i].conv = c => i \in stopped'
        BY <1>0 DEF Of
    <2>2. \A i \in run : srv[i] # "none"
        BY <1>3 DEF IInv, FreshInv
    <2>3. \A i \in Runs : send[i].stage = "unsent" => i \notin stopped'
        BY <1>0, Typed DEF IInv, FreshInv, Of
    <2>. QED  BY <1>0, <2>1, <2>2, <2>3 DEF IInv, FreshInv, EndInv, GivenUpInv
<1>5. ClosedInv'
    BY <1>0, <1>2 DEF IInv, ClosedInv
<1>6. StopInv'
    <2>1. ASSUME NEW i \in stopped', Plain(send[i].conv), send[i].stage \in Pending, send[i].conv \notin dropped'
          PROVE  Sending(send[i].conv)' /\ slot'[send[i].conv].cancelPending
        <3>1. i \in stopped /\ send[i].conv # c
            BY <1>0, <2>1 DEF Of
        <3>2. i \in Runs /\ send[i].conv \in Conversations
            BY <2>1, <3>1, Typed DEF OwnedInv, Pending
        <3>3. Sending(send[i].conv) /\ slot[send[i].conv].cancelPending
            BY <1>0, <2>1, <3>1 DEF IInv, StopInv
        <3>. QED  BY <1>0, <1>1, <3>1, <3>2, <3>3 DEF Sending
    <2>2. ASSUME NEW i \in stopped', Plain(send[i].conv), send[i].stage = "adopted"
          PROVE  srv[i] = "ended" \/ i \in taken \cup cancels'
        <3>1. CASE i \in stopped
            BY <1>0, <2>2, <3>1 DEF IInv, StopInv
        <3>2. CASE i \notin stopped
            <4>1. i \in Runs /\ send[i].conv = c
                BY <1>0, <3>2 DEF Of
            <4>2. Watched(c)
                BY <2>2, <3>2, <4>1 DEF IInv, FreshInv, Watched
            <4>3. i \in closed \/ (slot[c] # NoSlot /\ slot[c].runId = i)
                BY <2>2, <4>1, <4>2 DEF IInv, AdoptedInv, Of
            <4>4. i \in closed \/ i \in run
                BY <4>1, <4>3 DEF run, Runs
            <4>. QED  BY <1>0, <2>2, <4>4 DEF IInv, ClosedInv
        <3>. QED  BY <3>1, <3>2
    <2>. QED  BY <1>0, <1>2, <2>1, <2>2 DEF StopInv
<1>7. ASSUME NEW x \in Conversations PROVE ConvInv(x)'
    <2>1. CASE x = c
        BY <1>0, <1>1, <2>1 DEF ConvInv, Watched
    <2>2. CASE x # c
        <3>1. \A j \in Of(x) : j \notin run
            BY <1>3, <2>2 DEF Of
        <3>2. \A j : EndSent(j) => EndSent(j)'
            BY <1>0 DEF EndSent
        <3>. HIDE DEF RunAt, PendingAt, AdoptedAt, TextAt, BusyAt, ComingAt
        <3>3. ConvInv(x)
            BY ConvInvs
        <3>. QED  BY <1>0, <1>1, <1>2, <2>2, <3>1, <3>2, <3>3, OthersKeep
    <2>. QED  BY <2>1, <2>2
<1>. HIDE DEF RunAt, PendingAt, AdoptedAt, TextAt, BusyAt, ComingAt
<1>. QED  BY <1>4, <1>5, <1>6, <1>7, ConvInvs

LEMMA adoptRunInv ==
    ASSUME NoSlot \notin Slot, TypeInv, IInv, NEW i \in Runs, adoptRun(i)
    PROVE  IInv'
<1>c. PICK c \in Conversations : c = send[i].conv
    BY Typed DEF OwnedInv, adoptRun
<1>. DEFINE s == slot[c]
            gone == c \in dropped \/ s = NoSlot
            to == IF ~gone /\ ~s.cancelPending THEN "adopted" ELSE "given up"
            more == IF to = "adopted" THEN {} ELSE {i}
            new == IF gone THEN s ELSE IF s.cancelPending
                   THEN [s EXCEPT !.cancelPending = FALSE, !.text = {}, !.runId = None,
                                  !.status = "cancelled", !.sending = FALSE]
                   ELSE [s EXCEPT !.runId = i]
<1>0. /\ UNCHANGED <<dropped, orphans, overlapped, taken, stopped, srv, events>>
      /\ send[i].stage = "calling" /\ srv[i] # "none" /\ Settle(i, to)
      /\ closed' = closed \cup more /\ cancels' = cancels \cup more
    BY <1>c DEF adoptRun
<1>1. slot \in [Conversations -> Slot \cup {NoSlot}] /\ s \in Slot \cup {NoSlot}
    BY Typed
<1>2. slot'[c] = new /\ (gone => slot' = slot) /\ \A x \in Conversations \ {c} : slot'[x] = slot[x]
    BY <1>c, <1>1 DEF adoptRun
<1>3. ~gone => s \in Slot /\ new \in Slot /\ new # NoSlot
    <2>1. ~gone => s \in Slot /\ new \in Slot
        BY <1>1, Typed
    <2>. HIDE DEF Slot, new
    <2>. QED  BY <2>1
<1>4. to \in {"adopted", "given up"} /\ (to = "given up" <=> gone \/ s.cancelPending) /\ more = IF to = "adopted" THEN {} ELSE {i}
    OBVIOUS
<1>5. /\ gone => new = s
      /\ to = "adopted" => /\ new.runId = i /\ new.status = s.status /\ new.sending = s.sending
                           /\ new.cancelPending = s.cancelPending /\ new.text = s.text
      /\ ~gone /\ to = "given up" => new.runId = None /\ new.status = "cancelled" /\ ~new.sending /\ new.text = {}
    BY <1>3
<1>. HIDE DEF to, more, new, Settle
<1>6. /\ \A j \in Runs : send'[j].conv = send[j].conv
      /\ \A j \in Runs : send'[j].stage = IF j = i THEN to ELSE send[j].stage
      /\ \A x : Latest(x)' = Latest(x) /\ Of(x)' = Of(x)
      /\ \A x : Plain(x)' <=> Plain(x)
    BY <1>0, <1>4, SettleFrame
<1>7. \A x : Watched(x)' <=> Watched(x)
    BY <1>0, <1>6 DEF Watched
<1>8. Watched(c) => /\ i \in Latest(c) /\ (Sending(c) <=> i \notin closed)
                    /\ s # NoSlot => s.runId = None
                    /\ \A j \in Of(c) : j # i => send[j].stage \notin Pending
    <2>1. ASSUME Watched(c), NEW j \in Of(c), send[j].stage \in Pending
          PROVE  /\ j \in Latest(c) /\ (Sending(c) <=> j \notin closed)
                 /\ s # NoSlot => s.runId = None
        BY <2>1 DEF IInv, PendingInv
    <2>2. i \in Of(c) /\ send[i].stage \in Pending
        BY <1>0, <1>c DEF Of, Pending
    <2>. QED  BY <2>1, <2>2, LatestUnique
<1>8a. s # NoSlot /\ s.runId # None => c \notin dropped
    BY <1>1 DEF IInv, RunInv
<1>. USE <1>c
<1>9. FreshInv' /\ EndInv' /\ GivenUpInv'
    BY <1>0, <1>4, <1>6 DEF IInv, FreshInv, EndInv, GivenUpInv
<1>10. ClosedInv'
    BY <1>0, <1>4, <1>6, Typed DEF IInv, ClosedInv
<1>11. StopInv'
    <2>1. ASSUME NEW j \in stopped, Plain(send[j].conv), send'[j].stage \in Pending, send[j].conv \notin dropped
          PROVE  Sending(send[j].conv)' /\ slot'[send[j].conv].cancelPending
        <3>1. j # i /\ j \in Runs /\ send[j].stage \in Pending
            BY <1>4, <1>6, <2>1, Typed DEF Pending
        <3>2. send[j].conv \in Conversations /\ Sending(send[j].conv) /\ slot[send[j].conv].cancelPending
            BY <2>1, <3>1, Typed DEF IInv, StopInv, OwnedInv, Pending
        <3>3. send[j].conv # c
            BY <1>8, <2>1, <3>1 DEF Watched, Of
        <3>. QED  BY <1>2, <1>6, <3>1, <3>2, <3>3 DEF Sending
    <2>2. ASSUME NEW j \in stopped, Plain(send[j].conv), send'[j].stage = "adopted"
          PROVE  srv[j] = "ended" \/ j \in taken \cup cancels'
        <3>1. CASE j = i
            <4>1. ~gone /\ ~s.cancelPending
                BY <1>4, <1>6, <2>2, <3>1
            <4>2. s.cancelPending
                BY <1>0, <2>2, <3>1, <4>1 DEF IInv, StopInv, Pending
            <4>. QED  BY <4>1, <4>2
        <3>2. CASE j # i
            BY <1>0, <1>6, <2>2, <3>2, Typed DEF IInv, StopInv
        <3>. QED  BY <3>1, <3>2
    <2>3. \A j \in stopped : send'[j].conv = send[j].conv
        BY <1>6, Typed
    <2>. QED  BY <1>0, <1>6, <2>1, <2>2, <2>3 DEF StopInv
<1>12. ASSUME NEW x \in Conversations PROVE ConvInv(x)'
    <2>1. CASE x = c
        <3>1. RunAt(c)'
            <4>1. CASE gone
                BY <1>2, <1>5, <1>7, <1>8a, <4>1 DEF Watched
            <4>2. CASE to = "adopted"
                <5>1. slot[c].status = "running" /\ Watched(c) => slot[c].sending
                    BY <1>4, <4>2 DEF IInv, RunInv
                <5>2. /\ slot'[c].runId = i /\ slot'[c].status = slot[c].status /\ slot'[c].sending = slot[c].sending
                      /\ c \notin dropped' /\ send'[i].conv = c /\ send'[i].stage = "adopted"
                    BY <1>0, <1>2, <1>4, <1>5, <1>6, <4>2
                <5>3. Watched(c) => i \in Latest(c)' /\ (slot[c].sending \/ i \in closed')
                    BY <1>0, <1>4, <1>6, <1>8, <4>2 DEF Sending
                <5>. QED  BY <1>7, <5>1, <5>2, <5>3
            <4>3. CASE ~gone /\ to = "given up"
                BY <1>2, <1>5, <4>3
            <4>. QED  BY <1>4, <4>1, <4>2, <4>3
        <3>2. PendingAt(c)'
            BY <1>4, <1>6, <1>7, <1>8 DEF Of, Pending
        <3>3. AdoptedAt(c)'
            <4>1. ASSUME Watched(c), NEW j \in Of(c), send'[j].stage = "adopted", j \notin closed
                  PROVE  slot'[c] # NoSlot /\ slot'[c].runId = j
                <5>1. CASE j = i
                    BY <1>2, <1>3, <1>4, <1>5, <1>6, <4>1, <5>1
                <5>2. CASE j # i
                    BY <1>1, <1>6, <1>8, <4>1, <5>2 DEF IInv, AdoptedInv, Of, Runs
                <5>. QED  BY <5>1, <5>2
            <4>. QED  BY <1>0, <1>6, <1>7, <4>1
        <3>4. TextAt(c)'
            BY <1>1, <1>2, <1>3, <1>4, <1>5, <1>6, <1>7 DEF IInv, TextInv
        <3>5. Watched(c) /\ Sending(c)' => to = "adopted" /\ Sending(c) /\ i \notin closed /\ i \in Latest(c) /\ i \in Runs
            BY <1>2, <1>4, <1>5, <1>8 DEF Sending, Watched
        <3>6. BusyAt(c)'
            BY <1>0, <1>2, <1>4, <1>5, <1>6, <1>7, <3>5
        <3>7. ComingAt(c)'
            <4>1. \A j : EndSent(j) => EndSent(j)'
                BY <1>0 DEF EndSent
            <4>2. to = "adopted" => slot[c] # NoSlot /\ ~slot[c].cancelPending
                BY <1>4
            <4>. QED  BY <1>0, <1>1, <1>4, <1>6, <1>7, <3>5, <4>1, <4>2 DEF IInv, ComingInv
        <3>. HIDE DEF RunAt, PendingAt, AdoptedAt, TextAt, BusyAt, ComingAt
        <3>. QED  BY <2>1, <3>1, <3>2, <3>3, <3>4, <3>6, <3>7 DEF ConvInv
    <2>2. CASE x # c
        <3>1. \A j \in Of(x) : j \in Runs /\ j # i /\ j \notin more
            BY <1>4, <2>2 DEF Of
        <3>2. \A j : EndSent(j) => EndSent(j)'
            BY <1>0 DEF EndSent
        <3>3. \A j \in Runs \ {i} : send'[j] = send[j]
            BY <1>0, Typed DEF Settle
        <3>. HIDE DEF RunAt, PendingAt, AdoptedAt, TextAt, BusyAt, ComingAt
        <3>4. ConvInv(x)
            BY ConvInvs
        <3>. QED  BY <1>0, <1>2, <1>6, <1>7, <2>2, <3>1, <3>2, <3>3, <3>4, OthersKeep
    <2>. QED  BY <2>1, <2>2
<1>. HIDE DEF RunAt, PendingAt, AdoptedAt, TextAt, BusyAt, ComingAt
<1>. QED  BY <1>9, <1>10, <1>11, <1>12, ConvInvs

\* A send that fails: its run had not started, or is an orphan.
LEMMA ThrowsInv ==
    ASSUME NoSlot \notin Slot, TypeInv, IInv, NEW i \in Runs, NEW login \in BOOLEAN, Throws(i, login),
           send[i].stage \in Pending,
           (srv[i] = "none" /\ orphans' = orphans) \/ orphans' = orphans \cup {i}
    PROVE  IInv'
<1>c. PICK c \in Conversations : c = send[i].conv
    BY Typed DEF OwnedInv, Pending
<1>. DEFINE s == slot[c]
            gone == c \in dropped \/ s = NoSlot
            back == login /\ send[i].kind # "regenerate"
            new == IF gone THEN s ELSE [s EXCEPT !.sending = FALSE, !.status = IF back THEN "idle" ELSE "error"]
<1>0. /\ UNCHANGED <<dropped, closed, cancels, overlapped, taken, stopped, srv, events>>
      /\ Settle(i, "given up")
    BY DEF Throws
<1>1. slot \in [Conversations -> Slot \cup {NoSlot}] /\ s \in Slot \cup {NoSlot}
    BY Typed
<1>2. slot'[c] = new /\ \A x \in Conversations \ {c} : slot'[x] = slot[x]
    <2>1. slot' = IF gone THEN slot ELSE [slot EXCEPT ![c] = new]
        BY <1>c DEF Throws, hydrateConversation
    <2>. HIDE DEF new
    <2>2. gone => new = slot[c]
        BY DEF new
    <2>. QED  BY <1>1, <2>1, <2>2
<1>3. ~gone => s \in Slot
    BY <1>1
<1>4. /\ gone => new = s
      /\ ~gone => new.runId = s.runId /\ new.status # "running" /\ ~new.sending /\ new.text = s.text
    BY <1>3
<1>5. ~gone => new # NoSlot
    <2>1. ~gone => new \in Slot
        BY <1>3
    <2>. HIDE DEF Slot, new
    <2>. QED  BY <2>1
<1>. HIDE DEF new, Settle
<1>6. /\ \A j \in Runs : send'[j].conv = send[j].conv
      /\ \A j \in Runs : send'[j].stage = IF j = i THEN "given up" ELSE send[j].stage
      /\ \A x : Latest(x)' = Latest(x) /\ Of(x)' = Of(x)
      /\ \A x : Plain(x)' => Plain(x)
    BY <1>0, SettleFrame
<1>7. \A x : Watched(x)' => Watched(x)
    BY <1>0, <1>6 DEF Watched
<1>8. Watched(c) => /\ s # NoSlot => s.runId = None
                    /\ \A j \in Of(c) : j # i => send[j].stage \notin Pending
    <2>1. ASSUME Watched(c), NEW j \in Of(c), send[j].stage \in Pending
          PROVE  j \in Latest(c) /\ (s # NoSlot => s.runId = None)
        BY <2>1 DEF IInv, PendingInv
    <2>2. i \in Of(c)
        BY <1>c DEF Of
    <2>. QED  BY <2>1, <2>2, LatestUnique
<1>. USE <1>c
<1>9. FreshInv' /\ EndInv' /\ GivenUpInv'
    BY <1>0, <1>6 DEF IInv, FreshInv, EndInv, GivenUpInv
<1>10. ClosedInv'
    BY <1>0, <1>6, Typed DEF IInv, ClosedInv
<1>11. StopInv'
    <2>1. ASSUME NEW j \in stopped, Plain(send[j].conv), send'[j].stage \in Pending, send[j].conv \notin dropped
          PROVE  Sending(send[j].conv)' /\ slot'[send[j].conv].cancelPending
        <3>1. j # i /\ j \in Runs /\ send[j].stage \in Pending
            BY <1>6, <2>1, Typed DEF Pending
        <3>2. send[j].conv \in Conversations /\ Sending(send[j].conv) /\ slot[send[j].conv].cancelPending
            BY <2>1, <3>1, Typed DEF IInv, StopInv, OwnedInv, Pending
        <3>3. send[j].conv # c
            BY <1>8, <2>1, <3>1 DEF Watched, Of
        <3>. QED  BY <1>2, <1>6, <3>1, <3>2, <3>3 DEF Sending
    <2>2. ASSUME NEW j \in stopped, Plain(send[j].conv), send'[j].stage = "adopted"
          PROVE  srv[j] = "ended" \/ j \in taken \cup cancels
        BY <1>6, <2>2, Typed DEF IInv, StopInv
    <2>3. \A j \in stopped : send'[j].conv = send[j].conv
        BY <1>6, Typed
    <2>. QED  BY <1>0, <1>6, <2>1, <2>2, <2>3 DEF StopInv
<1>12. ASSUME NEW x \in Conversations PROVE ConvInv(x)'
    <2>1. CASE x = c
        <3>0. Watched(c) => ~Sending(c)'
            BY <1>2, <1>4 DEF Sending, Watched
        <3>0a. \A j \in Of(c) : send'[j].stage = "adopted" => j # i /\ send[j].stage = "adopted"
            BY <1>6 DEF Of
        <3>1. RunAt(c)'
            <4>1. s # NoSlot => (slot'[c] # NoSlot /\ slot'[c].runId = s.runId) /\ (s = NoSlot => slot'[c] = NoSlot)
                BY <1>2, <1>4, <1>5
            <4>2. s # NoSlot /\ s.runId # None =>
                     /\ s.runId \in Runs \ {i} /\ send[s.runId].conv = c
                     /\ send[s.runId].stage = "adopted" /\ c \notin dropped
                BY <1>1 DEF IInv, RunInv, Pending
            <4>3. Watched(c) /\ slot'[c] # NoSlot => slot'[c].status # "running" /\ slot'[c].runId = None
                BY <1>2, <1>4, <1>8 DEF Watched
            <4>4. slot'[c] = NoSlot \/ s # NoSlot
                BY <1>2, <1>4
            <4>. QED  BY <1>0, <1>6, <1>7, <4>1, <4>2, <4>3, <4>4
        <3>2. PendingAt(c)'
            BY <1>6, <1>7, <1>8 DEF Of, Pending
        <3>3. AdoptedAt(c)'
            <4>1. ASSUME Watched(c), NEW j \in Of(c), send'[j].stage = "adopted", j \notin closed
                  PROVE  slot'[c] # NoSlot /\ slot'[c].runId = j
                BY <1>2, <1>4, <1>5, <3>0a, <4>1 DEF IInv, AdoptedInv
            <4>. QED  BY <1>0, <1>6, <1>7, <4>1
        <3>4. TextAt(c)'
            BY <1>1, <1>2, <1>4, <1>6, <1>7 DEF IInv, TextInv
        <3>5. BusyAt(c)' /\ ComingAt(c)'
            BY <1>7, <3>0
        <3>. HIDE DEF RunAt, PendingAt, AdoptedAt, TextAt, BusyAt, ComingAt
        <3>. QED  BY <2>1, <3>1, <3>2, <3>3, <3>4, <3>5 DEF ConvInv
    <2>2. CASE x # c
        <3>1. \A j \in Of(x) : j \in Runs /\ j # i
            BY <2>2 DEF Of
        <3>2. \A j : EndSent(j) => EndSent(j)'
            BY <1>0 DEF EndSent
        <3>3. \A j \in Runs \ {i} : send'[j] = send[j]
            BY <1>0, Typed DEF Settle
        <3>. HIDE DEF RunAt, PendingAt, AdoptedAt, TextAt, BusyAt, ComingAt
        <3>4. ConvInv(x)
            BY ConvInvs
        <3>. QED  BY <1>0, <1>2, <1>6, <1>7, <2>2, <3>1, <3>2, <3>3, <3>4, OthersKeep
    <2>. QED  BY <2>1, <2>2
<1>. HIDE DEF RunAt, PendingAt, AdoptedAt, TextAt, BusyAt, ComingAt
<1>. QED  BY <1>9, <1>10, <1>11, <1>12, ConvInvs

LEMMA FailsInv ==
    ASSUME NoSlot \notin Slot, TypeInv, IInv, NEW i \in Runs, TokenFails(i) \/ CallFails(i)
    PROVE  IInv'
<1>1. CASE TokenFails(i)
    <2>1. PICK login \in BOOLEAN : Throws(i, login)
        BY <1>1 DEF TokenFails
    <2>2. send[i].stage \in Pending /\ srv[i] = "none" /\ orphans' = orphans
        BY <1>1 DEF TokenFails, Pending, IInv, FreshInv
    <2>. QED  BY <2>1, <2>2, ThrowsInv
<1>2. CASE CallFails(i)
    <2>1. Throws(i, FALSE) /\ send[i].stage \in Pending
        BY <1>2 DEF CallFails, Pending
    <2>2. (srv[i] = "none" /\ orphans' = orphans) \/ orphans' = orphans \cup {i}
        BY <1>2 DEF CallFails
    <2>. QED  BY <2>1, <2>2, ThrowsInv
<1>. QED  BY <1>1, <1>2

LEMMA SendInv ==
    ASSUME NoSlot \notin Slot, NoConv \notin Conversations, TypeInv, IInv,
           NEW i \in Runs, NEW kind \in Kinds, NEW from \in Runs \cup {None}, Send(i, kind, from)
    PROVE  IInv'
<1>c. PICK c \in Conversations : c = active
    BY Typed DEF Send
<1>. DEFINE s == sessionOf(c)
            run == {s.runId} \ {None}
            new == [s EXCEPT !.cancelPending = FALSE, !.runId = None, !.sending = TRUE,
                             !.status = "running", !.text = {}, !.messages = Cut(@, from)]
            made == [conv |-> c, kind |-> kind, from |-> from, stage |-> "token"]
<1>0. /\ UNCHANGED <<dropped, orphans, cancels, taken, stopped, srv, events>>
      /\ ~s.sending /\ closed' = closed \cup run
      /\ overlapped' = IF \E j \in Runs : send[j].conv = c /\ send[j].stage = "calling"
                       THEN overlapped \cup {i} ELSE overlapped
      /\ NextRun(i) /\ slot' = [slot EXCEPT ![c] = new] /\ send' = [send EXCEPT ![i] = made]
    BY <1>c DEF Send
<1>1. slot \in [Conversations -> Slot \cup {NoSlot}] /\ s \in Slot /\ (slot[c] # NoSlot => s = slot[c])
      /\ (slot[c] = NoSlot => s.runId = None)
    <2>1. slot \in [Conversations -> Slot \cup {NoSlot}]
        BY Typed
    <2>. QED  BY <2>1 DEF Runs
<1>2. slot'[c] = new /\ \A x \in Conversations \ {c} : slot'[x] = slot[x]
    <2>. HIDE DEF new
    <2>. QED  BY <1>0, <1>1
<1>3. /\ new.runId = None /\ new.status = "running" /\ new.sending = TRUE
      /\ new.cancelPending = FALSE /\ new.text = {}
    BY <1>1
<1>4. new # NoSlot
    <2>1. new.messages \subseteq Runs
        BY <1>1 DEF Cut
    <2>2. new \in Slot
        BY <1>1, <2>1
    <2>. HIDE DEF Slot, new
    <2>. QED  BY <2>2
<1>5. send'[i] = made /\ \A j \in Runs \ {i} : send'[j] = send[j]
    <2>1. send \in [Runs -> SendOf]
        BY Typed
    <2>. HIDE DEF SendOf, made
    <2>. QED  BY <1>0, <2>1
<1>5a. made.conv = c /\ made.stage = "token"
    OBVIOUS
<1>. HIDE DEF new, made
<1>6. /\ send[i].stage = "unsent" /\ send[i].conv = NoConv /\ srv[i] = "none"
      /\ i \notin stopped \cup closed \cup cancels \cup taken
      /\ \A j \in Runs : send[j].stage = "unsent" <=> j >= i
    <2>1. \A j \in Runs : send[j].stage = "unsent" <=> j >= i
        BY <1>0 DEF NextRun
    <2>2. send[i].stage = "unsent"
        BY <2>1 DEF Runs
    <2>3. srv[i] = "none"
        BY <2>2, Typed DEF OwnedInv
    <2>. QED  BY <2>1, <2>2, <2>3 DEF IInv, FreshInv
<1>7. run = {} \/ (slot[c] # NoSlot /\ run = {s.runId} /\ s.runId \in Runs \ {i} /\ s = slot[c]
                   /\ send[s.runId].conv = c /\ send[s.runId].stage = "adopted" /\ c \notin dropped)
    <2>1. CASE s.runId # None
        <3>1. slot[c] # NoSlot /\ s = slot[c] /\ s.runId \in Runs
            BY <1>1, <2>1
        <3>. QED  BY <1>6, <2>1, <3>1 DEF IInv, RunInv
    <2>. QED  BY <2>1
<1>8. /\ Of(c)' = Of(c) \cup {i} /\ i \notin Of(c) /\ \A j \in Of(c) : j \in Runs \ {i} /\ j < i
      /\ \A x \in Conversations \ {c} : Of(x)' = Of(x) /\ i \notin Of(x)
    <2>1. \A j \in Runs : send[j].conv = c => j < i
        BY <1>6 DEF IInv, FreshInv, Runs
    <2>. QED  BY <1>5, <1>5a, <1>6, <2>1 DEF Of
<1>9. Latest(c)' = {i}
    <2>1. \A j \in Runs : send'[j].conv = c => j <= i
        BY <1>5, <1>8 DEF Of, Runs
    <2>. QED  BY <1>5, <1>5a, <2>1 DEF Latest, Runs
<1>10. /\ \A x \in Conversations \ {c} : Plain(x)' <=> Plain(x)
       /\ Plain(c)' => Plain(c) /\ \A j \in Of(c) : send[j].stage # "calling"
    <2>1. \A x : Plain(x) <=> \A j \in Of(x) : j \notin orphans \cup overlapped
        BY DEF Plain, Of
    <2>2. \A x : Plain(x)' <=> \A j \in Of(x)' : j \notin orphans \cup overlapped'
        BY <1>0 DEF Plain, Of
    <2>3. overlapped \subseteq overlapped' /\ overlapped' \subseteq overlapped \cup {i}
        BY <1>0
    <2>4. (\E j \in Of(c) : send[j].stage = "calling") => i \in overlapped'
        BY <1>0 DEF Of
    <2>. QED  BY <1>8, <2>1, <2>2, <2>3, <2>4
<1>11. Watched(c)' => Watched(c) /\ \A j \in Of(c) : send[j].stage \notin Pending
    <2>1. ASSUME Watched(c)', NEW j \in Of(c), send[j].stage = "token" PROVE FALSE
        <3>1. Watched(c)
            BY <1>0, <1>10, <2>1 DEF Watched
        <3>2. j \in closed
            BY <1>0, <1>1, <2>1, <3>1 DEF IInv, PendingInv, Pending, Sending
        <3>. QED  BY <2>1, <3>2, <1>8 DEF IInv, FreshInv
    <2>. QED  BY <1>0, <1>10, <2>1 DEF Watched, Pending
<1>12. run \subseteq closed \/ ~Plain(c)
    <2>1. CASE run # {} /\ Plain(c)
        BY <1>0, <1>7, <2>1 DEF IInv, RunInv, Watched
    <2>. QED  BY <2>1
<1>12a. \A j \in run : j \in Runs \ {i} /\ send[j].conv = c /\ send[j].stage = "adopted"
    BY <1>7
<1>. HIDE DEF run
<1>13. FreshInv' /\ EndInv' /\ GivenUpInv'
    <2>1. \A j \in closed' : srv[j] # "none"
        BY <1>0, <1>12a, Typed DEF IInv, FreshInv
    <2>2. FreshInv'
        BY <1>0, <1>5, <1>5a, <1>6, <2>1, Typed DEF IInv, FreshInv
    <2>3. EndInv'
        BY <1>0 DEF IInv, EndInv
    <2>4. GivenUpInv'
        BY <1>0, <1>5, <1>5a DEF IInv, GivenUpInv
    <2>. QED  BY <2>2, <2>3, <2>4
<1>14. \A j \in Runs \ {i} : send[j].stage # "unsent" /\ Plain(send[j].conv)' => Plain(send[j].conv)
    <2>1. \A j \in Runs \ {i} : send[j].stage # "unsent" => send[j].conv \in Conversations
        BY Typed DEF OwnedInv
    <2>3. \A x \in Conversations : Plain(x)' => Plain(x)
        BY <1>10
    <2>4. ASSUME NEW j \in Runs \ {i}, NEW x, x = send[j].conv PROVE Plain(send[j].conv)' <=> Plain(x)'
        BY <1>5, <2>4 DEF Plain
    <2>. QED  BY <2>1, <2>3, <2>4
<1>15. ClosedInv'
    <2>1. ASSUME NEW j \in closed', Plain(send[j].conv)
          PROVE  srv[j] = "ended" \/ j \in taken \cup cancels
        BY <1>0, <1>12, <1>12a, <2>1 DEF IInv, ClosedInv
    <2>2. \A j \in closed' : j \in Runs \ {i}
        BY <1>0, <1>6, <1>12a, Typed
    <2>3. \A j \in closed' : send[j].stage # "unsent"
        BY <1>0, <1>12a, Typed DEF IInv, FreshInv, OwnedInv
    <2>. QED  BY <1>0, <1>5, <1>14, <2>1, <2>2, <2>3 DEF ClosedInv
<1>16. StopInv'
    <2>0. \A j \in stopped : j \in Runs \ {i}
        BY <1>6, Typed
    <2>1. ASSUME NEW j \in stopped, Plain(send[j].conv)', send[j].stage \in Pending, send[j].conv \notin dropped
          PROVE  Sending(send[j].conv)' /\ slot'[send[j].conv].cancelPending
        <3>1. PICK x \in Conversations : x = send[j].conv
            BY <2>0, <2>1, Typed DEF OwnedInv, Pending
        <3>2. j \in Of(x) /\ Watched(x)'
            BY <1>0, <1>5, <2>0, <2>1, <3>1 DEF Of, Watched
        <3>3. x # c
            BY <1>11, <2>1, <3>2
        <3>4. Sending(x) /\ slot[x].cancelPending
            <4>1. Plain(send[j].conv)
                BY <1>14, <2>0, <2>1 DEF Pending
            <4>. QED  BY <1>0, <2>1, <3>1, <4>1 DEF IInv, StopInv
        <3>. QED  BY <1>2, <1>5, <2>0, <3>1, <3>3, <3>4 DEF Sending
    <2>2. ASSUME NEW j \in stopped, Plain(send[j].conv)', send[j].stage = "adopted"
          PROVE  srv[j] = "ended" \/ j \in taken \cup cancels
        BY <1>14, <2>0, <2>2 DEF IInv, StopInv
    <2>. QED  BY <1>0, <1>5, <2>0, <2>1, <2>2 DEF StopInv
<1>17. ASSUME NEW x \in Conversations PROVE ConvInv(x)'
    <2>1. CASE x = c
        <3>1. RunAt(c)'
            BY <1>2, <1>3
        <3>2. Sending(c)' /\ i \notin closed' /\ send'[i].stage = "token"
            BY <1>0, <1>2, <1>3, <1>4, <1>5, <1>5a, <1>6, <1>12a DEF Sending
        <3>3. PendingAt(c)'
            BY <1>2, <1>3, <1>5, <1>8, <1>9, <1>11, <3>2
        <3>4. ASSUME Watched(c)', NEW j \in Of(c), send[j].stage = "adopted" PROVE j \in closed'
            BY <1>0, <1>1, <1>8, <1>11, <3>4 DEF IInv, AdoptedInv, run, Runs
        <3>5. AdoptedAt(c)'
            BY <1>5, <1>8, <3>2, <3>4
        <3>6. TextAt(c)'
            BY <1>2, <1>3
        <3>7. BusyAt(c)'
            BY <1>9, <3>2 DEF Pending
        <3>8. ComingAt(c)'
            <4>1. ASSUME Watched(c)', NEW j \in Of(c), srv[j] # "none" PROVE j \in closed'
                <5>1. send[j].stage \in {"adopted", "given up"}
                    BY <1>8, <1>11, <4>1, Typed DEF Pending, OwnedInv
                <5>2. send[j].stage = "given up" => j \in closed
                    BY <1>8, <1>11, <4>1 DEF IInv, GivenUpInv, Watched, Plain, Of
                <5>. QED  BY <1>0, <3>4, <4>1, <5>1, <5>2
            <4>. QED  BY <1>0, <1>6, <1>8, <4>1
        <3>. HIDE DEF RunAt, PendingAt, AdoptedAt, TextAt, BusyAt, ComingAt
        <3>. QED  BY <2>1, <3>1, <3>3, <3>5, <3>6, <3>7, <3>8 DEF ConvInv
    <2>2. CASE x # c
        <3>1. \A j \in Of(x) : j \in Runs \ {i} /\ j \notin run
            BY <1>8, <1>12a, <2>2 DEF Of
        <3>2. \A j : EndSent(j) => EndSent(j)'
            BY <1>0 DEF EndSent
        <3>3. Watched(x)' => Watched(x)
            BY <1>0, <1>10, <2>2 DEF Watched
        <3>. HIDE DEF RunAt, PendingAt, AdoptedAt, TextAt, BusyAt, ComingAt
        <3>4. ConvInv(x)
            BY ConvInvs
        <3>. QED  BY <1>0, <1>2, <1>5, <1>8, <2>2, <3>1, <3>2, <3>3, <3>4, OthersKeep
    <2>. QED  BY <2>1, <2>2
<1>. HIDE DEF RunAt, PendingAt, AdoptedAt, TextAt, BusyAt, ComingAt
<1>. QED  BY <1>13, <1>15, <1>16, <1>17, ConvInvs

\* A run that is not closed is the one that its conversation listens to.
LEMMA HeardRun ==
    ASSUME TypeInv, IInv, NEW c \in Conversations, Watched(c), slot[c] # NoSlot,
           NEW i \in Of(c) \ closed, srv[i] # "none"
    PROVE  /\ i \in Latest(c) /\ Sending(c)
           /\ \/ send[i].stage \in Pending /\ slot[c].runId = None
              \/ send[i].stage = "adopted" /\ slot[c].runId = i
<1>1. i \in Runs /\ send[i].conv = c
    BY DEF Of
<1>2. send[i].stage \in Pending \cup {"adopted"}
    BY <1>1, Typed DEF OwnedInv, Pending, IInv, GivenUpInv, Watched, Plain
<1>3. CASE send[i].stage \in Pending
    BY <1>3 DEF IInv, PendingInv
<1>4. CASE send[i].stage = "adopted"
    <2>1. slot[c].runId = i
        BY <1>4 DEF IInv, AdoptedInv
    <2>. QED  BY <1>1, <1>4, <2>1 DEF IInv, RunInv, Sending, Runs
<1>. QED  BY <1>2, <1>3, <1>4

\* Taking an event from the queue loses no other event.
LEMMA TailEvents ==
    ASSUME events \in Seq(Event), events # <<>>, events' = Tail(events), UNCHANGED <<srv, taken>>
    PROVE  /\ \A n \in DOMAIN events' : n + 1 \in DOMAIN events /\ events'[n] = events[n + 1]
           /\ \A j : EndSent(j) /\ (j # Head(events)[1] \/ Head(events)[2] \notin Terminal) => EndSent(j)'
           /\ 1 \in DOMAIN events /\ events[1] = Head(events)
<1>. HIDE DEF Event, Terminal
<1>1. \A n \in DOMAIN events' : n + 1 \in DOMAIN events /\ events'[n] = events[n + 1]
    OBVIOUS
<1>2. \A n \in DOMAIN events : n # 1 => n - 1 \in DOMAIN events' /\ events'[n - 1] = events[n]
    OBVIOUS
<1>3. 1 \in DOMAIN events /\ events[1] = Head(events)
    OBVIOUS
<1>4. ASSUME NEW j, EndSent(j), j # Head(events)[1] \/ Head(events)[2] \notin Terminal PROVE EndSent(j)'
    BY <1>2, <1>3, <1>4 DEF EndSent
<1>. QED  BY <1>1, <1>3, <1>4

LEMMA applyBridgeEventInv ==
    ASSUME NoSlot \notin Slot, TypeInv, IInv, applyBridgeEvent
    PROVE  IInv'
<1>. DEFINE i == Head(events)[1]
            type == Head(events)[2]
<1>1. /\ \A n \in DOMAIN events' : n + 1 \in DOMAIN events /\ events'[n] = events[n + 1]
      /\ \A j : EndSent(j) /\ (j # i \/ type \notin Terminal) => EndSent(j)'
      /\ 1 \in DOMAIN events /\ events[1] = Head(events)
    <2>1. events # <<>> /\ events' = Tail(events) /\ UNCHANGED <<srv, taken>>
        BY DEF applyBridgeEvent
    <2>. QED  BY <2>1, Typed, TailEvents
<1>2. PICK r \in Runs : r = i /\ srv[r] # "none" /\ send[r].stage # "unsent"
    <2>1. i \in Runs
        BY <1>1, Typed
    <2>2. srv[i] # "none"
        BY <1>1, Typed DEF OwnedInv
    <2>. QED  BY <2>1, <2>2, Typed DEF OwnedInv
<1>3. PICK t \in Terminal \cup {"running", "token", "message"} : t = type
    <2>1. Head(events) \in Event
        <3>1. events \in Seq(Event)
            BY Typed
        <3>. HIDE DEF Event
        <3>2. events[1] \in Event
            BY <1>1, <3>1
        <3>. QED  BY <1>1, <3>2
    <2>. QED  BY <2>1 DEF Event
<1>4. PICK c \in Conversations : c = send[r].conv
    BY <1>2, Typed DEF OwnedInv
<1>. DEFINE s == slot[c]
            heard == c \notin dropped /\ s # NoSlot /\ acceptsRun(s, r)
<1>5. /\ UNCHANGED <<active, dropped, send, cancels, srv, taken, stopped, orphans, overlapped>>
      /\ ~heard => UNCHANGED <<slot, closed>>
      /\ heard /\ t \in Terminal => closed' = closed \cup {r} /\ settleSessionView(c, Applied(s, r, t))
      /\ heard /\ t \notin Terminal => closed' = closed /\ slot' = [slot EXCEPT ![c] = Applied(s, r, t)]
    <2>. HIDE DEF Terminal
    <2>. QED  BY <1>2, <1>3, <1>4 DEF applyBridgeEvent
<1>6. /\ \A j : EndSent(j) /\ (j # r \/ t \notin Terminal) => EndSent(j)'
      /\ t \in Terminal => srv[r] = "ended" \/ r \in taken
      /\ r \in Of(c)
    <2>1. t \in Terminal => srv[r] = "ended" \/ r \in taken
        <3>. HIDE DEF Terminal
        <3>. QED  BY <1>1, <1>2, <1>3 DEF IInv, EndInv
    <2>. QED  BY <1>1, <1>2, <1>3, <1>4, <2>1 DEF Of
<1>7. EndInv'
    <2>. HIDE DEF Terminal
    <2>. QED  BY <1>1, <1>5 DEF IInv, EndInv
<1>. HIDE DEF i, type
<1>8. \A x : /\ Watched(x)' <=> Watched(x)
             /\ Plain(x)' <=> Plain(x)
             /\ Latest(x)' = Latest(x) /\ Of(x)' = Of(x)
    BY <1>5 DEF Watched, Plain, Latest, Of
<1>9. slot \in [Conversations -> Slot \cup {NoSlot}] /\ (s # NoSlot => s \in Slot)
    BY Typed
<1>10. closed' \subseteq closed \cup {r} /\ closed \subseteq closed'
    BY <1>5
<1>11. FreshInv' /\ ClosedInv' /\ GivenUpInv'
    <2>1. r \in closed' => r \in closed \/ srv[r] = "ended" \/ r \in taken
        BY <1>5, <1>6
    <2>. QED  BY <1>2, <1>5, <1>8, <1>10, <2>1 DEF IInv, FreshInv, ClosedInv, GivenUpInv
<1>12. CASE ~heard
    <2>1. UNCHANGED <<slot, send, closed, dropped, orphans, overlapped>>
        BY <1>5, <1>12
    <2>2. RunInv' /\ PendingInv' /\ AdoptedInv' /\ TextInv' /\ BusyInv' /\ \A x : Sending(x)' <=> Sending(x)
        BY <2>1, FrameKeeps
    <2>3. ComingInv'
        <3>1. ASSUME NEW x \in Conversations, Watched(x), Sending(x), NEW j \in Of(x) \ closed, srv[j] # "none",
                     ~(slot[x].cancelPending /\ slot[x].runId = None)
              PROVE  EndSent(j)'
            <4>1. EndSent(j)
                BY <3>1 DEF IInv, ComingInv
            <4>2. j # r
                <5>1. CASE j = r
                    <6>1. x = c /\ slot[c] # NoSlot /\ c \notin dropped
                        BY <1>4, <3>1, <5>1 DEF Of, Sending, Watched
                    <6>2. slot[c].runId \in {None, r}
                        BY <3>1, <5>1, <6>1, HeardRun
                    <6>3. acceptsRun(slot[c], r)
                        BY <3>1, <5>1, <6>1, <6>2 DEF acceptsRun, Sending
                    <6>. QED  BY <1>12, <6>1, <6>3
                <5>. QED  BY <5>1
            <4>. QED  BY <1>6, <4>1, <4>2
        <3>. QED  BY <1>5, <1>8, <2>1, <2>2, <3>1 DEF ComingInv
    <2>4. StopInv'
        BY <1>5, <1>8, <2>1, <2>2 DEF IInv, StopInv
    <2>. QED  BY <1>7, <1>11, <2>2, <2>3, <2>4 DEF IInv
<1>13. CASE heard
    <2>. DEFINE new == Applied(s, r, t)
    <2>1. s \in Slot /\ c \notin dropped /\ s # NoSlot /\ r \notin closed /\ ~(s.cancelPending /\ s.runId = None)
        BY <1>9, <1>13 DEF acceptsRun
    <2>2. Watched(c) => /\ r \in Latest(c) /\ s.sending
                        /\ \/ send[r].stage \in Pending /\ s.runId = None
                           \/ send[r].stage = "adopted" /\ s.runId = r
        BY <1>2, <1>6, <2>1, HeardRun DEF Sending
    <2>3. new \in Slot
        <3>. HIDE DEF Slot, Terminal
        <3>. QED  BY <1>3, <2>1, AppliedTypes
    <2>4. /\ t \notin Terminal => /\ new.runId = s.runId /\ new.sending = s.sending
                                  /\ new.cancelPending = s.cancelPending /\ new.text \subseteq s.text \cup {r}
          /\ t \in Terminal => /\ new.runId = None /\ ~new.sending /\ new.status \in Terminal
                               /\ new.text \subseteq s.text
        BY <1>3, <2>1 DEF Applied
    <2>5. \A x \in Conversations \ {c} : slot'[x] = slot[x]
        <3>. HIDE DEF new, Slot
        <3>. QED  BY <1>5, <1>9, <1>13 DEF settleSessionView, releaseIdleSession
    <2>6. t \notin Terminal => slot'[c] = new
        <3>. HIDE DEF Slot, Terminal
        <3>. QED  BY <1>5, <1>9, <1>13
    <2>7. t \in Terminal => slot'[c] \in {new, NoSlot, Released(new)}
        <3>. HIDE DEF Slot, Terminal
        <3>. QED  BY <1>5, <1>9, <1>13 DEF settleSessionView, releaseIdleSession
    <2>. HIDE DEF new
    <2>8. t \in Terminal => slot'[c] = NoSlot \/
             (slot'[c].runId = None /\ ~slot'[c].sending /\ slot'[c].status # "running" /\ slot'[c].text \subseteq s.text)
        BY <2>3, <2>4, <2>7 DEF Released
    <2>9. new # NoSlot
        <3>. HIDE DEF Slot
        <3>. QED  BY <2>3
    <2>10. Watched(c) => \A j \in Of(c) : send[j].stage \in Pending => j = r /\ s.runId = None
        <3>1. ASSUME Watched(c), NEW j \in Of(c), send[j].stage \in Pending
              PROVE  j \in Latest(c) /\ s.runId = None
            BY <2>1, <3>1 DEF IInv, PendingInv
        <3>. QED  BY <2>2, <3>1, LatestUnique
    <2>11. StopInv'
        <3>1. ASSUME NEW j \in stopped, Plain(send[j].conv), send[j].stage \in Pending, send[j].conv \notin dropped
              PROVE  Sending(send[j].conv)' /\ slot'[send[j].conv].cancelPending
            <4>1. j \in Runs /\ send[j].conv \in Conversations /\ Sending(send[j].conv) /\ slot[send[j].conv].cancelPending
                BY <3>1, Typed DEF IInv, StopInv, OwnedInv, Pending
            <4>2. send[j].conv # c
                BY <2>1, <2>10, <3>1, <4>1 DEF Watched, Of
            <4>. QED  BY <1>5, <2>5, <4>1, <4>2 DEF Sending
        <3>2. ASSUME NEW j \in stopped, Plain(send[j].conv), send[j].stage = "adopted"
              PROVE  srv[j] = "ended" \/ j \in taken \cup cancels
            BY <3>2 DEF IInv, StopInv
        <3>. QED  BY <1>5, <1>8, <3>1, <3>2 DEF StopInv
    <2>12. ASSUME NEW x \in Conversations, x # c PROVE ConvInv(x)'
        <3>1. \A j \in Of(x) : j \in Runs \ {r}
            BY <1>4, <2>12 DEF Of
        <3>2. \A j \in Runs \ {r} : j \in closed' <=> j \in closed
            BY <1>10
        <3>. HIDE DEF RunAt, PendingAt, AdoptedAt, TextAt, BusyAt, ComingAt
        <3>3. ConvInv(x)
            BY ConvInvs
        <3>. QED  BY <1>5, <1>6, <1>8, <2>5, <2>12, <3>1, <3>2, <3>3, OthersKeep
    <2>13. CASE t \notin Terminal
        <3>1. closed' = closed /\ slot'[c] = new /\ (Sending(c)' <=> Sending(c))
            BY <1>5, <1>13, <2>1, <2>4, <2>6, <2>9, <2>13 DEF Sending
        <3>2. new.runId = s.runId /\ new.sending = s.sending /\ new.cancelPending = s.cancelPending
            BY <2>4, <2>13
        <3>. HIDE DEF Terminal
        <3>3. RunAt(c)'
            BY <1>5, <1>8, <2>1, <2>2, <3>1, <3>2 DEF IInv, RunInv
        <3>4. PendingAt(c)' /\ AdoptedAt(c)'
            BY <1>5, <1>8, <2>1, <2>9, <3>1, <3>2 DEF IInv, PendingInv, AdoptedInv
        <3>5. TextAt(c)'
            BY <1>8, <2>1, <2>2, <2>4, <2>13, <3>1 DEF IInv, TextInv
        <3>6. BusyAt(c)'
            BY <1>5, <1>8, <2>9, <3>1, <3>2 DEF IInv, BusyInv
        <3>7. ComingAt(c)'
            <4>. HIDE DEF EndSent
            <4>. QED  BY <1>5, <1>6, <1>8, <2>13, <3>1, <3>2 DEF IInv, ComingInv
        <3>. HIDE DEF RunAt, PendingAt, AdoptedAt, TextAt, BusyAt, ComingAt
        <3>8. ConvInv(c)'
            BY <3>3, <3>4, <3>5, <3>6, <3>7 DEF ConvInv
        <3>. QED  BY <1>7, <1>11, <2>11, <2>12, <3>8, ConvInvs
    <2>14. CASE t \in Terminal
        <3>1. closed' = closed \cup {r} /\ ~Sending(c)'
            BY <1>5, <1>13, <2>8, <2>14 DEF Sending
        <3>2. slot'[c] = NoSlot \/ (slot'[c].runId = None /\ slot'[c].status # "running" /\ slot'[c].text \subseteq s.text)
            BY <2>8, <2>14
        <3>. HIDE DEF Terminal
        <3>3. RunAt(c)'
            BY <3>2
        <3>4. PendingAt(c)'
            BY <1>5, <1>8, <2>2, <2>10, <3>1, <3>2
        <3>5. AdoptedAt(c)'
            <4>1. ASSUME Watched(c), NEW j \in Of(c), send[j].stage = "adopted" PROVE j \in closed'
                <5>1. j \in closed \/ s.runId = j
                    BY <4>1 DEF IInv, AdoptedInv
                <5>2. j \in Runs
                    BY DEF Of
                <5>. QED  BY <2>2, <3>1, <4>1, <5>1, <5>2 DEF Runs
            <4>. QED  BY <1>5, <1>8, <4>1
        <3>6. TextAt(c)'
            BY <1>8, <2>1, <3>2 DEF IInv, TextInv
        <3>7. BusyAt(c)' /\ ComingAt(c)'
            BY <3>1
        <3>. HIDE DEF RunAt, PendingAt, AdoptedAt, TextAt, BusyAt, ComingAt
        <3>8. ConvInv(c)'
            BY <3>3, <3>4, <3>5, <3>6, <3>7 DEF ConvInv
        <3>. QED  BY <1>7, <1>11, <2>11, <2>12, <3>8, ConvInvs
    <2>. QED  BY <2>13, <2>14
<1>. QED  BY <1>12, <1>13

-----------------------------------------------------------------------------
(* The theorems.                                                           *)

LEMMA IInvInit ==
    ASSUME Init
    PROVE  IInv
<1>1. /\ send \in [Runs -> SendOf] /\ \A i \in Runs : send[i].stage = "unsent" /\ send[i].conv = NoConv
      /\ \A c \in Conversations : slot[c] = NoSlot
    BY DEF Init, Runs
<1>2. /\ closed = {} /\ cancels = {} /\ taken = {} /\ stopped = {} /\ dropped = {} /\ DOMAIN events = {}
      /\ \A i \in Runs : srv[i] = "none"
    BY DEF Init
<1>3. FreshInv /\ EndInv /\ ClosedInv /\ GivenUpInv /\ StopInv
    BY <1>1, <1>2 DEF FreshInv, EndInv, ClosedInv, GivenUpInv, StopInv
<1>4. RunInv /\ PendingInv /\ AdoptedInv /\ TextInv /\ BusyInv /\ ComingInv
    BY <1>1 DEF RunInv, PendingInv, AdoptedInv, TextInv, BusyInv, ComingInv, Of, Pending, Sending
<1>. QED  BY <1>3, <1>4 DEF IInv

LEMMA IInvNext ==
    ASSUME NoSlot \notin Slot, NoConv \notin Conversations, TypeInv, IInv, [Next]_vars
    PROVE  IInv'
<1>1. CASE Next
    <2>1. ASSUME NEW c \in Conversations, RemoveReturns(c) PROVE IInv'
        BY <2>1, RemoveReturnsInv
    <2>2. ASSUME NEW i \in Runs, NEW kind \in Kinds, NEW from \in Runs \cup {None}, Send(i, kind, from) PROVE IInv'
        <3>. HIDE DEF Kinds, None
        <3>. QED  BY <2>2, SendInv
    <2>3. ASSUME NEW i \in Runs, TokenResolves(i) PROVE IInv'
        BY <2>3, TokenResolvesInv
    <2>4. ASSUME NEW i \in Runs, TokenFails(i) \/ CallFails(i) PROVE IInv'
        BY <2>4, FailsInv
    <2>5. ASSUME NEW i \in Runs, adoptRun(i) PROVE IInv'
        BY <2>5, adoptRunInv
    <2>6. ASSUME NEW i \in Runs,
                 RunStarts(i) \/ RunSpeaks(i) \/ RunAnswers(i) \/ RunEnds(i) \/ CancelArrives(i)
          PROVE  IInv'
        BY <2>6, PlatformActions
    <2>. HIDE DEF Kinds, None, Slot
    <2>. QED  BY <1>1, <2>1, <2>2, <2>3, <2>4, <2>5, <2>6, RestActions, StopActionInv, applyBridgeEventInv, NextCases
<1>2. CASE UNCHANGED vars
    <2>1. UNCHANGED <<slot, send, closed, dropped, orphans, overlapped, cancels, srv, taken, events, stopped>>
        BY <1>2 DEF vars
    <2>. QED  BY <2>1, RestKeeps DEF Rests
<1>. QED  BY <1>1, <1>2

\* The panel and the platform keep to their types, and each send, hydration
\* and event to a conversation, whatever the order of replies and events.
THEOREM PanelTypes == Spec => []TypeOK
<1>1. TypeInv => TypeOK
    BY DEF TypeInv
<1>. QED  BY <1>1, TypeInit, TypeNext, PTL DEF Spec

\* The invariant from which the next three follow.
THEOREM PanelInvariant ==
    ASSUME NoSlot \notin Slot, NoConv \notin Conversations
    PROVE  Spec => [](TypeInv /\ IInv)
<1>1. Init => TypeInv /\ IInv
    BY TypeInit, IInvInit
<1>2. TypeInv /\ IInv /\ [Next]_vars => (TypeInv /\ IInv)'
    BY TypeNext, IInvNext
<1>. QED  BY <1>1, <1>2, PTL DEF Spec

\* The composer is never locked for good: while a conversation shows that it
\* is busy, an answer to its last send, or the event of the end of its run, is
\* still to come (ai.ts acceptsRun, adoptRun, applyBridgeEvent).
THEOREM PanelNeverStuck ==
    ASSUME NoSlot \notin Slot, NoConv \notin Conversations
    PROVE  Spec => []NeverStuck
<1>1. ASSUME TypeInv, IInv PROVE NeverStuck
    <2>1. ASSUME NEW c \in Conversations \ dropped, slot[c] # NoSlot, Plain(c), sessionBusy(slot[c])
          PROVE  \E i \in Latest(c) : EndIsComing(i)
        <3>1. Watched(c) /\ Sending(c)
            BY <1>1, <2>1 DEF Watched, Sending, IInv, RunInv
        <3>2. PICK i \in Latest(c) : /\ i \notin closed
                                     /\ send[i].stage \in Pending \/ (send[i].stage = "adopted" /\ slot[c].runId = i)
            BY <1>1, <3>1 DEF IInv, BusyInv
        <3>3. CASE send[i].stage \in Pending
            BY <3>3 DEF EndIsComing, Pending
        <3>4. CASE send[i].stage = "adopted" /\ slot[c].runId = i
            <4>1. i \in Of(c) \ closed /\ i \in Runs /\ i # None
                BY <3>2 DEF Latest, Of, Runs
            <4>2. srv[i] # "none"
                BY <1>1, <3>4, <4>1 DEF IInv, FreshInv
            <4>3. EndSent(i)
                BY <1>1, <3>1, <3>4, <4>1, <4>2 DEF IInv, ComingInv
            <4>. QED  BY <4>2, <4>3 DEF EndSent, EndIsComing
        <3>. QED  BY <3>2, <3>3, <3>4
    <2>. HIDE DEF sessionBusy
    <2>. QED  BY <2>1 DEF NeverStuck
<1>. QED  BY <1>1, PanelInvariant, PTL

\* Only the run of the last send writes into the streaming text of a
\* conversation (ai.ts acceptsRun, closeRun).
THEOREM PanelShowsOneRun ==
    ASSUME NoSlot \notin Slot, NoConv \notin Conversations
    PROVE  Spec => []OneRunShown
<1>1. ASSUME TypeInv, IInv PROVE OneRunShown
    BY <1>1 DEF OneRunShown, IInv, TextInv, Watched
<1>. QED  BY <1>1, PanelInvariant, PTL

\* A run that was stopped, also before its number was known, or whose
\* conversation was deleted, is cancelled on the platform or over (ai.ts stop,
\* adoptRun, discardRun, removeConversation).
THEOREM PanelStopsRuns ==
    ASSUME NoSlot \notin Slot, NoConv \notin Conversations
    PROVE  Spec => []StoppedRunEnds
<1>1. ASSUME TypeInv, IInv PROVE StoppedRunEnds
    <2>1. ASSUME NEW i \in stopped, srv[i] \in Running, Plain(send[i].conv) PROVE CancelIsComing(i)
        <3>1. i \in Runs /\ srv[i] # "ended" /\ srv[i] # "none"
            BY <1>1, <2>1, Typed
        <3>2. send[i].stage \in {"calling", "adopted", "given up"}
            BY <1>1, <3>1, Typed DEF IInv, FreshInv, OwnedInv
        <3>3. CASE send[i].stage = "calling"
            BY <1>1, <2>1, <3>3 DEF IInv, StopInv, Pending, CancelIsComing
        <3>4. CASE send[i].stage = "adopted"
            BY <1>1, <2>1, <3>1, <3>4 DEF IInv, StopInv, CancelIsComing
        <3>5. CASE send[i].stage = "given up"
            BY <1>1, <2>1, <3>1, <3>5 DEF IInv, GivenUpInv, ClosedInv, Plain, CancelIsComing
        <3>. QED  BY <3>2, <3>3, <3>4, <3>5
    <2>. QED  BY <2>1 DEF StoppedRunEnds
<1>. QED  BY <1>1, PanelInvariant, PTL

-----------------------------------------------------------------------------
(* The view and the store.                                                  *)

HIDE DEF RunAt, PendingAt, AdoptedAt, TextAt, BusyAt, ComingAt, Slot, SendOf, LoadOf, NoLoad, Kinds,
        createSession, sessionBusy, sessionOf, Settle, Emit, RemoveTo, Statuses, Terminal, None, Running

\* A conversation to whose view nothing has happened that the code does not
\* make good.
Whole(c) == Watched(c) /\ c \notin erased \cup torn

\* The sends that the platform has yet to start, and what the store will have
\* left when it has started them.
Waiting(c) == {i \in Of(c) : send[i].stage \in Pending /\ srv[i] = "none"}
Kept(c) == {r \in stored[c] : \A i \in Waiting(c) : r \in Cut({r}, send[i].from)}

\* The answers that events are about to show.
AnswerComes(i) == \E n \in DOMAIN events : events[n] = <<i, "message">>
Told(c) == {i \in Of(c) \ closed : AnswerComes(i)}

\* A hydration that will be shown is under way.
Reloading(c) == \E n \in Loads : load[n].conv = c /\ load[n].current /\ load[n].gen = loadGen[c]

FromInv == \A i \in Runs : send[i].kind = "send" => send[i].from = None

\* A run is cancelled because the user stopped it, or when it is over.
CancelInv ==
    /\ \A i \in taken : Watched(send[i].conv) => i \in stopped
    /\ \A i \in cancels : Watched(send[i].conv) => i \in stopped \/ srv[i] = "ended"

\* A hydration that is over writes to no slot.
UnusedInv == \A n \in Loads : load[n].stage = "unused" => ~load[n].current

\* No answer comes after the end of a run, unless the run was taken out.
OrderInv ==
    \A m \in DOMAIN events : \A n \in 1..(m - 1) :
        events[m][1] = events[n][1] /\ events[n][2] \in Terminal /\ events[m][2] = "message" =>
            events[n][1] \in taken

AskedAt(c) == Watched(c) /\ slot[c] # NoSlot /\ slot[c].cancelPending => Latest(c) \subseteq stopped

\* What is told of has been stored, and stays.
ToldAt(c) == Whole(c) => Told(c) \subseteq Kept(c)

\* Nothing is sent while a hydration is under way.
IdleAt(c) == Whole(c) /\ Hydrating(c) => ~Sending(c)

\* What a hydration has read is still in the store, and all of it.
RowsAt(c) ==
    Whole(c) => \A n \in Loads :
        load[n].conv = c /\ load[n].current /\ load[n].stage = "read" =>
            load[n].rows \subseteq stored[c] /\ stored[c] \ load[n].rows \subseteq stopped

\* The view shows what the store will keep, but for answers of stopped runs
\* and those that events are about to show, or is about to be restored.
ViewAt(c) ==
    Whole(c) /\ slot[c] # NoSlot /\ slot[c].loaded =>
        /\ slot[c].messages \subseteq Kept(c)
        /\ (CutFailed(c) /\ Reloading(c)) \/ Kept(c) \ slot[c].messages \subseteq stopped \cup Told(c)

ConvView(c) == AskedAt(c) /\ ToldAt(c) /\ IdleAt(c) /\ RowsAt(c) /\ ViewAt(c)

ViewInv == FromInv /\ CancelInv /\ UnusedInv /\ OrderInv /\ \A c \in Conversations : ConvView(c)

LEMMA DataSame ==
    ASSUME UNCHANGED <<send, srv, closed, stored, events>>
    PROVE  \A c : /\ Of(c)' = Of(c) /\ Latest(c)' = Latest(c) /\ Waiting(c)' = Waiting(c)
                  /\ Kept(c)' = Kept(c) /\ Told(c)' = Told(c) /\ (CutFailed(c)' <=> CutFailed(c))
BY DEF Of, Latest, Waiting, Kept, Told, AnswerComes, CutFailed

\* A run that is told of has started, and only that of the last send is heard.
LEMMA ToldStarted ==
    ASSUME TypeInv, NEW c, NEW i \in Told(c)
    PROVE  i \in Of(c) \ closed /\ srv[i] # "none"
BY Typed DEF Told, AnswerComes, OwnedInv

LEMMA LatestOf == ASSUME NEW c PROVE Latest(c) \subseteq Of(c) /\ Of(c) \subseteq Runs
BY DEF Latest, Of

\* When a conversation does not send, all its runs are over for the panel.
LEMMA Rested ==
    ASSUME TypeInv, IInv, NEW c \in Conversations, Watched(c), ~Sending(c)
    PROVE  /\ \A i \in Of(c) : srv[i] # "none" => i \in closed
           /\ Waiting(c) = {} /\ Told(c) = {} /\ Kept(c) = stored[c]
<1>1. ASSUME NEW i \in Of(c), srv[i] # "none", i \notin closed PROVE FALSE
    <2>1. slot[c] = NoSlot
        BY <1>1, HeardRun
    <2>2. i \in Runs /\ send[i].conv = c
        BY DEF Of
    <2>3. send[i].stage \in Pending \cup {"adopted"}
        BY <1>1, <2>2, Typed DEF OwnedInv, Pending, IInv, GivenUpInv, Watched, Plain, SendOf
    <2>4. CASE send[i].stage \in Pending
        BY <1>1, <2>4 DEF IInv, PendingInv, PendingAt
    <2>5. CASE send[i].stage = "adopted"
        BY <1>1, <2>1, <2>5 DEF IInv, AdoptedInv, AdoptedAt
    <2>. QED  BY <2>3, <2>4, <2>5
<1>2. ASSUME NEW i \in Waiting(c) PROVE FALSE
    <2>1. i \in Of(c) /\ i \in Runs /\ send[i].stage \in Pending /\ srv[i] = "none"
        BY LatestOf DEF Waiting
    <2>2. i \in closed
        BY <2>1 DEF IInv, PendingInv, PendingAt
    <2>. QED  BY <2>1, <2>2 DEF IInv, FreshInv
<1>3. Told(c) = {}
    BY <1>1, ToldStarted
<1>. QED  BY <1>1, <1>2, <1>3 DEF Kept

\* A send that waits for its run is the last one, and nothing else is heard.
LEMMA OneWaits ==
    ASSUME TypeInv, IInv, NEW c \in Conversations, Watched(c), NEW i \in Waiting(c)
    PROVE  /\ Waiting(c) = {i} /\ i \in Latest(c) /\ Sending(c)
           /\ \A j \in Of(c) : srv[j] # "none" => j \in closed
           /\ Told(c) = {} /\ ~CutFailed(c)
<1>1. i \in Of(c) /\ i \in Runs /\ send[i].stage \in Pending /\ srv[i] = "none"
    BY LatestOf DEF Waiting
<1>2. i \notin closed
    BY <1>1 DEF IInv, FreshInv
<1>3. i \in Latest(c) /\ Sending(c)
    BY <1>1, <1>2 DEF IInv, PendingInv, PendingAt
<1>4. ASSUME NEW j \in Waiting(c) PROVE j = i
    <2>1. j \in Of(c) /\ send[j].stage \in Pending
        BY DEF Waiting
    <2>2. j \in Latest(c)
        BY <2>1 DEF IInv, PendingInv, PendingAt
    <2>. QED  BY <1>3, <2>2, LatestUnique
<1>5. ASSUME NEW j \in Of(c), srv[j] # "none", j \notin closed PROVE FALSE
    <2>1. j \in Latest(c)
        BY <1>3, <1>5, HeardRun DEF Sending
    <2>. QED  BY <1>1, <1>3, <1>5, <2>1, LatestUnique
<1>6. Told(c) = {}
    BY <1>5, ToldStarted
<1>7. ~CutFailed(c)
    <2>1. \A j \in Latest(c) : send[j].stage # "given up"
        BY <1>1, <1>3, LatestUnique DEF Pending
    <2>. QED  BY <2>1 DEF CutFailed
<1>. QED  BY <1>3, <1>4, <1>5, <1>6, <1>7

\* A run that the panel has closed is over, unless the user stopped it.
LEMMA ClosedOver ==
    ASSUME IInv, CancelInv, NEW c, Watched(c), NEW i \in Of(c), i \in closed
    PROVE  i \in stopped \/ srv[i] = "ended"
BY DEF IInv, ClosedInv, CancelInv, Watched, Of

LEMMA KeptStored == ASSUME NEW c PROVE Kept(c) \subseteq stored[c]
BY DEF Kept

\* A conversation of which nothing changes.
LEMMA ViewKeeps ==
    ASSUME NEW x, ConvView(x), Watched(x)' => Watched(x), Whole(x)' => Whole(x),
           slot'[x] = slot[x], stopped \subseteq stopped', Latest(x)' = Latest(x),
           stored'[x] = stored[x], Kept(x)' = Kept(x), Told(x)' = Told(x), loadGen'[x] = loadGen[x],
           Whole(x) /\ CutFailed(x) => CutFailed(x)',
           \A n \in Loads : load'[n].conv = x /\ load'[n].current => load'[n] = load[n],
           \A n \in Loads : load[n].conv = x /\ load[n].current => load'[n] = load[n]
    PROVE  ConvView(x)'
<1>1. (Hydrating(x)' => Hydrating(x)) /\ (Reloading(x) => Reloading(x)')
    BY DEF Hydrating, Reloading
<1>2. AskedAt(x)' /\ ToldAt(x)'
    BY DEF ConvView, AskedAt, ToldAt
<1>3. IdleAt(x)' /\ RowsAt(x)'
    BY <1>1 DEF ConvView, IdleAt, RowsAt, Sending
<1>4. ViewAt(x)'
    BY <1>1 DEF ConvView, ViewAt
<1>. QED  BY <1>2, <1>3, <1>4 DEF ConvView

\* A conversation whose sends and runs do not move.
LEMMA OtherSame ==
    ASSUME NEW x, Of(x)' = Of(x), stored'[x] = stored[x],
           \A j \in Of(x) : /\ send'[j] = send[j] /\ (srv'[j] = "none" <=> srv[j] = "none")
                           /\ (j \in closed' <=> j \in closed) /\ (AnswerComes(j)' <=> AnswerComes(j))
    PROVE  /\ Latest(x)' = Latest(x) /\ Kept(x)' = Kept(x) /\ Told(x)' = Told(x)
           /\ CutFailed(x) => CutFailed(x)'
<1>1. Latest(x)' = Latest(x)
    BY DEF Latest, Of
<1>2. Waiting(x)' = Waiting(x)
    BY DEF Waiting
<1>3. Waiting(x) \subseteq Of(x)
    BY DEF Waiting
<1>4. Kept(x)' = Kept(x)
    BY <1>2, <1>3 DEF Kept, Cut
<1>5. Told(x)' = Told(x)
    BY DEF Told
<1>6. CutFailed(x) => CutFailed(x)'
    BY <1>1, LatestOf DEF CutFailed
<1>. QED  BY <1>1, <1>4, <1>5, <1>6

\* Hydrations come and go: a slot stays, is released, or is new.
LEMMA LoadsKeep ==
    ASSUME NEW x, ConvView(x), Whole(x)' => Whole(x), Watched(x)' => Watched(x),
           UNCHANGED <<send, srv, closed, stored, events, stopped>>,
           \A n \in Loads : load'[n].conv = x /\ load'[n].current =>
               \/ load'[n] = load[n]
               \/ load'[n].stage # "read" /\ ~Sending(x)'
               \/ load'[n].rows = stored[x] /\ load[n].conv = x /\ load[n].current,
           \/ slot'[x] = slot[x] /\ (CutFailed(x) /\ Reloading(x) /\ Whole(x)' => Reloading(x)')
           \/ slot'[x] = NoSlot
           \/ /\ slot'[x] # NoSlot /\ ~slot'[x].loaded /\ ~slot'[x].sending
              /\ slot'[x].cancelPending => slot[x] # NoSlot /\ slot[x].cancelPending
    PROVE  ConvView(x)'
<1>1. /\ Latest(x)' = Latest(x) /\ Kept(x)' = Kept(x) /\ Told(x)' = Told(x)
      /\ CutFailed(x)' <=> CutFailed(x)
    BY DataSame
<1>2. AskedAt(x)' /\ ToldAt(x)'
    BY <1>1 DEF ConvView, AskedAt, ToldAt
<1>3. IdleAt(x)'
    BY DEF ConvView, IdleAt, Sending, Hydrating
<1>4. RowsAt(x)'
    BY DEF ConvView, RowsAt
<1>5. ViewAt(x)'
    BY <1>1 DEF ConvView, ViewAt
<1>. QED  BY <1>2, <1>3, <1>4, <1>5 DEF ConvView

LEMMA HydrateLoads ==
    ASSUME NEW c \in Conversations, NEW slots, NEW gens \in [Conversations -> Nat], NEW loads \in [Loads -> LoadOf],
           \A n \in Loads : loads[n].stage = "unused" => ~loads[n].current,
           hydrateConversation(c, slots, gens, loads)
    PROVE  /\ slot' = slots
           /\ \A x \in Conversations \ {c} : loadGen'[x] = gens[x]
           /\ \A n \in Loads : \/ load'[n] = loads[n]
                               \/ ~loads[n].current /\ load'[n].conv = c /\ load'[n].stage = "asked" /\ ~sessionBusy(slots[c])
           /\ \A n \in Loads : load'[n].stage = "unused" => ~load'[n].current
           /\ sessionBusy(slots[c]) => load' = loads /\ loadGen' = gens
           /\ ~sessionBusy(slots[c]) => Reloading(c)'
<1>1. CASE sessionBusy(slots[c])
    BY <1>1 DEF hydrateConversation
<1>2. CASE ~sessionBusy(slots[c])
    <2>. DEFINE unused == {n \in Loads : loads[n].stage = "unused"}
                k == CHOOSE m \in unused : TRUE
                new == [conv |-> c, gen |-> gens[c] + 1, current |-> TRUE, rows |-> {}, stage |-> "asked"]
    <2>1. unused # {} /\ slot' = slots /\ loadGen' = [gens EXCEPT ![c] = @ + 1] /\ load' = [loads EXCEPT ![k] = new]
        BY <1>2 DEF hydrateConversation
    <2>2. k \in Loads /\ loads[k].stage = "unused"
        BY <2>1
    <2>3. /\ new.conv = c /\ new.stage = "asked" /\ new.current /\ new.gen = gens[c] + 1
        OBVIOUS
    <2>. HIDE DEF k, new, unused
    <2>4. load'[k] = new /\ \A n \in Loads \ {k} : load'[n] = loads[n]
        BY <2>1, <2>2
    <2>5. loadGen'[c] = gens[c] + 1
        BY <2>1
    <2>6. Reloading(c)'
        BY <2>2, <2>3, <2>4, <2>5 DEF Reloading
    <2>. QED  BY <1>2, <2>1, <2>2, <2>3, <2>4, <2>6
<1>. QED  BY <1>1, <1>2

\* Releasing the conversation that is left, and hydrating the one that is opened.
LEMMA OpenView ==
    ASSUME NoSlot \notin Slot, TypeInv, ViewInv, NEW c \in Conversations, openConversation(c),
           UNCHANGED <<send, srv, closed, stored, events, stopped, dropped, orphans, overlapped, erased, torn>>
    PROVE  UnusedInv' /\ \A x \in Conversations : ConvView(x)'
<1>. DEFINE leaves == active \notin {NoConv, c} /\ slot[active] # NoSlot /\ ~sessionBusy(slot[active])
            slots == IF leaves THEN [slot EXCEPT ![active] = Released(@)] ELSE slot
            gens == IF leaves THEN [loadGen EXCEPT ![active] = 0] ELSE loadGen
            loads == IF leaves /\ slots[active] = NoSlot THEN Detach(active, load) ELSE load
            opened == [slots EXCEPT ![c] = sessionOf(c)]
<1>1. /\ slot \in [Conversations -> Slot \cup {NoSlot}] /\ load \in [Loads -> LoadOf]
      /\ loadGen \in [Conversations -> Nat] /\ (leaves => active \in Conversations /\ slot[active] \in Slot)
    BY DEF TypeInv, TypeOK
<1>2. /\ slots \in [Conversations -> Slot \cup {NoSlot}]
      /\ \A x \in Conversations : slots[x] = IF leaves /\ x = active THEN Released(slot[x]) ELSE slot[x]
    BY <1>1, ReleasedTypes
<1>3. /\ gens \in [Conversations -> Nat]
      /\ \A x \in Conversations : ~(leaves /\ x = active) => gens[x] = loadGen[x]
    BY <1>1
<1>4. /\ loads \in [Loads -> LoadOf]
      /\ \A n \in Loads : /\ loads[n].current => load[n].current /\ loads[n] = load[n]
                          /\ loads[n] # load[n] => load[n].conv = active /\ leaves
                          /\ loads[n].stage = "unused" => ~loads[n].current
    <2>1. loads \in [Loads -> LoadOf]
        BY <1>1, DetachTypes
    <2>2. CASE loads = load
        BY <2>1, <2>2 DEF ViewInv, UnusedInv
    <2>3. CASE leaves /\ loads = Detach(active, load)
        <3>1. ASSUME NEW n \in Loads
              PROVE  loads[n] = IF load[n].conv = active THEN [load[n] EXCEPT !.current = FALSE] ELSE load[n]
            BY <2>3 DEF Detach
        <3>2. ASSUME NEW n \in Loads
              PROVE  ~[load[n] EXCEPT !.current = FALSE].current
            <4>1. load[n] \in LoadOf
                BY <1>1
            <4>. QED  BY <4>1 DEF LoadOf
        <3>. HIDE DEF loads
        <3>. QED  BY <2>1, <2>3, <3>1, <3>2 DEF ViewInv, UnusedInv
    <2>. QED  BY <2>2, <2>3
<1>5. active' = c /\ hydrateConversation(c, opened, gens, loads)
    BY DEF openConversation
<1>. HIDE DEF slots, gens, loads
<1>6. opened[c] = sessionOf(c) /\ \A x \in Conversations \ {c} : opened[x] = slots[x]
    BY <1>2
<1>. HIDE DEF opened
<1>7. /\ slot' = opened
      /\ \A x \in Conversations \ {c} : loadGen'[x] = gens[x]
      /\ \A n \in Loads : \/ load'[n] = loads[n]
                          \/ ~loads[n].current /\ load'[n].conv = c /\ load'[n].stage = "asked" /\ ~sessionBusy(opened[c])
      /\ \A n \in Loads : load'[n].stage = "unused" => ~load'[n].current
      /\ sessionBusy(opened[c]) => load' = loads /\ loadGen' = gens
      /\ ~sessionBusy(opened[c]) => Reloading(c)'
    <2>1. gens \in [Conversations -> Nat] /\ loads \in [Loads -> LoadOf]
        BY <1>3, <1>4
    <2>2. \A n \in Loads : loads[n].stage = "unused" => ~loads[n].current
        BY <1>4
    <2>3. hydrateConversation(c, opened, gens, loads)
        BY <1>5
    <2>. HIDE DEF leaves
    <2>. QED  BY <2>1, <2>2, <2>3, HydrateLoads
<1>8. \A x : Whole(x)' <=> Whole(x)
    BY DEF Whole, Watched, Plain
<1>9. \A x : Watched(x)' <=> Watched(x)
    BY DEF Watched, Plain
<1>10. ASSUME NEW x \in Conversations, NEW n \in Loads, load'[n].conv = x, load'[n].current
       PROVE  load'[n] = load[n] \/ (load'[n].stage # "read" /\ ~Sending(x)')
    <2>1. CASE load'[n] = loads[n]
        BY <1>4, <1>10, <2>1
    <2>2. CASE load'[n].conv = c /\ load'[n].stage = "asked" /\ ~sessionBusy(opened[c])
        BY <1>7, <1>10, <2>2 DEF Sending, sessionBusy
    <2>. QED  BY <1>7, <2>1, <2>2
<1>11. ASSUME NEW x \in Conversations
       PROVE  \/ slot'[x] = slot[x] /\ (CutFailed(x) /\ Reloading(x) /\ Whole(x)' => Reloading(x)')
              \/ slot'[x] = NoSlot
              \/ /\ slot'[x] # NoSlot /\ ~slot'[x].loaded /\ ~slot'[x].sending
                 /\ slot'[x].cancelPending => slot[x] # NoSlot /\ slot[x].cancelPending
    <2>1. CASE x = c
        <3>1. CASE slot[c] = NoSlot
            <4>1. slot'[c] = createSession
                BY <1>6, <1>7, <3>1 DEF sessionOf
            <4>2. createSession \in Slot /\ ~createSession.loaded /\ ~createSession.sending /\ ~createSession.cancelPending
                BY DEF createSession, Slot, Statuses, Runs, None
            <4>. QED  BY <2>1, <4>1, <4>2
        <3>2. CASE slot[c] # NoSlot
            <4>1. slot'[c] = slot[c] /\ opened[c] = slot[c]
                BY <1>6, <1>7, <3>2 DEF sessionOf
            <4>2. CASE sessionBusy(opened[c])
                <5>1. leaves => active # c
                    OBVIOUS
                <5>2. load' = loads /\ loadGen'[c] = loadGen[c]
                    BY <1>3, <1>7, <4>2, <5>1
                <5>3. \A n \in Loads : load[n].conv = c => load'[n] = load[n]
                    BY <1>4, <5>1, <5>2
                <5>. QED  BY <2>1, <4>1, <5>2, <5>3 DEF Reloading
            <4>3. CASE ~sessionBusy(opened[c])
                BY <1>7, <2>1, <4>1, <4>3
            <4>. QED  BY <4>2, <4>3
        <3>. QED  BY <3>1, <3>2
    <2>2. CASE x # c /\ leaves /\ x = active
        <3>1. slot'[x] = Released(slot[x]) /\ slot[x] \in Slot /\ ~sessionBusy(slot[x]) /\ slot[x] # NoSlot
            BY <1>1, <1>2, <1>6, <1>7, <2>2
        <3>2. Released(slot[x]) \in Slot \cup {NoSlot}
            BY <3>1, ReleasedTypes
        <3>3. \/ Released(slot[x]) = NoSlot
              \/ /\ ~Released(slot[x]).loaded /\ Released(slot[x]).sending = slot[x].sending
                 /\ Released(slot[x]).cancelPending = slot[x].cancelPending
            BY <3>1 DEF Released, Slot
        <3>. QED  BY <3>1, <3>2, <3>3 DEF sessionBusy
    <2>3. CASE x # c /\ ~(leaves /\ x = active)
        <3>1. slot'[x] = slot[x] /\ loadGen'[x] = loadGen[x]
            BY <1>2, <1>3, <1>6, <1>7, <2>3
        <3>2. \A n \in Loads : load[n].conv = x /\ load[n].current => load'[n] = load[n]
            BY <1>4, <1>7, <2>3
        <3>. QED  BY <3>1, <3>2 DEF Reloading
    <2>. QED  BY <2>1, <2>2, <2>3
<1>. QED  BY <1>7, <1>8, <1>9, <1>10, <1>11, LoadsKeep DEF ViewInv, UnusedInv

\* What concerns runs and events alone.
LEMMA RunPartKeeps ==
    ASSUME FromInv /\ CancelInv /\ OrderInv,
           UNCHANGED <<send, srv, events, stopped, taken, cancels, orphans, overlapped>>, dropped \subseteq dropped'
    PROVE  (FromInv /\ CancelInv /\ OrderInv)'
<1>1. \A x : Watched(x)' => Watched(x)
    BY DEF Watched, Plain
<1>. QED  BY <1>1 DEF FromInv, CancelInv, OrderInv

LEMMA OpenActions ==
    ASSUME NoSlot \notin Slot, TypeInv, ViewInv,
           NEW c \in Conversations, Open(c) \/ Remove(c) \/ StoreDeletes(c) \/ RemoveFails(c) \/ RemoveRefreshed(c)
    PROVE  ViewInv'
<1>1. /\ UNCHANGED <<send, srv, closed, stored, events, stopped, dropped, orphans, overlapped, torn, taken, cancels>>
      /\ erased \subseteq erased'
    BY DEF Open, Remove, StoreDeletes, RemoveFails, RemoveRefreshed
<1>2. (FromInv /\ CancelInv /\ OrderInv)'
    BY <1>1, RunPartKeeps DEF ViewInv
<1>3. ASSUME UNCHANGED <<slot, load, loadGen>> PROVE ViewInv'
    <2>1. \A x : /\ Latest(x)' = Latest(x) /\ Kept(x)' = Kept(x) /\ Told(x)' = Told(x)
                 /\ CutFailed(x)' <=> CutFailed(x)
        BY <1>1, DataSame
    <2>2. \A x : (Watched(x)' <=> Watched(x)) /\ (Whole(x)' => Whole(x))
        BY <1>1 DEF Watched, Plain, Whole
    <2>3. \A x \in Conversations : ConvView(x)'
        BY <1>1, <1>3, <2>1, <2>2, ViewKeeps DEF ViewInv
    <2>. QED  BY <1>2, <1>3, <2>3 DEF ViewInv, UnusedInv
<1>4. ASSUME NEW d \in Conversations, openConversation(d), erased' = erased PROVE ViewInv'
    BY <1>1, <1>2, <1>4, OpenView DEF ViewInv
<1>. QED  BY <1>3, <1>4 DEF Open, Remove, StoreDeletes, RemoveFails, RemoveRefreshed

LEMMA LoadReadsView ==
    ASSUME TypeInv, ViewInv, NEW n \in Loads, LoadReads(n)
    PROVE  ViewInv'
<1>1. /\ UNCHANGED <<send, srv, closed, stored, events, stopped, dropped, orphans, overlapped, torn, taken, cancels, erased>>
      /\ UNCHANGED <<slot, loadGen>> /\ load[n].stage = "asked"
    BY DEF LoadReads
<1>2. /\ load'[n].conv = load[n].conv /\ load'[n].gen = load[n].gen /\ load'[n].current = load[n].current
      /\ load'[n].rows = stored[load[n].conv] /\ load'[n].stage = "read"
      /\ \A m \in Loads \ {n} : load'[m] = load[m]
    <2>1. load \in [Loads -> LoadOf]
        BY DEF TypeInv, TypeOK
    <2>. QED  BY <2>1 DEF LoadReads, LoadOf
<1>3. (FromInv /\ CancelInv /\ OrderInv)'
    BY <1>1, RunPartKeeps DEF ViewInv
<1>4. UnusedInv'
    BY <1>2 DEF ViewInv, UnusedInv
<1>5. ASSUME NEW x \in Conversations PROVE ConvView(x)'
    <2>1. (Whole(x)' => Whole(x)) /\ (Watched(x)' => Watched(x))
        BY <1>1 DEF Whole, Watched, Plain
    <2>2. Reloading(x) => Reloading(x)'
        BY <1>1, <1>2 DEF Reloading
    <2>3. \A m \in Loads : load'[m].conv = x /\ load'[m].current =>
               load'[m] = load[m] \/ (load'[m].rows = stored[x] /\ load[m].conv = x /\ load[m].current)
        BY <1>2
    <2>. QED  BY <1>1, <2>1, <2>2, <2>3, LoadsKeep DEF ViewInv
<1>. QED  BY <1>3, <1>4, <1>5 DEF ViewInv

\* A hydration that fails leaves the view as it is.
LEMMA LoadFailsView ==
    ASSUME TypeInv, ViewInv, NEW n \in Loads, LoadFails(n)
    PROVE  ViewInv'
<1>1. /\ UNCHANGED <<send, srv, closed, stored, events, stopped, dropped, orphans, overlapped, taken, cancels, erased>>
      /\ UNCHANGED <<slot, loadGen>> /\ torn \subseteq torn'
      /\ load[n].current /\ CutFailed(load[n].conv) => load[n].conv \in torn'
    BY DEF LoadFails
<1>2. load'[n] = NoLoad /\ ~load'[n].current /\ \A m \in Loads \ {n} : load'[m] = load[m]
    BY DEF LoadFails, TypeInv, TypeOK, NoLoad
<1>3. (FromInv /\ CancelInv /\ OrderInv)'
    BY <1>1, RunPartKeeps DEF ViewInv
<1>4. UnusedInv'
    BY <1>2 DEF ViewInv, UnusedInv
<1>5. ASSUME NEW x \in Conversations PROVE ConvView(x)'
    <2>1. (Whole(x)' => Whole(x)) /\ (Watched(x)' => Watched(x))
        BY <1>1 DEF Whole, Watched, Plain
    <2>2. CutFailed(x) /\ Reloading(x) /\ Whole(x)' => Reloading(x)'
        BY <1>1, <1>2 DEF Reloading, Whole
    <2>. QED  BY <1>1, <1>2, <2>1, <2>2, LoadsKeep DEF ViewInv
<1>. QED  BY <1>3, <1>4, <1>5 DEF ViewInv

\* A hydration that returns shows what it has read, or another has begun.
LEMMA LoadReturnsView ==
    ASSUME NoSlot \notin Slot, TypeInv, IInv, ViewInv, NEW n \in Loads, LoadReturns(n)
    PROVE  ViewInv'
<1>c. PICK c : c = load[n].conv
    OBVIOUS
<1>. DEFINE shown == loadGen[c] = load[n].gen /\ c \notin dropped /\ load[n].current /\ ~sessionBusy(slot[c])
<1>1. /\ UNCHANGED <<send, srv, closed, stored, events, stopped, dropped, orphans, overlapped, torn, taken, cancels, erased>>
      /\ UNCHANGED loadGen /\ load[n].stage = "read"
    BY DEF LoadReturns
<1>2. load'[n] = NoLoad /\ ~load'[n].current /\ \A m \in Loads \ {n} : load'[m] = load[m]
    BY DEF LoadReturns, TypeInv, TypeOK, NoLoad
<1>3. slot' = IF shown THEN [slot EXCEPT ![c].messages = load[n].rows, ![c].loaded = TRUE] ELSE slot
    BY <1>c DEF LoadReturns
<1>4. load[n].current => c \in Conversations /\ slot[c] \in Slot /\ slot[c] # NoSlot
    BY <1>c DEF TypeInv, OwnedInv, LoadOwned
<1>5. shown => /\ slot'[c] = [slot[c] EXCEPT !.messages = load[n].rows, !.loaded = TRUE]
               /\ \A x \in Conversations \ {c} : slot'[x] = slot[x]
    BY <1>3, <1>4, Typed
<1>6. (FromInv /\ CancelInv /\ OrderInv)'
    BY <1>1, RunPartKeeps DEF ViewInv
<1>7. UnusedInv'
    BY <1>2 DEF ViewInv, UnusedInv
<1>8. \A x : (Whole(x)' <=> Whole(x)) /\ (Watched(x)' <=> Watched(x))
    BY <1>1 DEF Whole, Watched, Plain
<1>9. ASSUME NEW x \in Conversations, ~(shown /\ x = c) PROVE ConvView(x)'
    <2>1. slot'[x] = slot[x]
        BY <1>3, <1>5, <1>9
    <2>2. ASSUME Whole(x), Reloading(x), ~Reloading(x)' PROVE FALSE
        <3>1. c = x /\ load[n].current /\ load[n].gen = loadGen[x]
            BY <1>c, <1>1, <1>2, <2>2 DEF Reloading
        <3>2. ~Sending(x)
            BY <1>c, <2>2, <3>1 DEF ViewInv, ConvView, IdleAt, Hydrating
        <3>3. ~sessionBusy(slot[x])
            BY <1>4, <2>2, <3>1, <3>2 DEF IInv, RunInv, RunAt, Sending, sessionBusy, Whole
        <3>. QED  BY <1>9, <2>2, <3>1, <3>3 DEF Whole, Watched
    <2>3. CutFailed(x) /\ Reloading(x) /\ Whole(x)' => Reloading(x)'
        BY <1>8, <2>2
    <2>4. \A m \in Loads : load'[m].conv = x /\ load'[m].current => load'[m] = load[m]
        BY <1>2
    <2>. HIDE DEF shown
    <2>. QED  BY <1>1, <1>8, <2>1, <2>3, <2>4, LoadsKeep DEF ViewInv
<1>10. ASSUME shown PROVE ConvView(c)'
    <2>1. c \in Conversations /\ slot[c] \in Slot /\ slot[c] # NoSlot /\ ~sessionBusy(slot[c])
        BY <1>4, <1>10
    <2>2. /\ slot'[c] \in Slot /\ slot'[c] # NoSlot
          /\ slot'[c].messages = load[n].rows /\ slot'[c].sending = slot[c].sending
          /\ slot'[c].cancelPending = slot[c].cancelPending
        <3>1. load[n].rows \in SUBSET Runs
            BY DEF TypeInv, TypeOK, LoadOf
        <3>2. slot'[c] \in Slot
            BY <1>5, <1>10, <2>1, <3>1 DEF Slot
        <3>. QED  BY <1>5, <1>10, <2>1, <3>2 DEF Slot
    <2>3. /\ Latest(c)' = Latest(c) /\ Kept(c)' = Kept(c) /\ Told(c)' = Told(c)
          /\ CutFailed(c)' <=> CutFailed(c)
        BY <1>1, DataSame
    <2>4. AskedAt(c)' /\ ToldAt(c)'
        BY <1>1, <1>8, <2>1, <2>2, <2>3 DEF ViewInv, ConvView, AskedAt, ToldAt
    <2>5. IdleAt(c)' /\ RowsAt(c)'
        BY <1>1, <1>2, <1>8, <2>1, <2>2 DEF ViewInv, ConvView, IdleAt, RowsAt, Hydrating, Sending
    <2>6. ViewAt(c)'
        <3>1. Whole(c) => load[n].rows \subseteq stored[c] /\ stored[c] \ load[n].rows \subseteq stopped
            BY <1>c, <1>1, <1>10, <2>1 DEF ViewInv, ConvView, RowsAt
        <3>2. Whole(c) => Kept(c) = stored[c]
            BY <2>1, Rested DEF Whole, Sending, sessionBusy
        <3>. QED  BY <1>1, <1>8, <2>2, <2>3, <3>1, <3>2 DEF ViewAt
    <2>. QED  BY <2>4, <2>5, <2>6 DEF ConvView
<1>. HIDE DEF shown
<1>. QED  BY <1>6, <1>7, <1>9, <1>10 DEF ViewInv

\* Deleting: the others keep their hydrations.
LEMMA RemoveReturnsView ==
    ASSUME NoSlot \notin Slot, TypeInv, IInv, ViewInv, NEW c \in Conversations, RemoveReturns(c)
    PROVE  ViewInv'
<1>. DEFINE run == IF slot[c] = NoSlot THEN {} ELSE {slot[c].runId} \ {None}
<1>1. /\ UNCHANGED <<send, srv, stored, events, orphans, overlapped, torn, taken, erased>>
      /\ dropped' = dropped \cup {c} /\ closed' = closed \cup run /\ cancels' = cancels \cup run
      /\ slot' = [slot EXCEPT ![c] = NoSlot] /\ stopped' = stopped \cup Of(c)
      /\ load' = Detach(c, load) /\ loadGen' = [loadGen EXCEPT ![c] = 0]
    BY DEF RemoveReturns, Of
<1>2. \A i \in run : send[i].conv = c
    BY Typed DEF IInv, RunInv, RunAt
<1>. HIDE DEF run
<1>3. load \in [Loads -> LoadOf] /\ loadGen \in [Conversations -> Nat]
    BY DEF TypeInv, TypeOK
<1>4. \A n \in Loads : load'[n] = IF load[n].conv = c THEN [load[n] EXCEPT !.current = FALSE] ELSE load[n]
    BY <1>1 DEF Detach
<1>5. \A l \in LoadOf : [l EXCEPT !.current = FALSE].current = FALSE /\ [l EXCEPT !.current = FALSE].stage = l.stage
    BY DEF LoadOf
<1>6. \A x : (Watched(x)' <=> Watched(x) /\ x # c) /\ Of(x)' = Of(x)
    BY <1>1 DEF Watched, Plain, Of
<1>7. FromInv' /\ CancelInv' /\ OrderInv'
    <2>1. \A i : Watched(send[i].conv)' => Watched(send[i].conv) /\ i \notin run
        BY <1>1, <1>2, <1>6
    <2>. QED  BY <1>1, <2>1 DEF ViewInv, FromInv, CancelInv, OrderInv
<1>8. UnusedInv'
    BY <1>3, <1>4, <1>5 DEF ViewInv, UnusedInv
<1>9. ASSUME NEW x \in Conversations, x # c PROVE ConvView(x)'
    <2>1. slot'[x] = slot[x] /\ loadGen'[x] = loadGen[x] /\ \A n \in Loads : load[n].conv = x => load'[n] = load[n]
        BY <1>1, <1>3, <1>4, <1>9, Typed
    <2>2. \A n \in Loads : load'[n].conv = x /\ load'[n].current => load'[n] = load[n]
        BY <1>3, <1>4, <1>5
    <2>3. (Watched(x)' => Watched(x)) /\ (Whole(x)' => Whole(x))
        BY <1>1, <1>6 DEF Whole
    <2>4. \A j \in Of(x) : (j \in closed' <=> j \in closed) /\ (AnswerComes(j)' <=> AnswerComes(j))
        BY <1>1, <1>2, <1>9 DEF Of, AnswerComes
    <2>5. /\ Latest(x)' = Latest(x) /\ Kept(x)' = Kept(x) /\ Told(x)' = Told(x)
          /\ CutFailed(x) => CutFailed(x)'
        BY <1>1, <1>6, <2>4, OtherSame
    <2>. QED  BY <1>1, <2>1, <2>2, <2>3, <2>5, ViewKeeps DEF ViewInv
<1>10. ConvView(c)'
    BY <1>6 DEF ConvView, AskedAt, ToldAt, IdleAt, RowsAt, ViewAt, Whole
<1>. QED  BY <1>7, <1>8, <1>9, <1>10 DEF ViewInv

LEMMA TokenResolvesView ==
    ASSUME TypeInv, IInv, ViewInv, NEW i \in Runs, TokenResolves(i)
    PROVE  ViewInv'
<1>c. PICK c \in Conversations : c = send[i].conv
    BY Typed DEF OwnedInv, TokenResolves
<1>. DEFINE to == IF c \in dropped \/ slot[c] = NoSlot THEN "given up" ELSE "calling"
<1>1. /\ UNCHANGED <<slot, load, loadGen, srv, closed, stored, events, stopped, dropped, orphans, overlapped, torn, taken, cancels, erased>>
      /\ send[i].stage = "token" /\ Settle(i, to)
    BY <1>c DEF TokenResolves
<1>2. to \in {"given up", "calling"} /\ (to = "given up" => c \in dropped \/ slot[c] = NoSlot)
    OBVIOUS
<1>. HIDE DEF to
<1>3. /\ \A j \in Runs : /\ send'[j].conv = send[j].conv /\ send'[j].kind = send[j].kind /\ send'[j].from = send[j].from
                         /\ send'[j].stage = IF j = i THEN to ELSE send[j].stage
    BY <1>1, Typed DEF Settle, SendOf
<1>4. \A x : /\ Latest(x)' = Latest(x) /\ Of(x)' = Of(x) /\ (Plain(x)' <=> Plain(x))
             /\ (Watched(x)' <=> Watched(x)) /\ (Whole(x)' <=> Whole(x))
    BY <1>1, <1>2, SettleFrame DEF Watched, Whole
<1>5. srv[i] = "none" /\ i \in Of(c) /\ i \in Waiting(c)
    BY <1>c, <1>1 DEF IInv, FreshInv, Of, Waiting, Pending
<1>6. Watched(c) => to = "calling"
    BY <1>2, <1>5, OneWaits DEF Watched, Sending
<1>7. FromInv' /\ CancelInv' /\ OrderInv'
    <2>1. \A j \in taken \cup cancels : j \in Runs
        BY Typed
    <2>. QED  BY <1>1, <1>3, <1>4, <2>1 DEF ViewInv, FromInv, CancelInv, OrderInv
<1>8. ASSUME NEW x \in Conversations PROVE ConvView(x)'
    <2>1. CASE Watched(x)
        <3>1. \A j \in Of(x) : send'[j].stage \in Pending <=> send[j].stage \in Pending
            BY <1>c, <1>1, <1>3, <1>6, <2>1 DEF Of, Pending
        <3>2. Waiting(x)' = Waiting(x)
            BY <1>1, <1>4, <3>1 DEF Waiting
        <3>3. Kept(x)' = Kept(x)
            BY <1>1, <1>3, <3>2 DEF Kept, Cut, Waiting, Of
        <3>4. Told(x)' = Told(x)
            BY <1>1, <1>4 DEF Told, AnswerComes
        <3>5. CutFailed(x) => CutFailed(x)'
            BY <1>1, <1>3, <1>4, LatestOf DEF CutFailed
        <3>. QED  BY <1>1, <1>4, <3>3, <3>4, <3>5, ViewKeeps DEF ViewInv
    <2>2. CASE ~Watched(x)
        BY <1>4, <2>2 DEF ConvView, AskedAt, ToldAt, IdleAt, RowsAt, ViewAt, Whole
    <2>. QED  BY <2>1, <2>2
<1>. QED  BY <1>1, <1>7, <1>8 DEF ViewInv, UnusedInv

\* A stop before the run is known is remembered for the last send.
LEMMA StopView ==
    ASSUME NoSlot \notin Slot, TypeInv, IInv, ViewInv, Stop
    PROVE  ViewInv'
<1>c. PICK c \in Conversations : c = active /\ slot[c] # NoSlot /\ slot[c] \in Slot
    BY Typed DEF Stop
<1>1. /\ UNCHANGED <<send, load, loadGen, srv, closed, stored, events, dropped, orphans, overlapped, torn, taken, erased>>
      /\ \/ /\ slot' = slot /\ stopped' = stopped \cup {slot[c].runId} /\ cancels' = cancels \cup {slot[c].runId}
         \/ /\ slot' = [slot EXCEPT ![c].cancelPending = TRUE] /\ stopped' = stopped \cup Latest(c)
            /\ cancels' = cancels
    BY <1>c DEF Stop
<1>2. \A x : /\ Latest(x)' = Latest(x) /\ Kept(x)' = Kept(x) /\ Told(x)' = Told(x)
             /\ CutFailed(x)' <=> CutFailed(x)
    BY <1>1, DataSame
<1>3. \A x : (Watched(x)' <=> Watched(x)) /\ (Whole(x)' <=> Whole(x))
    BY <1>1 DEF Watched, Whole, Plain
<1>4. stopped \subseteq stopped' /\ cancels' \subseteq cancels \cup stopped'
    BY <1>1
<1>5. FromInv' /\ CancelInv' /\ OrderInv'
    BY <1>1, <1>3, <1>4 DEF ViewInv, FromInv, CancelInv, OrderInv
<1>6. ASSUME NEW x \in Conversations, slot'[x] = slot[x] PROVE ConvView(x)'
    BY <1>1, <1>2, <1>3, <1>4, <1>6, ViewKeeps DEF ViewInv
<1>7. ASSUME slot' = [slot EXCEPT ![c].cancelPending = TRUE], stopped' = stopped \cup Latest(c) PROVE ConvView(c)'
    <2>1. slot'[c] = [slot[c] EXCEPT !.cancelPending = TRUE]
        BY <1>7, Typed
    <2>2. slot'[c] \in Slot
        BY <1>c, <2>1 DEF Slot
    <2>3. /\ slot'[c] # NoSlot /\ slot'[c].sending = slot[c].sending
          /\ slot'[c].messages = slot[c].messages /\ slot'[c].loaded = slot[c].loaded
        BY <1>c, <2>1, <2>2 DEF Slot
    <2>4. AskedAt(c)' /\ ToldAt(c)'
        BY <1>2, <1>3, <1>7 DEF ViewInv, ConvView, AskedAt, ToldAt
    <2>5. IdleAt(c)' /\ RowsAt(c)'
        BY <1>c, <1>1, <1>3, <1>4, <2>3 DEF ViewInv, ConvView, IdleAt, RowsAt, Hydrating, Sending
    <2>6. ViewAt(c)'
        BY <1>c, <1>1, <1>2, <1>3, <1>4, <2>3 DEF ViewInv, ConvView, ViewAt, Reloading
    <2>. QED  BY <2>4, <2>5, <2>6 DEF ConvView
<1>8. \A x \in Conversations \ {c} : slot'[x] = slot[x]
    BY <1>1, Typed
<1>. QED  BY <1>1, <1>5, <1>6, <1>7, <1>8 DEF ViewInv, UnusedInv

\* A call that returns for a run that is no longer wanted closes it.
LEMMA adoptRunView ==
    ASSUME NoSlot \notin Slot, TypeInv, IInv, ViewInv, NEW i \in Runs, adoptRun(i)
    PROVE  ViewInv'
<1>c. PICK c \in Conversations : c = send[i].conv
    BY Typed DEF OwnedInv, adoptRun
<1>. DEFINE s == slot[c]
            gone == c \in dropped \/ s = NoSlot
            to == IF ~gone /\ ~s.cancelPending THEN "adopted" ELSE "given up"
            more == IF to = "adopted" THEN {} ELSE {i}
            new == IF gone THEN s ELSE IF s.cancelPending
                   THEN [s EXCEPT !.cancelPending = FALSE, !.text = {}, !.runId = None,
                                  !.status = "cancelled", !.sending = FALSE]
                   ELSE [s EXCEPT !.runId = i]
<1>1. /\ UNCHANGED <<load, loadGen, dropped, orphans, overlapped, torn, taken, stopped, srv, erased, stored, events>>
      /\ send[i].stage = "calling" /\ srv[i] # "none" /\ Settle(i, to)
      /\ closed' = closed \cup more /\ cancels' = cancels \cup more
    BY <1>c DEF adoptRun
<1>2. slot'[c] = new /\ (gone => slot' = slot) /\ \A x \in Conversations \ {c} : slot'[x] = slot[x]
    BY <1>c, Typed DEF adoptRun
<1>3. to \in {"adopted", "given up"} /\ (to = "given up" <=> gone \/ s.cancelPending) /\ more = IF to = "adopted" THEN {} ELSE {i}
    OBVIOUS
<1>4. ~gone => /\ new \in Slot /\ new # NoSlot /\ new.messages = s.messages /\ new.loaded = s.loaded
               /\ (new.sending => s.sending) /\ (new.cancelPending => s.cancelPending)
    <2>1. ~gone => s \in Slot
        BY Typed
    <2>2. ~gone => new \in Slot
        BY <2>1 DEF Slot, None, Statuses
    <2>3. ~gone => /\ new.messages = s.messages /\ new.loaded = s.loaded
                   /\ (new.sending => s.sending) /\ (new.cancelPending => s.cancelPending)
        BY <2>1 DEF Slot
    <2>. HIDE DEF new
    <2>. QED  BY <2>2, <2>3
<1>5. gone => new = s
    OBVIOUS
<1>. HIDE DEF to, more, new
<1>6. \A j \in Runs : /\ send'[j].conv = send[j].conv /\ send'[j].kind = send[j].kind /\ send'[j].from = send[j].from
                      /\ send'[j].stage = IF j = i THEN to ELSE send[j].stage
                      /\ j # i => send'[j] = send[j]
    BY <1>1, Typed DEF Settle, SendOf
<1>7. \A x : /\ Latest(x)' = Latest(x) /\ Of(x)' = Of(x) /\ (Plain(x)' <=> Plain(x))
             /\ (Watched(x)' <=> Watched(x)) /\ (Whole(x)' <=> Whole(x))
    BY <1>1, <1>3, SettleFrame DEF Watched, Whole
<1>8. i \in Of(c) /\ send[i].stage \in Pending
    BY <1>c, <1>1 DEF Of, Pending
<1>9. Watched(c) => i \in Latest(c) /\ (Sending(c) <=> i \notin closed)
    BY <1>8 DEF IInv, PendingInv, PendingAt
<1>10. Watched(c) /\ i \in more => i \in stopped \/ i \in closed
    BY <1>3, <1>9 DEF ViewInv, ConvView, AskedAt, Watched, Sending
<1>11. FromInv' /\ CancelInv' /\ OrderInv'
    <2>1. \A j \in taken \cup cancels \cup more : j \in Runs /\ j \in cancels' \cup taken => j \in cancels \cup taken \/ j = i
        BY <1>1, <1>3, Typed
    <2>2. i \in more /\ Watched(c) => i \in stopped \/ srv[i] = "ended"
        BY <1>8, <1>10, ClosedOver DEF ViewInv
    <2>3. more \subseteq {i}
        BY <1>3
    <2>4. FromInv'
        BY <1>6 DEF ViewInv, FromInv
    <2>5. CancelInv'
        BY <1>c, <1>1, <1>6, <1>7, <2>2, <2>3, Typed DEF ViewInv, CancelInv
    <2>. QED  BY <1>1, <2>4, <2>5 DEF ViewInv, OrderInv
<1>12. ASSUME NEW x \in Conversations, x # c PROVE ConvView(x)'
    <2>1. \A j \in Of(x) : send'[j] = send[j] /\ (j \in closed' <=> j \in closed) /\ (AnswerComes(j)' <=> AnswerComes(j))
        BY <1>c, <1>1, <1>3, <1>6, <1>12 DEF Of, AnswerComes
    <2>2. /\ Latest(x)' = Latest(x) /\ Kept(x)' = Kept(x) /\ Told(x)' = Told(x)
          /\ CutFailed(x) => CutFailed(x)'
        BY <1>1, <1>7, <2>1, OtherSame
    <2>. QED  BY <1>1, <1>2, <1>7, <1>12, <2>2, ViewKeeps DEF ViewInv
<1>13. CASE ~Watched(c)
    BY <1>7, <1>11, <1>12, <1>13, <1>1 DEF ViewInv, UnusedInv, ConvView, AskedAt, ToldAt, IdleAt, RowsAt, ViewAt, Whole
<1>14. CASE Watched(c)
    <2>1. Waiting(c)' = Waiting(c) /\ Kept(c)' = Kept(c)
        <3>1. Waiting(c)' = Waiting(c)
            BY <1>1, <1>6, <1>7, LatestOf DEF Waiting
        <3>. QED  BY <1>1, <1>6, <3>1, LatestOf DEF Kept, Cut, Waiting
    <2>2. Told(c)' \subseteq Told(c) /\ Told(c) \subseteq Told(c)' \cup (more \ closed)
        BY <1>1, <1>7 DEF Told, AnswerComes
    <2>3. ~CutFailed(c)
        BY <1>8, <1>9, <1>14, LatestUnique DEF CutFailed, Pending
    <2>4. AskedAt(c)'
        BY <1>1, <1>2, <1>4, <1>5, <1>7 DEF ViewInv, ConvView, AskedAt
    <2>5. ToldAt(c)'
        BY <1>7, <2>1, <2>2 DEF ViewInv, ConvView, ToldAt
    <2>6. IdleAt(c)' /\ RowsAt(c)'
        BY <1>1, <1>2, <1>4, <1>5, <1>7 DEF ViewInv, ConvView, IdleAt, RowsAt, Hydrating, Sending
    <2>7. ViewAt(c)'
        <3>1. CASE gone
            BY <1>2, <1>5, <1>14, <3>1 DEF ViewAt, Watched
        <3>2. CASE ~gone
            <4>1. more \ closed \subseteq stopped
                BY <1>3, <1>10, <1>14
            <4>. QED  BY <1>1, <1>2, <1>4, <1>7, <2>1, <2>2, <2>3, <3>2, <4>1 DEF ViewInv, ConvView, ViewAt
        <3>. QED  BY <3>1, <3>2
    <2>8. ConvView(c)'
        BY <2>4, <2>5, <2>6, <2>7 DEF ConvView
    <2>. QED  BY <1>1, <1>11, <1>12, <2>8 DEF ViewInv, UnusedInv
<1>. QED  BY <1>13, <1>14

\* A send that fails before its run has started, or when its answer is lost.
LEMMA ThrowsView ==
    ASSUME NoSlot \notin Slot, TypeInv, IInv, ViewInv, NEW i \in Runs, NEW login \in BOOLEAN, Throws(i, login),
           send[i].stage \in Pending, UNCHANGED <<srv, taken, erased, stored, events>>,
           (srv[i] = "none" /\ orphans' = orphans) \/ orphans' = orphans \cup {i}
    PROVE  ViewInv'
<1>c. PICK c \in Conversations : c = send[i].conv
    BY Typed DEF OwnedInv, Pending
<1>. DEFINE s == slot[c]
            gone == c \in dropped \/ s = NoSlot
            back == login /\ send[i].kind # "regenerate"
            new == [s EXCEPT !.sending = FALSE, !.status = IF back THEN "idle" ELSE "error"]
            slots == [slot EXCEPT ![c] = new]
<1>1. /\ UNCHANGED <<dropped, closed, cancels, overlapped, stopped>>
      /\ Settle(i, "given up")
      /\ gone => UNCHANGED <<slot, loadGen, load, torn>>
      /\ ~gone => /\ torn' = IF back /\ send[i].kind = "edit" THEN torn \cup {c} ELSE torn
                  /\ IF send[i].kind = "send" \/ back
                     THEN slot' = slots /\ UNCHANGED <<loadGen, load>>
                     ELSE hydrateConversation(c, slots, loadGen, load)
    BY <1>c DEF Throws
<1>2. slot \in [Conversations -> Slot \cup {NoSlot}] /\ loadGen \in [Conversations -> Nat]
      /\ load \in [Loads -> LoadOf] /\ (~gone => s \in Slot)
    BY Typed DEF TypeInv, TypeOK
<1>3. ~gone => /\ new \in Slot /\ new # NoSlot /\ new.messages = s.messages /\ new.loaded = s.loaded
               /\ ~new.sending /\ new.status # "running" /\ new.cancelPending = s.cancelPending
    <2>1. ~gone => new \in Slot
        BY <1>2 DEF Slot, Statuses
    <2>2. ~gone => /\ new.messages = s.messages /\ new.loaded = s.loaded
                   /\ ~new.sending /\ new.status # "running" /\ new.cancelPending = s.cancelPending
        BY <1>2 DEF Slot
    <2>. HIDE DEF new
    <2>. QED  BY <2>1, <2>2
<1>. HIDE DEF new
<1>4. slots[c] = new /\ \A x \in Conversations \ {c} : slots[x] = slot[x]
    BY <1>2
<1>. HIDE DEF slots
<1>5. ~gone => /\ slot' = slots
               /\ \A x \in Conversations \ {c} : loadGen'[x] = loadGen[x]
               /\ \A n \in Loads : \/ load'[n] = load[n]
                                   \/ ~load[n].current /\ load'[n].conv = c /\ load'[n].stage = "asked"
               /\ \A n \in Loads : load'[n].stage = "unused" => ~load'[n].current
               /\ send[i].kind # "send" /\ ~back => Reloading(c)'
    <2>1. CASE ~gone /\ ~(send[i].kind = "send" \/ back)
        <3>1. hydrateConversation(c, slots, loadGen, load) /\ ~sessionBusy(slots[c])
            BY <1>1, <1>3, <1>4, <2>1 DEF sessionBusy
        <3>2. \A n \in Loads : load[n].stage = "unused" => ~load[n].current
            BY DEF ViewInv, UnusedInv
        <3>. HIDE DEF gone, back
        <3>. QED  BY <1>2, <3>1, <3>2, HydrateLoads
    <2>2. CASE ~gone /\ (send[i].kind = "send" \/ back)
        BY <1>1, <2>2 DEF ViewInv, UnusedInv
    <2>. QED  BY <2>1, <2>2
<1>6. \A j \in Runs : /\ send'[j].conv = send[j].conv /\ send'[j].kind = send[j].kind /\ send'[j].from = send[j].from
                      /\ send'[j].stage = IF j = i THEN "given up" ELSE send[j].stage
                      /\ j # i => send'[j] = send[j]
    BY <1>1, Typed DEF Settle, SendOf
<1>7. orphans \subseteq orphans' /\ torn \subseteq torn' /\ UnusedInv'
    BY <1>1, <1>5 DEF ViewInv, UnusedInv
<1>8. \A x : Latest(x)' = Latest(x) /\ Of(x)' = Of(x) /\ (Plain(x)' => Plain(x))
    BY <1>1, <1>7, SettleFrame
<1>9. \A x : (Watched(x)' => Watched(x)) /\ (Whole(x)' => Whole(x))
    BY <1>1, <1>7, <1>8 DEF Watched, Whole
<1>10. FromInv' /\ CancelInv' /\ OrderInv'
    <2>1. FromInv'
        BY <1>6 DEF ViewInv, FromInv
    <2>2. CancelInv'
        BY <1>1, <1>6, <1>9, Typed DEF ViewInv, CancelInv
    <2>. QED  BY <1>1, <2>1, <2>2 DEF ViewInv, OrderInv
<1>11. ASSUME NEW x \in Conversations, x # c PROVE ConvView(x)'
    <2>1. \A j \in Of(x) : send'[j] = send[j] /\ (AnswerComes(j)' <=> AnswerComes(j))
        BY <1>c, <1>1, <1>6, <1>11 DEF Of, AnswerComes
    <2>2. /\ Latest(x)' = Latest(x) /\ Kept(x)' = Kept(x) /\ Told(x)' = Told(x)
          /\ CutFailed(x) => CutFailed(x)'
        BY <1>1, <1>8, <2>1, OtherSame
    <2>3. /\ slot'[x] = slot[x] /\ loadGen'[x] = loadGen[x]
          /\ \A n \in Loads : load'[n].conv = x /\ load'[n].current => load'[n] = load[n]
          /\ \A n \in Loads : load[n].conv = x /\ load[n].current => load'[n] = load[n]
        BY <1>1, <1>4, <1>5, <1>11
    <2>. QED  BY <1>1, <1>9, <2>2, <2>3, ViewKeeps DEF ViewInv
<1>12. ASSUME Watched(c)' PROVE ConvView(c)'
    <2>1. srv[i] = "none" /\ orphans' = orphans /\ Watched(c)
        BY <1>c, <1>6, <1>9, <1>12 DEF Watched, Plain
    <2>2. i \in Waiting(c)
        BY <1>c, <2>1 DEF Waiting, Of
    <2>3. /\ Waiting(c) = {i} /\ i \in Latest(c) /\ Sending(c) /\ Told(c) = {} /\ ~CutFailed(c)
        BY <2>1, <2>2, OneWaits
    <2>4. ~gone
        BY <2>1, <2>3 DEF Watched, Sending
    <2>5. slot'[c] = new
        BY <1>4, <1>5, <2>4
    <2>6. Waiting(c)' = {} /\ Kept(c)' = stored[c] /\ Told(c)' = {}
        <3>1. Waiting(c)' = {}
            <4>1. ASSUME NEW j \in Waiting(c)' PROVE j \in Waiting(c) /\ j # i
                BY <1>1, <1>6, <1>8, <4>1, LatestOf DEF Waiting, Pending
            <4>. QED  BY <2>3, <4>1
        <3>2. Told(c)' = {}
            BY <1>1, <1>8, <2>3 DEF Told, AnswerComes
        <3>. QED  BY <3>1, <3>2 DEF Kept
    <2>7. AskedAt(c)' /\ ToldAt(c)'
        BY <1>1, <1>3, <1>8, <1>9, <2>3, <2>4, <2>5, <2>6 DEF ViewInv, ConvView, AskedAt, ToldAt, Sending
    <2>8. Whole(c) => ~Hydrating(c)
        BY <2>3 DEF ViewInv, ConvView, IdleAt
    <2>9. IdleAt(c)' /\ RowsAt(c)'
        <3>1. ~Sending(c)'
            BY <1>3, <2>4, <2>5 DEF Sending
        <3>2. Whole(c) => \A n \in Loads : load'[n].conv = c /\ load'[n].current => load'[n].stage # "read"
            BY <1>5, <2>4, <2>8 DEF Hydrating
        <3>. QED  BY <1>9, <3>1, <3>2 DEF IdleAt, RowsAt
    <2>10. ViewAt(c)'
        <3>1. ASSUME Whole(c)', slot'[c].loaded
              PROVE  /\ slot'[c].messages \subseteq stored[c]
                     /\ (CutFailed(c)' /\ Reloading(c)') \/ stored[c] \ slot'[c].messages \subseteq stopped
            <4>1. /\ s.messages \subseteq Kept(c) /\ Kept(c) \ s.messages \subseteq stopped
                  /\ slot'[c].messages = s.messages
                BY <1>3, <1>9, <2>3, <2>4, <2>5, <3>1 DEF ViewInv, ConvView, ViewAt
            <4>2. CASE send[i].kind = "send"
                <5>1. send[i].from = None
                    BY <4>2 DEF ViewInv, FromInv
                <5>2. Kept(c) = stored[c]
                    BY <2>3, <5>1 DEF Kept, Cut
                <5>. QED  BY <4>1, <5>2
            <4>3. CASE send[i].kind # "send"
                <5>1. ~back
                    <6>1. send[i].kind \in Kinds
                        BY Typed DEF SendOf
                    <6>. QED  BY <1>1, <2>4, <3>1, <4>3, <6>1 DEF Whole, Kinds
                <5>2. CutFailed(c)'
                    BY <1>6, <1>8, <2>1, <2>3, <4>3 DEF CutFailed
                <5>. QED  BY <1>5, <2>4, <4>1, <4>3, <5>1, <5>2, KeptStored
            <4>. QED  BY <4>2, <4>3
        <3>. QED  BY <1>1, <2>6, <3>1 DEF ViewAt
    <2>. QED  BY <2>7, <2>9, <2>10 DEF ConvView
<1>13. ASSUME ~Watched(c)' PROVE ConvView(c)'
    BY <1>13 DEF ConvView, AskedAt, ToldAt, IdleAt, RowsAt, ViewAt, Whole
<1>. QED  BY <1>7, <1>10, <1>11, <1>12, <1>13 DEF ViewInv

LEMMA FailsView ==
    ASSUME NoSlot \notin Slot, TypeInv, IInv, ViewInv, NEW i \in Runs, TokenFails(i) \/ CallFails(i)
    PROVE  ViewInv'
<1>1. CASE TokenFails(i)
    <2>1. PICK login \in BOOLEAN : Throws(i, login)
        BY <1>1 DEF TokenFails
    <2>2. send[i].stage \in Pending /\ srv[i] = "none" /\ orphans' = orphans
        BY <1>1 DEF TokenFails, Pending, IInv, FreshInv
    <2>3. UNCHANGED <<srv, taken, erased, stored, events>>
        BY <2>1 DEF Throws
    <2>. QED  BY <2>1, <2>2, <2>3, ThrowsView
<1>2. CASE CallFails(i)
    <2>1. Throws(i, FALSE) /\ send[i].stage \in Pending /\ UNCHANGED <<srv, taken, erased, stored, events>>
        BY <1>2 DEF CallFails, Pending, Throws
    <2>2. (srv[i] = "none" /\ orphans' = orphans) \/ orphans' = orphans \cup {i}
        BY <1>2 DEF CallFails
    <2>. QED  BY <2>1, <2>2, ThrowsView
<1>. QED  BY <1>1, <1>2

\* A send cuts the view as its run will cut the store.
LEMMA SendView ==
    ASSUME NoSlot \notin Slot, NoConv \notin Conversations, TypeInv, IInv, ViewInv,
           NEW i \in Runs, NEW kind \in Kinds, NEW from \in Runs \cup {None}, Send(i, kind, from)
    PROVE  ViewInv'
<1>c. PICK c \in Conversations : c = active
    BY Typed DEF Send
<1>. DEFINE s == sessionOf(c)
            run == {s.runId} \ {None}
            new == [s EXCEPT !.cancelPending = FALSE, !.runId = None, !.sending = TRUE,
                             !.status = "running", !.text = {}, !.messages = Cut(@, from)]
            made == [conv |-> c, kind |-> kind, from |-> from, stage |-> "token"]
<1>1. /\ UNCHANGED <<dropped, loadGen, load, orphans, cancels, taken, stopped, srv, erased, stored, events>>
      /\ ~s.sending /\ closed' = closed \cup run /\ (kind = "send" => from = None)
      /\ overlapped \subseteq overlapped' /\ overlapped' \subseteq overlapped \cup {i}
      /\ torn' = IF Hydrating(c) THEN torn \cup {c} ELSE torn
      /\ NextRun(i) /\ slot' = [slot EXCEPT ![c] = new] /\ send' = [send EXCEPT ![i] = made]
    BY <1>c DEF Send
<1>2. s \in Slot /\ (slot[c] # NoSlot => s = slot[c]) /\ (slot[c] = NoSlot => s.runId = None /\ ~s.loaded)
    <2>1. createSession \in Slot /\ createSession.runId = None /\ ~createSession.loaded
        BY DEF createSession, Slot, Statuses, Runs, None
    <2>. QED  BY <2>1, Typed DEF sessionOf
<1>3. /\ new \in Slot /\ new # NoSlot /\ ~new.cancelPending /\ new.loaded = s.loaded
      /\ new.messages = Cut(s.messages, from)
    <2>1. new \in Slot
        BY <1>2 DEF Slot, Statuses, None, Cut
    <2>2. ~new.cancelPending /\ new.loaded = s.loaded /\ new.messages = Cut(s.messages, from)
        BY <1>2 DEF Slot
    <2>. HIDE DEF new
    <2>. QED  BY <2>1, <2>2
<1>. HIDE DEF new
<1>4. slot'[c] = new /\ \A x \in Conversations \ {c} : slot'[x] = slot[x]
    BY <1>1, Typed
<1>5. /\ send'[i].conv = c /\ send'[i].kind = kind /\ send'[i].from = from /\ send'[i].stage = "token"
      /\ \A j \in Runs \ {i} : send'[j] = send[j]
    <2>1. /\ made.conv = c /\ made.kind = kind /\ made.from = from /\ made.stage = "token"
        OBVIOUS
    <2>. HIDE DEF made
    <2>. QED  BY <1>1, <2>1, Typed
<1>. HIDE DEF made, s
<1>6. /\ send[i].stage = "unsent" /\ send[i].conv = NoConv /\ srv[i] = "none"
      /\ i \notin stopped \cup closed \cup cancels \cup taken
      /\ \A j \in Runs : send[j].stage = "unsent" <=> j >= i
    BY <1>1, Typed DEF IInv, FreshInv, OwnedInv, NextRun, Runs
<1>7. Of(c)' = Of(c) \cup {i} /\ i \notin Of(c) /\ Latest(c)' = {i}
    <2>1. Of(c)' = Of(c) \cup {i} /\ i \notin Of(c)
        BY <1>5, <1>6 DEF Of
    <2>2. \A j \in Of(c) : j < i
        BY <1>6 DEF Of, Runs, IInv, FreshInv
    <2>. QED  BY <1>5, <2>1, <2>2 DEF Latest, Of, Runs
<1>8. \A x \in Conversations \ {c} : Of(x)' = Of(x)
    BY <1>5, <1>6 DEF Of
<1>9. \A x : x # NoConv => (Watched(x)' => Watched(x)) /\ (Whole(x)' => Whole(x))
    BY <1>1, <1>5, <1>6 DEF Watched, Whole, Plain
<1>10. \A j \in run : send[j].conv = c
    BY <1>2, Typed DEF IInv, RunInv, RunAt, Slot
<1>11. \A j : AnswerComes(j)' <=> AnswerComes(j)
    BY <1>1 DEF AnswerComes
<1>12. FromInv' /\ CancelInv' /\ OrderInv'
    <2>1. FromInv'
        BY <1>1, <1>5 DEF ViewInv, FromInv
    <2>2. CancelInv'
        <3>1. \A j \in taken \cup cancels : j \in Runs \ {i} /\ send[j].conv \in Conversations
            BY <1>6, Typed DEF IInv, FreshInv, OwnedInv
        <3>. QED  BY <1>1, <1>5, <1>9, <3>1 DEF ViewInv, CancelInv
    <2>. QED  BY <1>1, <2>1, <2>2 DEF ViewInv, OrderInv
<1>13. ASSUME NEW x \in Conversations, x # c PROVE ConvView(x)'
    <2>1. \A j \in Of(x) : send'[j] = send[j] /\ (j \in closed' <=> j \in closed)
        BY <1>1, <1>5, <1>6, <1>10, <1>13 DEF Of
    <2>2. /\ Latest(x)' = Latest(x) /\ Kept(x)' = Kept(x) /\ Told(x)' = Told(x)
          /\ CutFailed(x) => CutFailed(x)'
        BY <1>1, <1>8, <1>11, <1>13, <2>1, OtherSame
    <2>. QED  BY <1>1, <1>4, <1>9, <1>13, <2>2, ViewKeeps DEF ViewInv
<1>14. ~Sending(c)
    BY <1>1, <1>2 DEF Sending
<1>15. ASSUME Watched(c)' PROVE ConvView(c)'
    <2>1. Watched(c)
        BY <1>9, <1>15
    <2>2. /\ \A j \in Of(c) : srv[j] # "none" => j \in closed
          /\ Waiting(c) = {} /\ Told(c) = {} /\ Kept(c) = stored[c]
        BY <1>14, <2>1, Rested
    <2>3. Whole(c)' => Whole(c) /\ ~Hydrating(c)
        BY <1>1, <1>9 DEF Whole
    <2>4. Waiting(c)' = {i}
        <3>1. \A j \in Of(c) : send'[j].stage = send[j].stage
            BY <1>5, <1>7, LatestOf
        <3>. QED  BY <1>1, <1>5, <1>6, <1>7, <2>2, <3>1 DEF Waiting, Pending
    <2>5. Kept(c)' = Cut(stored[c], from)
        BY <1>1, <1>5, <2>4 DEF Kept, Cut
    <2>6. Told(c)' = {}
        <3>1. ~AnswerComes(i)
            BY <1>6, Typed DEF AnswerComes, OwnedInv
        <3>. QED  BY <1>1, <1>7, <1>11, <2>2, <3>1 DEF Told
    <2>7. AskedAt(c)' /\ ToldAt(c)'
        BY <1>3, <1>4, <2>6 DEF AskedAt, ToldAt
    <2>8. IdleAt(c)' /\ RowsAt(c)'
        BY <1>1, <2>3 DEF IdleAt, RowsAt, Hydrating
    <2>9. ViewAt(c)'
        <3>1. ASSUME Whole(c)', new.loaded
              PROVE  new.messages \subseteq Kept(c)' /\ Kept(c)' \ new.messages \subseteq stopped
            <4>1. slot[c] # NoSlot /\ s = slot[c] /\ s.loaded /\ Whole(c) /\ ~Reloading(c)
                BY <1>2, <1>3, <2>3, <3>1 DEF Reloading, Hydrating
            <4>2. s.messages \subseteq stored[c] /\ stored[c] \ s.messages \subseteq stopped
                BY <2>2, <4>1 DEF ViewInv, ConvView, ViewAt
            <4>. QED  BY <1>3, <2>5, <4>2 DEF Cut
        <3>. QED  BY <1>1, <1>4, <3>1 DEF ViewAt
    <2>. QED  BY <2>7, <2>8, <2>9 DEF ConvView
<1>16. ASSUME ~Watched(c)' PROVE ConvView(c)'
    BY <1>16 DEF ConvView, AskedAt, ToldAt, IdleAt, RowsAt, ViewAt, Whole
<1>. QED  BY <1>1, <1>12, <1>13, <1>15, <1>16 DEF ViewInv, UnusedInv

\* The event that is handled, and those that stay.
LEMMA HeadEvent ==
    ASSUME TypeInv, applyBridgeEvent
    PROVE  \E r \in Runs, t \in Terminal \cup {"running", "token", "message"}, c \in Conversations :
               /\ Head(events)[1] = r /\ Head(events)[2] = t /\ c = send[r].conv /\ srv[r] # "none"
               /\ 1 \in DOMAIN events /\ events[1] = <<r, t>>
               /\ \A n \in DOMAIN events' : n + 1 \in DOMAIN events /\ events'[n] = events[n + 1]
               /\ \A n \in DOMAIN events : n # 1 => n - 1 \in DOMAIN events' /\ events'[n - 1] = events[n]
<1>1. events \in Seq(Event) /\ events # <<>> /\ events' = Tail(events)
    BY Typed DEF applyBridgeEvent
<1>2. /\ \A n \in DOMAIN events' : n + 1 \in DOMAIN events /\ events'[n] = events[n + 1]
      /\ \A n \in DOMAIN events : n # 1 => n - 1 \in DOMAIN events' /\ events'[n - 1] = events[n]
      /\ 1 \in DOMAIN events /\ events[1] = Head(events) /\ Head(events) \in Event
    BY <1>1
<1>3. PICK r \in Runs, t \in Terminal \cup {"running", "token", "message"} : Head(events) = <<r, t>>
    BY <1>2 DEF Event
<1>4. Head(events)[1] = r /\ Head(events)[2] = t
    BY <1>3
<1>5. srv[r] # "none" /\ send[r].conv \in Conversations
    BY <1>2, <1>4, Typed DEF OwnedInv
<1>. HIDE DEF Event
<1>. QED  BY <1>2, <1>3, <1>4, <1>5

\* What an accepted event does to the answers that are shown.
LEMMA AppliedView ==
    ASSUME NoSlot \notin Slot, NEW s \in Slot, NEW r \in Runs, NEW t \in Terminal \cup {"running", "token", "message"}
    PROVE  /\ Applied(s, r, t) \in Slot /\ Applied(s, r, t) # NoSlot
           /\ Applied(s, r, t).loaded = s.loaded /\ Applied(s, r, t).cancelPending = s.cancelPending
           /\ Applied(s, r, t).messages = IF t = "message" THEN s.messages \cup {r} ELSE s.messages
           /\ Applied(s, r, t).sending => s.sending
           /\ t \in Terminal => ~Applied(s, r, t).sending
<1>1. Applied(s, r, t) \in Slot
    BY AppliedTypes
<1>2. /\ Applied(s, r, t).loaded = s.loaded /\ Applied(s, r, t).cancelPending = s.cancelPending
      /\ Applied(s, r, t).messages = IF t = "message" THEN s.messages \cup {r} ELSE s.messages
      /\ Applied(s, r, t).sending => s.sending
      /\ t \in Terminal => ~Applied(s, r, t).sending
    BY DEF Applied, Slot, Terminal
<1>. QED  BY <1>1, <1>2

\* An event that is heard shows its answer; one that is refused is of a run
\* that is closed, or that the user stopped.
LEMMA applyBridgeEventView ==
    ASSUME NoSlot \notin Slot, TypeInv, IInv, ViewInv, applyBridgeEvent
    PROVE  ViewInv'
<1>0. PICK r \in Runs, t \in Terminal \cup {"running", "token", "message"}, c \in Conversations :
               /\ Head(events)[1] = r /\ Head(events)[2] = t /\ c = send[r].conv /\ srv[r] # "none"
               /\ 1 \in DOMAIN events /\ events[1] = <<r, t>>
               /\ \A n \in DOMAIN events' : n + 1 \in DOMAIN events /\ events'[n] = events[n + 1]
               /\ \A n \in DOMAIN events : n # 1 => n - 1 \in DOMAIN events' /\ events'[n - 1] = events[n]
    BY HeadEvent
<1>. DEFINE s == slot[c]
            heard == c \notin dropped /\ s # NoSlot /\ acceptsRun(s, r)
            new == Applied(s, r, t)
<1>1. /\ UNCHANGED <<send, cancels, srv, taken, erased, stored, dropped, stopped, orphans, overlapped, torn>>
      /\ ~heard => UNCHANGED <<slot, closed, loadGen, load>>
      /\ heard /\ t \in Terminal => closed' = closed \cup {r} /\ settleSessionView(c, new)
      /\ heard /\ t \notin Terminal => UNCHANGED <<closed, loadGen, load>> /\ slot' = [slot EXCEPT ![c] = new]
    BY <1>0 DEF applyBridgeEvent
<1>2. /\ slot \in [Conversations -> Slot \cup {NoSlot}] /\ loadGen \in [Conversations -> Nat]
      /\ load \in [Loads -> LoadOf]
    BY DEF TypeInv, TypeOK
<1>3. heard => /\ s \in Slot /\ new \in Slot /\ new # NoSlot
               /\ new.loaded = s.loaded /\ new.cancelPending = s.cancelPending
               /\ new.messages = IF t = "message" THEN s.messages \cup {r} ELSE s.messages
               /\ new.sending => s.sending
               /\ t \in Terminal => ~new.sending
    <2>1. heard => s \in Slot
        BY <1>2
    <2>2. ASSUME s \in Slot
          PROVE  /\ new \in Slot /\ new # NoSlot
                 /\ new.loaded = s.loaded /\ new.cancelPending = s.cancelPending
                 /\ new.messages = IF t = "message" THEN s.messages \cup {r} ELSE s.messages
                 /\ new.sending => s.sending
                 /\ t \in Terminal => ~new.sending
        BY <2>2, AppliedView
    <2>. HIDE DEF heard, new
    <2>. QED  BY <2>1, <2>2
<1>. HIDE DEF new
<1>4. /\ \A x \in Conversations \ {c} : slot'[x] = slot[x] /\ loadGen'[x] = loadGen[x]
      /\ heard /\ t \notin Terminal => slot'[c] = new
      /\ heard /\ t \in Terminal => slot'[c] \in {new, NoSlot, Released(new)}
      /\ load' = load \/ (heard /\ t \in Terminal /\ load' = Detach(c, load))
    BY <1>1, <1>2 DEF settleSessionView, releaseIdleSession
<1>5. \A n \in Loads : \/ load'[n] = load[n]
                       \/ ~load'[n].current /\ load[n].conv = c /\ heard /\ t \in Terminal
    <2>1. \A l \in LoadOf : [l EXCEPT !.current = FALSE].current = FALSE
        BY DEF LoadOf
    <2>. HIDE DEF heard
    <2>2. CASE load' = load
        BY <2>2
    <2>3. CASE heard /\ t \in Terminal /\ load' = Detach(c, load)
        <3>1. \A n \in Loads : load'[n] = IF load[n].conv = c THEN [load[n] EXCEPT !.current = FALSE] ELSE load[n]
            BY <2>3 DEF Detach
        <3>. QED  BY <1>2, <2>1, <2>3, <3>1
    <2>. QED  BY <1>4, <2>2, <2>3
<1>6. \A x : /\ (Watched(x)' <=> Watched(x)) /\ (Whole(x)' <=> Whole(x)) /\ Of(x)' = Of(x)
             /\ Latest(x)' = Latest(x) /\ Waiting(x)' = Waiting(x) /\ Kept(x)' = Kept(x)
             /\ (CutFailed(x)' <=> CutFailed(x))
    <2>1. \A x : /\ (Watched(x)' <=> Watched(x)) /\ (Whole(x)' <=> Whole(x)) /\ Of(x)' = Of(x)
                 /\ Latest(x)' = Latest(x)
        BY <1>1 DEF Watched, Whole, Plain, Of, Latest
    <2>2. \A x : Waiting(x)' = Waiting(x) /\ (CutFailed(x)' <=> CutFailed(x))
        BY <1>1, <2>1 DEF Waiting, CutFailed
    <2>. QED  BY <1>1, <2>1, <2>2 DEF Kept
<1>7. /\ \A j : AnswerComes(j)' => AnswerComes(j)
      /\ \A j : AnswerComes(j) => AnswerComes(j)' \/ (j = r /\ t = "message")
    BY <1>0 DEF AnswerComes
<1>8. closed \subseteq closed' /\ closed' \subseteq closed \cup (IF heard /\ t \in Terminal THEN {r} ELSE {})
    BY <1>1
<1>9. FromInv' /\ CancelInv' /\ UnusedInv' /\ OrderInv'
    <2>1. FromInv' /\ CancelInv'
        BY <1>1, <1>6 DEF ViewInv, FromInv, CancelInv
    <2>2. UnusedInv'
        BY <1>5 DEF ViewInv, UnusedInv
    <2>3. ASSUME NEW m \in DOMAIN events', NEW n \in 1..(m - 1), events'[m][1] = events'[n][1],
                 events'[n][2] \in Terminal, events'[m][2] = "message"
          PROVE  events'[n][1] \in taken
        <3>1. events' = Tail(events) /\ events \in Seq(Event) /\ events # <<>>
            BY Typed DEF applyBridgeEvent
        <3>2. m \in Nat /\ n \in DOMAIN events' /\ n + 1 \in 1..((m + 1) - 1)
            <4>. HIDE DEF Event
            <4>. QED  BY <2>3, <3>1
        <3>. HIDE DEF Terminal
        <3>. QED  BY <1>0, <2>3, <3>2 DEF ViewInv, OrderInv
    <2>. QED  BY <1>1, <2>1, <2>2, <2>3 DEF OrderInv
<1>10. ASSUME NEW x \in Conversations, x # c PROVE ConvView(x)'
    <2>1. \A j \in Of(x) : j # r
        BY <1>0, <1>10 DEF Of
    <2>2. Told(x)' = Told(x)
        BY <1>6, <1>7, <1>8, <2>1 DEF Told
    <2>3. \A n \in Loads : load'[n].conv = x /\ load'[n].current => load'[n] = load[n]
        BY <1>5
    <2>4. \A n \in Loads : load[n].conv = x /\ load[n].current => load'[n] = load[n]
        BY <1>5, <1>10
    <2>. HIDE DEF heard
    <2>. QED  BY <1>1, <1>4, <1>6, <1>10, <2>2, <2>3, <2>4, ViewKeeps DEF ViewInv
<1>11. ASSUME Watched(c) PROVE ConvView(c)'
    <2>1. Told(c)' \subseteq Told(c) /\ r \in Of(c)
        BY <1>0, <1>6, <1>7, <1>8 DEF Told, Of
    <2>2. AskedAt(c) /\ ToldAt(c) /\ IdleAt(c) /\ RowsAt(c) /\ ViewAt(c)
        BY DEF ViewInv, ConvView
    <2>3. ToldAt(c)'
        BY <1>6, <2>1, <2>2 DEF ToldAt
    <2>4. RowsAt(c)'
        BY <1>1, <1>5, <1>6, <2>2 DEF RowsAt
    <2>5. slot[c] # NoSlot /\ r \notin closed =>
              r \in Latest(c) /\ Sending(c) /\ slot[c].runId \in {None, r}
        BY <1>0, <1>11, <2>1, HeardRun
    <2>6. CASE ~heard
        <3>1. slot[c] # NoSlot => Told(c) \subseteq Told(c)' \cup stopped
            <4>1. ASSUME slot[c] # NoSlot, r \notin closed PROVE r \in stopped
                <5>1. r \in Latest(c) /\ Sending(c) /\ slot[c].runId \in {None, r}
                    BY <2>5, <4>1
                <5>2. slot[c].cancelPending /\ slot[c].runId = None
                    BY <1>11, <2>6, <4>1, <5>1 DEF acceptsRun, Watched, Sending, sessionBusy
                <5>. QED  BY <1>11, <2>2, <4>1, <5>1, <5>2 DEF AskedAt
            <4>. QED  BY <1>1, <1>6, <1>7, <2>6, <4>1 DEF Told
        <3>2. AskedAt(c)' /\ IdleAt(c)'
            BY <1>1, <1>6, <2>2, <2>6 DEF AskedAt, IdleAt, Hydrating, Sending
        <3>3. ViewAt(c)'
            BY <1>1, <1>6, <2>2, <2>6, <3>1 DEF ViewAt, Reloading
        <3>. QED  BY <2>3, <2>4, <3>2, <3>3 DEF ConvView
    <2>7. CASE heard /\ t \notin Terminal
        <3>1. /\ slot'[c] = new /\ new # NoSlot /\ new.loaded = s.loaded /\ new.cancelPending = s.cancelPending
              /\ new.messages = IF t = "message" THEN s.messages \cup {r} ELSE s.messages
              /\ new.sending => s.sending
              /\ s # NoSlot /\ r \notin closed
            BY <1>3, <1>4, <2>7 DEF acceptsRun
        <3>2. UNCHANGED <<closed, load, loadGen, stopped>>
            BY <1>1, <2>7
        <3>3. Told(c) \subseteq Told(c)' \cup (new.messages \ s.messages) \cup s.messages
            BY <1>6, <1>7, <3>1, <3>2 DEF Told
        <3>4. Whole(c) /\ t = "message" => r \in Kept(c)
            <4>1. t = "message" => AnswerComes(r)
                BY <1>0 DEF AnswerComes
            <4>. QED  BY <2>1, <2>2, <3>1, <4>1 DEF ToldAt, Told
        <3>5. AskedAt(c)' /\ IdleAt(c)'
            BY <1>6, <2>2, <3>1, <3>2 DEF AskedAt, IdleAt, Hydrating, Sending
        <3>6. ViewAt(c)'
            <4>1. ASSUME Whole(c), s.loaded
                  PROVE  /\ new.messages \subseteq Kept(c)
                         /\ (CutFailed(c) /\ Reloading(c)) \/ Kept(c) \ new.messages \subseteq stopped \cup Told(c)'
                <5>1. /\ s.messages \subseteq Kept(c)
                      /\ (CutFailed(c) /\ Reloading(c)) \/ Kept(c) \ s.messages \subseteq stopped \cup Told(c)
                    BY <2>2, <3>1, <4>1 DEF ViewAt
                <5>2. s.messages \subseteq new.messages /\ new.messages \subseteq Kept(c)
                    BY <3>1, <3>4, <4>1, <5>1
                <5>. QED  BY <3>3, <5>1, <5>2
            <4>. HIDE DEF heard
            <4>. QED  BY <1>6, <3>1, <3>2, <4>1 DEF ViewAt, Reloading
        <3>. QED  BY <2>3, <2>4, <3>5, <3>6 DEF ConvView
    <2>8. CASE heard /\ t \in Terminal
        <3>1. /\ slot'[c] \in {new, NoSlot, Released(new)} /\ new \in Slot
              /\ new.loaded = s.loaded /\ new.cancelPending = s.cancelPending
              /\ new.messages = s.messages /\ ~new.sending
              /\ s # NoSlot /\ r \notin closed /\ closed' = closed \cup {r}
            BY <1>1, <1>3, <1>4, <2>8 DEF acceptsRun, Terminal
        <3>2. \/ slot'[c] = NoSlot
              \/ ~slot'[c].sending /\ slot'[c].cancelPending = s.cancelPending
                 /\ (slot'[c].loaded => slot'[c].messages = s.messages /\ s.loaded)
            <4>1. \/ Released(new) = NoSlot
                  \/ ~Released(new).loaded /\ ~Released(new).sending /\ Released(new).cancelPending = s.cancelPending
                BY <3>1 DEF Released, Slot
            <4>. QED  BY <3>1, <4>1
        <3>3. Told(c) \subseteq Told(c)' \cup stopped
            <4>1. ASSUME NEW m \in DOMAIN events, events[m] = <<r, "message">> PROVE r \in stopped
                <5>1. m # 1 /\ m \in Nat
                    <6>1. m # 1
                        BY <1>0, <2>8, <4>1 DEF Terminal
                    <6>2. events \in Seq(Event)
                        BY Typed
                    <6>. HIDE DEF Event
                    <6>. QED  BY <4>1, <6>1, <6>2
                <5>2. m \in Nat \ {0}
                    <6>2. events \in Seq(Event)
                        BY Typed
                    <6>. HIDE DEF Event
                    <6>. QED  BY <4>1, <6>2
                <5>3. 1 \in 1..(m - 1)
                    BY <5>1, <5>2
                <5>4. events[m][1] = r /\ events[m][2] = "message" /\ events[1][1] = r /\ events[1][2] = t
                    BY <1>0, <4>1
                <5>5. r \in taken
                    BY <2>8, <4>1, <5>3, <5>4 DEF ViewInv, OrderInv
                <5>. QED  BY <1>0, <1>11, <5>5 DEF ViewInv, CancelInv
            <4>2. AnswerComes(r) => r \in stopped
                BY <4>1 DEF AnswerComes
            <4>3. t # "message"
                BY <2>8 DEF Terminal
            <4>. QED  BY <1>6, <1>7, <3>1, <4>2, <4>3 DEF Told
        <3>4. Whole(c) => ~Reloading(c)
            BY <2>2, <2>5, <3>1 DEF IdleAt, Reloading, Hydrating
        <3>5. AskedAt(c)' /\ IdleAt(c)'
            BY <1>1, <1>6, <2>2, <3>1, <3>2 DEF AskedAt, IdleAt, Sending
        <3>6. ViewAt(c)'
            BY <1>1, <1>6, <2>2, <3>1, <3>2, <3>3, <3>4 DEF ViewAt
        <3>. QED  BY <2>3, <2>4, <3>5, <3>6 DEF ConvView
    <2>. QED  BY <2>6, <2>7, <2>8
<1>12. ASSUME ~Watched(c) PROVE ConvView(c)'
    BY <1>6, <1>12 DEF ConvView, AskedAt, ToldAt, IdleAt, RowsAt, ViewAt, Whole
<1>. QED  BY <1>9, <1>10, <1>11, <1>12 DEF ViewInv

\* No answer is told of after the end of its run.
LEMMA EmitOrder ==
    ASSUME TypeInv, OrderInv, NEW i \in Runs, NEW type, Emit(i, type), taken \subseteq taken',
           type = "message" =>
               \A n \in DOMAIN events : events[n][1] = i /\ events[n][2] \in Terminal => i \in taken
    PROVE  OrderInv'
<1>1. ASSUME NEW m \in DOMAIN events', NEW n \in 1..(m - 1), events'[m][1] = events'[n][1],
             events'[n][2] \in Terminal, events'[m][2] = "message"
      PROVE  events'[n][1] \in taken
    <2>0. events \in Seq(Event) /\ events' = Append(events, <<i, type>>)
        BY Typed DEF Emit
    <2>1. /\ m \in Nat /\ n \in DOMAIN events /\ events'[n] = events[n]
          /\ (m \in DOMAIN events /\ events'[m] = events[m]) \/ events'[m] = <<i, type>>
        <3>. HIDE DEF Event
        <3>. QED  BY <1>1, <2>0
    <2>2. CASE m \in DOMAIN events /\ events'[m] = events[m]
        BY <1>1, <2>1, <2>2 DEF OrderInv
    <2>3. CASE events'[m] = <<i, type>>
        BY <1>1, <2>1, <2>3
    <2>. QED  BY <2>1, <2>2, <2>3
<1>. QED  BY <1>1 DEF OrderInv

LEMMA EmitAnswers ==
    ASSUME TypeInv, NEW i \in Runs, NEW type, Emit(i, type)
    PROVE  \A j : AnswerComes(j)' <=> AnswerComes(j) \/ (j = i /\ type = "message")
<1>1. /\ \A n \in DOMAIN events : n \in DOMAIN events' /\ events'[n] = events[n]
      /\ \A n \in DOMAIN events' : (n \in DOMAIN events /\ events'[n] = events[n]) \/ events'[n] = <<i, type>>
      /\ \E n \in DOMAIN events' : events'[n] = <<i, type>>
    BY Typed, EmitEvents
<1>. QED  BY <1>1 DEF AnswerComes

\* A step of the platform that stores nothing.
LEMMA SilentView ==
    ASSUME TypeInv, ViewInv,
           UNCHANGED <<panel, load, send, stored, erased, history>>,
           \A j \in Runs : srv'[j] = "none" <=> srv[j] = "none",
           \A j : AnswerComes(j)' <=> AnswerComes(j)
    PROVE  FromInv' /\ UnusedInv' /\ \A x \in Conversations : ConvView(x)'
<1>1. UNCHANGED <<slot, closed, dropped, loadGen, load, send, stored, erased, stopped, orphans, overlapped, torn>>
    BY DEF panel, history
<1>2. FromInv' /\ UnusedInv'
    BY <1>1 DEF ViewInv, FromInv, UnusedInv
<1>3. ASSUME NEW x \in Conversations PROVE ConvView(x)'
    <2>1. Of(x)' = Of(x) /\ Of(x) \subseteq Runs
        BY <1>1 DEF Of
    <2>2. /\ Latest(x)' = Latest(x) /\ Kept(x)' = Kept(x) /\ Told(x)' = Told(x)
          /\ CutFailed(x) => CutFailed(x)'
        BY <1>1, <2>1, OtherSame
    <2>3. (Watched(x)' => Watched(x)) /\ (Whole(x)' => Whole(x))
        BY <1>1 DEF Watched, Whole, Plain
    <2>. QED  BY <1>1, <2>2, <2>3, ViewKeeps DEF ViewInv
<1>. QED  BY <1>2, <1>3

LEMMA RunSpeaksView ==
    ASSUME TypeInv, ViewInv, NEW i \in Runs, RunSpeaks(i)
    PROVE  ViewInv'
<1>1. /\ UNCHANGED <<panel, load, send, stored, erased, history, cancels, taken>>
      /\ srv[i] = "running" /\ srv' = [srv EXCEPT ![i] = "spoken"] /\ Emit(i, "token")
    BY DEF RunSpeaks, calls
<1>2. \A j \in Runs : (srv'[j] = "none" <=> srv[j] = "none") /\ (srv[j] = "ended" => srv'[j] = "ended")
    BY <1>1, Typed
<1>3. \A j : AnswerComes(j)' <=> AnswerComes(j)
    BY <1>1, EmitAnswers
<1>4. CancelInv'
    BY <1>1, <1>2, Typed DEF ViewInv, CancelInv, Watched, Plain, panel, history
<1>5. OrderInv'
    BY <1>1, EmitOrder DEF ViewInv
<1>. QED  BY <1>1, <1>2, <1>3, <1>4, <1>5, SilentView DEF ViewInv

LEMMA RunEndsView ==
    ASSUME TypeInv, ViewInv, NEW i \in Runs, RunEnds(i)
    PROVE  ViewInv'
<1>1. /\ UNCHANGED <<panel, load, send, stored, erased, history, cancels, taken>>
      /\ srv[i] \in Running /\ srv' = [srv EXCEPT ![i] = "ended"]
      /\ events' = events \/ \E type \in Terminal : Emit(i, type)
    BY DEF RunEnds, calls, Terminal
<1>2. \A j \in Runs : (srv'[j] = "none" <=> srv[j] = "none") /\ (srv[j] = "ended" => srv'[j] = "ended")
    BY <1>1, Typed DEF Running
<1>3. \A j : AnswerComes(j)' <=> AnswerComes(j)
    <2>1. ASSUME NEW type \in Terminal, Emit(i, type) PROVE \A j : AnswerComes(j)' <=> AnswerComes(j)
        BY <2>1, EmitAnswers DEF Terminal
    <2>. QED  BY <1>1, <2>1 DEF AnswerComes
<1>4. CancelInv'
    BY <1>1, <1>2, Typed DEF ViewInv, CancelInv, Watched, Plain, panel, history
<1>5. OrderInv'
    <2>1. ASSUME NEW type \in Terminal, Emit(i, type) PROVE OrderInv'
        BY <1>1, <2>1, EmitOrder DEF ViewInv, Terminal
    <2>. QED  BY <1>1, <2>1 DEF ViewInv, OrderInv
<1>. QED  BY <1>1, <1>2, <1>3, <1>4, <1>5, SilentView DEF ViewInv

LEMMA CancelArrivesView ==
    ASSUME TypeInv, ViewInv, NEW i \in Runs, CancelArrives(i)
    PROVE  ViewInv'
<1>1. /\ UNCHANGED <<panel, load, send, stored, erased, history, srv>>
      /\ i \in cancels /\ cancels' = cancels \ {i}
      /\ \/ srv[i] \in Running /\ taken' = taken \cup {i} /\ Emit(i, "cancelled")
         \/ taken' = taken /\ events' = events
    BY DEF CancelArrives
<1>2. \A j : AnswerComes(j)' <=> AnswerComes(j)
    BY <1>1, EmitAnswers DEF AnswerComes
<1>3. CancelInv'
    <2>1. srv[i] \in Running => srv[i] # "ended"
        BY DEF Running
    <2>. QED  BY <1>1, <2>1 DEF ViewInv, CancelInv, Watched, Plain, panel, history
<1>4. OrderInv'
    BY <1>1, EmitOrder DEF ViewInv, OrderInv
<1>. QED  BY <1>1, <1>2, <1>3, <1>4, SilentView DEF ViewInv

\* The run of a send cuts the store as the send has cut the view.
LEMMA RunStartsView ==
    ASSUME TypeInv, IInv, ViewInv, NEW i \in Runs, RunStarts(i)
    PROVE  ViewInv'
<1>c. PICK c \in Conversations : c = send[i].conv
    BY Typed DEF OwnedInv, RunStarts
<1>1. /\ UNCHANGED <<slot, closed, dropped, loadGen, load, send, cancels, taken, erased, stopped, orphans, overlapped, torn>>
      /\ send[i].stage = "calling" /\ srv[i] = "none" /\ srv' = [srv EXCEPT ![i] = "running"]
      /\ stored' = [stored EXCEPT ![c] = Cut(@, send[i].from)] /\ Emit(i, "running")
    BY <1>c DEF RunStarts, panel, calls, history
<1>2. /\ \A j \in Runs : (j # i => srv'[j] = srv[j]) /\ (srv[j] = "ended" => srv'[j] = "ended")
      /\ srv'[i] = "running"
    BY <1>1, Typed
<1>3. stored'[c] = Cut(stored[c], send[i].from) /\ \A x \in Conversations \ {c} : stored'[x] = stored[x]
    BY <1>1 DEF TypeInv, TypeOK
<1>4. \A j : AnswerComes(j)' <=> AnswerComes(j)
    BY <1>1, EmitAnswers
<1>5. \A x : /\ (Watched(x)' <=> Watched(x)) /\ (Whole(x)' <=> Whole(x)) /\ Of(x)' = Of(x)
             /\ Latest(x)' = Latest(x)
    BY <1>1 DEF Watched, Whole, Plain, Of, Latest
<1>6. FromInv' /\ CancelInv' /\ UnusedInv' /\ OrderInv'
    <2>1. OrderInv'
        BY <1>1, EmitOrder DEF ViewInv
    <2>. QED  BY <1>1, <1>2, <1>5, <2>1, Typed DEF ViewInv, FromInv, CancelInv, UnusedInv
<1>7. ASSUME NEW x \in Conversations, x # c PROVE ConvView(x)'
    <2>1. \A j \in Of(x) : j \in Runs /\ j # i
        BY <1>c, <1>7 DEF Of
    <2>2. /\ Latest(x)' = Latest(x) /\ Kept(x)' = Kept(x) /\ Told(x)' = Told(x)
          /\ CutFailed(x) => CutFailed(x)'
        BY <1>1, <1>2, <1>3, <1>4, <1>5, <1>7, <2>1, OtherSame
    <2>. QED  BY <1>1, <1>3, <1>5, <1>7, <2>2, ViewKeeps DEF ViewInv
<1>8. ASSUME Watched(c) PROVE ConvView(c)'
    <2>1. i \in Waiting(c)
        BY <1>c, <1>1 DEF Waiting, Of, Pending
    <2>2. Waiting(c) = {i} /\ Sending(c) /\ Told(c) = {} /\ ~CutFailed(c)
        BY <1>8, <2>1, OneWaits
    <2>3. AskedAt(c) /\ ToldAt(c) /\ IdleAt(c) /\ ViewAt(c)
        BY DEF ViewInv, ConvView
    <2>4. Waiting(c)' = {}
        BY <1>1, <1>2, <1>5, <2>2, LatestOf DEF Waiting
    <2>5. Kept(c)' = Kept(c)
        BY <1>3, <2>2, <2>4 DEF Kept, Cut
    <2>6. Told(c)' = {}
        BY <1>1, <1>4, <1>5, <2>2 DEF Told
    <2>7. AskedAt(c)' /\ ToldAt(c)' /\ IdleAt(c)'
        BY <1>1, <1>5, <2>3, <2>6 DEF AskedAt, ToldAt, IdleAt, Hydrating, Sending
    <2>8. RowsAt(c)'
        BY <1>1, <1>5, <2>2, <2>3 DEF RowsAt, IdleAt, Hydrating
    <2>9. ViewAt(c)'
        BY <1>1, <1>5, <2>2, <2>3, <2>5 DEF ViewAt
    <2>. QED  BY <2>7, <2>8, <2>9 DEF ConvView
<1>9. ASSUME ~Watched(c) PROVE ConvView(c)'
    BY <1>5, <1>9 DEF ConvView, AskedAt, ToldAt, IdleAt, RowsAt, ViewAt, Whole
<1>. QED  BY <1>6, <1>7, <1>8, <1>9 DEF ViewInv

\* An answer is stored and told of, unless nobody listens to its run any more.
LEMMA RunAnswersView ==
    ASSUME TypeInv, IInv, ViewInv, NEW i \in Runs, RunAnswers(i)
    PROVE  ViewInv'
<1>0. srv[i] \in Running /\ srv[i] # "none" /\ srv[i] # "ended"
    BY DEF RunAnswers, Running
<1>c. PICK c \in Conversations : c = send[i].conv
    BY <1>0, Typed DEF OwnedInv
<1>1. /\ UNCHANGED <<slot, closed, dropped, loadGen, load, send, cancels, taken, erased, stopped, orphans, overlapped, torn>>
      /\ srv' = [srv EXCEPT ![i] = "answered"]
      /\ stored' = [stored EXCEPT ![c] = @ \cup {i}] /\ Emit(i, "message")
    BY <1>c DEF RunAnswers, panel, calls, history
<1>2. /\ \A j \in Runs : srv'[j] = "none" <=> srv[j] = "none"
      /\ \A j \in Runs : srv[j] = "ended" => srv'[j] = "ended"
    BY <1>0, <1>1, Typed
<1>3. stored'[c] = stored[c] \cup {i} /\ \A x \in Conversations \ {c} : stored'[x] = stored[x]
    BY <1>1 DEF TypeInv, TypeOK
<1>4. \A j : AnswerComes(j)' <=> AnswerComes(j) \/ j = i
    BY <1>1, EmitAnswers
<1>5. \A x : /\ (Watched(x)' <=> Watched(x)) /\ (Whole(x)' <=> Whole(x)) /\ Of(x)' = Of(x)
             /\ Latest(x)' = Latest(x)
    BY <1>1 DEF Watched, Whole, Plain, Of, Latest
<1>6. FromInv' /\ CancelInv' /\ UnusedInv' /\ OrderInv'
    <2>1. \A n \in DOMAIN events : events[n][1] = i /\ events[n][2] \in Terminal => i \in taken
        BY <1>0 DEF IInv, EndInv
    <2>2. OrderInv'
        BY <1>1, <2>1, EmitOrder DEF ViewInv
    <2>. QED  BY <1>1, <1>2, <1>5, <2>2, Typed DEF ViewInv, FromInv, CancelInv, UnusedInv
<1>7. ASSUME NEW x \in Conversations, x # c PROVE ConvView(x)'
    <2>1. \A j \in Of(x) : j \in Runs /\ j # i
        BY <1>c, <1>7 DEF Of
    <2>2. /\ Latest(x)' = Latest(x) /\ Kept(x)' = Kept(x) /\ Told(x)' = Told(x)
          /\ CutFailed(x) => CutFailed(x)'
        BY <1>1, <1>2, <1>3, <1>4, <1>5, <1>7, <2>1, OtherSame
    <2>. QED  BY <1>1, <1>3, <1>5, <1>7, <2>2, ViewKeeps DEF ViewInv
<1>8. ASSUME Watched(c) PROVE ConvView(c)'
    <2>1. AskedAt(c) /\ ToldAt(c) /\ IdleAt(c) /\ RowsAt(c) /\ ViewAt(c)
        BY DEF ViewInv, ConvView
    <2>2. Waiting(c)' = Waiting(c) /\ (CutFailed(c)' <=> CutFailed(c)) /\ i \in Of(c)
        BY <1>c, <1>1, <1>2, <1>5, LatestOf DEF Waiting, CutFailed, Of
    <2>3. Kept(c) \subseteq Kept(c)' /\ Kept(c)' \subseteq Kept(c) \cup {i}
        BY <1>1, <1>3, <2>2 DEF Kept
    <2>4. Told(c) \subseteq Told(c)' /\ Told(c)' = IF i \in closed THEN Told(c) ELSE Told(c) \cup {i}
        BY <1>1, <1>4, <1>5, <2>2 DEF Told
    <2>5. i \in closed => i \in stopped
        BY <1>0, <1>8, <2>2, ClosedOver DEF ViewInv
    <2>6. i \notin closed => Sending(c) /\ i \in Kept(c)'
        <3>1. ASSUME i \notin closed PROVE Sending(c)
            BY <1>0, <1>8, <2>2, <3>1, Rested
        <3>2. ASSUME i \notin closed, NEW j \in Waiting(c) PROVE FALSE
            BY <1>0, <1>8, <2>2, <3>2, OneWaits
        <3>. QED  BY <1>3, <2>2, <3>1, <3>2 DEF Kept
    <2>7. AskedAt(c)' /\ IdleAt(c)'
        BY <1>1, <1>5, <2>1 DEF AskedAt, IdleAt, Hydrating, Sending
    <2>8. ToldAt(c)'
        BY <1>5, <2>1, <2>3, <2>4, <2>6 DEF ToldAt
    <2>9. RowsAt(c)'
        <3>1. CASE i \in closed
            BY <1>1, <1>3, <1>5, <2>1, <2>5, <3>1 DEF RowsAt
        <3>2. CASE i \notin closed
            BY <1>1, <1>5, <2>1, <2>6, <3>2 DEF RowsAt, IdleAt, Hydrating
        <3>. QED  BY <3>1, <3>2
    <2>10. ViewAt(c)'
        <3>1. Reloading(c)' <=> Reloading(c)
            BY <1>1 DEF Reloading
        <3>2. i \in stopped \cup Told(c)'
            BY <2>4, <2>5
        <3>. QED  BY <1>1, <1>5, <2>1, <2>2, <2>3, <2>4, <3>1, <3>2 DEF ViewAt
    <2>. QED  BY <2>7, <2>8, <2>9, <2>10 DEF ConvView
<1>9. ASSUME ~Watched(c) PROVE ConvView(c)'
    BY <1>5, <1>9 DEF ConvView, AskedAt, ToldAt, IdleAt, RowsAt, ViewAt, Whole
<1>. QED  BY <1>6, <1>7, <1>8, <1>9 DEF ViewInv

LEMMA ViewInit ==
    ASSUME Init
    PROVE  ViewInv
<1>1. /\ \A i \in Runs : send[i].conv = NoConv /\ send[i].kind = "send" /\ send[i].from = None /\ srv[i] = "none"
      /\ taken = {} /\ cancels = {} /\ DOMAIN events = {}
    BY DEF Init
<1>2. \A n \in Loads : ~load[n].current
    BY DEF Init, NoLoad
<1>3. FromInv /\ CancelInv /\ UnusedInv /\ OrderInv
    BY <1>1, <1>2 DEF FromInv, CancelInv, UnusedInv, OrderInv
<1>4. ASSUME NEW c \in Conversations PROVE ConvView(c)
    <2>1. slot[c] = NoSlot /\ Told(c) = {}
        BY <1>1 DEF Init, Told, AnswerComes
    <2>. QED  BY <1>2, <2>1 DEF ConvView, AskedAt, ToldAt, IdleAt, RowsAt, ViewAt, Hydrating
<1>. QED  BY <1>3, <1>4 DEF ViewInv

LEMMA ViewNext ==
    ASSUME NoSlot \notin Slot, NoConv \notin Conversations, TypeInv, IInv, ViewInv, [Next]_vars
    PROVE  ViewInv'
<1>1. CASE Next
    <2>1. ASSUME NEW c \in Conversations,
                 Open(c) \/ Remove(c) \/ StoreDeletes(c) \/ RemoveFails(c) \/ RemoveRefreshed(c)
          PROVE  ViewInv'
        BY <2>1, OpenActions
    <2>2. ASSUME NEW c \in Conversations, RemoveReturns(c) PROVE ViewInv'
        BY <2>2, RemoveReturnsView
    <2>3. ASSUME NEW n \in Loads, LoadReads(n) \/ LoadFails(n) \/ LoadReturns(n) PROVE ViewInv'
        BY <2>3, LoadReadsView, LoadFailsView, LoadReturnsView
    <2>4. ASSUME NEW i \in Runs, NEW kind \in Kinds, NEW from \in Runs \cup {None}, Send(i, kind, from)
          PROVE  ViewInv'
        BY <2>4, SendView
    <2>5. ASSUME NEW i \in Runs, TokenResolves(i) \/ TokenFails(i) \/ CallFails(i) \/ adoptRun(i) PROVE ViewInv'
        BY <2>5, TokenResolvesView, FailsView, adoptRunView
    <2>6. ASSUME NEW i \in Runs,
                 RunStarts(i) \/ RunSpeaks(i) \/ RunAnswers(i) \/ RunEnds(i) \/ CancelArrives(i)
          PROVE  ViewInv'
        BY <2>6, RunStartsView, RunSpeaksView, RunAnswersView, RunEndsView, CancelArrivesView
    <2>. QED  BY <1>1, <2>1, <2>2, <2>3, <2>4, <2>5, <2>6, StopView, applyBridgeEventView, NextCases
<1>2. CASE UNCHANGED vars
    <2>1. /\ UNCHANGED <<panel, load, send, stored, erased, history, srv, events, taken, cancels>>
          /\ UNCHANGED <<stopped, dropped, orphans, overlapped>>
        BY <1>2 DEF vars, panel, calls, platform, history
    <2>2. FromInv' /\ UnusedInv' /\ \A x \in Conversations : ConvView(x)'
        BY <2>1, SilentView DEF AnswerComes
    <2>3. CancelInv' /\ OrderInv'
        BY <2>1, RunPartKeeps DEF ViewInv
    <2>. QED  BY <2>2, <2>3 DEF ViewInv
<1>. QED  BY <1>1, <1>2

\* When nothing is under way, a conversation that has been loaded shows what
\* the store has, neither more nor less, but for answers of stopped runs; also
\* after edits, regenerations, and calls or reloads that failed (ai.ts send,
\* regenerate, hydrateConversation, applyBridgeEvent).
THEOREM PanelViewMatchesStore ==
    ASSUME NoSlot \notin Slot, NoConv \notin Conversations
    PROVE  Spec => []ViewMatchesStore
<1>1. ASSUME TypeInv, ViewInv PROVE ViewMatchesStore
    <2>1. ASSUME NEW c \in Conversations \ (dropped \cup erased \cup torn),
                 slot[c] # NoSlot, Plain(c), slot[c].loaded, Quiet(c)
          PROVE  slot[c].messages \subseteq stored[c] /\ stored[c] \ slot[c].messages \subseteq stopped
        <3>1. Whole(c)
            BY <2>1 DEF Whole, Watched
        <3>2. Waiting(c) = {}
            BY <2>1 DEF Quiet, Waiting, Pending, Of
        <3>3. Told(c) = {}
            <4>1. ASSUME NEW i \in Of(c), NEW n \in DOMAIN events, events[n] = <<i, "message">> PROVE FALSE
                <5>1. events[n][1] = i /\ send[i].conv = c
                    BY <4>1 DEF Of
                <5>2. send[events[n][1]].conv # c
                    BY <2>1 DEF Quiet
                <5>. QED  BY <5>1, <5>2
            <4>. QED  BY <4>1 DEF Told, AnswerComes
        <3>4. ~Reloading(c)
            BY <2>1 DEF Quiet, Hydrating, Reloading
        <3>5. Kept(c) = stored[c]
            BY <3>2 DEF Kept
        <3>. QED  BY <1>1, <2>1, <3>1, <3>3, <3>4, <3>5 DEF ViewInv, ConvView, ViewAt
    <2>. QED  BY <2>1 DEF ViewMatchesStore
<1>2. Init => TypeInv /\ IInv /\ ViewInv
    BY TypeInit, IInvInit, ViewInit
<1>3. TypeInv /\ IInv /\ ViewInv /\ [Next]_vars => (TypeInv /\ IInv /\ ViewInv)'
    BY TypeNext, IInvNext, ViewNext
<1>. QED  BY <1>1, <1>2, <1>3, PTL DEF Spec

=============================================================================
