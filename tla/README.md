# A TLA+ verification of niuma

niuma is a desktop tool for operating databases, servers and file transfers,
with an AI assistant that can use the same connections. This directory holds
TLA+ modules of its concurrent core, TLC instances that check them, and proofs
for TLAPS. Paths below are relative to the repository's root (`src/` here).

## 1. The system

    Web UI (Vue, in CEF) --cefQuery--> C++ shell --framed JSON over a pipe--> platform-core (Go)
    platform-core --framed JSON over a pipe, one per service--> capability services (Go, Rust, C++)
    capability services --events--> platform-core --events, streams--> C++ shell --> Web UI

`platform/` supervises the services, forwards calls to them, stores
conversations and settings in SQLite and runs the AI agent loop. `services/*`
hold the sessions with databases, SSH and FTP servers. `packages/go/serviceipc`
is the IPC library both sides use. `shell/` is the window, the bridge of the
browser to the platform. `web/` is mostly presentation; two of its stores keep
state that must agree with the other side of the bridge, and those are modelled.

| Component | State | Operations | Interacts with | What is hard | What makes it correct |
|---|---|---|---|---|---|
| `platform/internal/supervisor` | registry of child processes, environment fingerprints of the last spawn, restart timers and delays, `shuttingDown` | `Ensure`/`ensureOne` (single flight per service), `watchChild`, `scheduleRestart`, `Shutdown` | RPC handlers call `Ensure`; lost and ready events go to the event hub | races of start, crash, restart timer and Shutdown; processes of an earlier session on the same pipe | one server per service; nothing started after, or left by, Shutdown; crashes are answered; Ensure returns |
| `platform/internal/ai/loop`, `ai/tool/gate.go` | run registry, confirmation waiters, trusted tools per run and conversation, invocation rows | the agent loop, confirm/reject, `Cancel` | the model, the UI's confirmations, the services that execute tools, the store | Cancel against every step of a run; a decision that meets its waiter leaving | nothing dangerous runs without permission; every invocation is closed; a cancelled run ends |
| `platform/internal/store/ai_conversation.go` | messages and invocations of a conversation, ordered by a text timestamp | append, list, regenerate, edit | the agent loop | two timestamp formats, deletion by timestamp | order is that of writing; regenerate keeps the prompt |
| `platform/internal/eventhub`, `streamserver`, `services/*/internal/eventpub` | bounded queues per service, shell connection and stream; latest progress | emit, ingest, fan out, coalesce, stream delivery | every service; the shell | slow and dying readers, overlapping flushes | states in order and without a gap; streams without a hole; no reader blocks the rest for ever |
| `packages/go/serviceipc` (client, pool, server) | idle connections | `Invoke`, pool `get`/`put` | every call between the parts | a service dies under pooled connections; retries | a request is executed at most once, an answer is its own |
| `services/ftp-service/internal/transfer` | tasks, queue and runner per session | enqueue, pause, resume, cancel, retry, `StopSession` | event publisher, FTP connections | pause and cancel against the runner; a session closed under a dispatch | a cancelled task stays so; a task runs once |
| `services/*/internal/session` (SQL; eight near-copies) | running statements by request id, open cursors, a pool of connections, the connection pinned while auto-commit is off | execute, fetch, close, cancel, switch auto-commit, commit, close the session | IPC handlers, one goroutine each; goroutines that evict | ids used again; several ends of one cursor; a full table; a busy transaction connection | what lives can be cancelled; what is taken is given back |
| `platform/internal/idgen` (copied by every service) | last millisecond, sequence | `NextID` | every store | wrap of the sequence, clock going back, restarts | unique, increasing |
| `platform/internal/ai/mcp` | pending calls of a stdio client | `call`, read loop, close | MCP servers | server ends under calls; late replies | each call gets its own answer or an error |
| `platform/internal/appupdate`, `components` | part files, cancel functions, installed tools | download, cancel, install | the UI | two downloads of one package | a verified package is what was downloaded |
| `shell/src/ipc`, `shell/src/bridge` | connection pool, stream reader threads | invoke, open and close streams, shutdown | platform, browser | threads against shutdown | no call lost, no thread left |
| `web/src/stores/session-registry.ts`, `modules/connection` | leases of physical sessions, borrowing tabs, idle timers, opens under way | `acquire`, `release`, `forceReconnect`, `disconnect`, `markSessionLost` | tabs and their views, the capability services, lost events | two tabs at once; closing during an open; timers; slow release hooks; a service that restarts | every session belongs to a lease, every lease to an open tab or a timer; an unused connection is closed |
| `web/src/stores/ai.ts` | one slot per conversation on screen or busy, ended runs, dropped conversations, hydrations | `send`, `regenerate`, `stop`, `openConversation`, `removeConversation`, events of a run | the chat service by calls and by events, which are not ordered with each other | events before the answer that names the run; stop before the run is known; stale hydrations | the composer is never locked for nothing; one run per view; the view is what the store has; what is stopped ends |
| `platform/internal/migrate`, `store`, `handler`, skills, drivers, `sqllsp`, the rest of `web` | rows, files, views | sequential calls | | little of it is concurrent | (see section 7) |

## 2. Modules

| Module | Models | Instances | Proofs |
|---|---|---|---|
| `Supervisor` | `platform/internal/supervisor` | `MCSupervisor` | `SupervisorProofs` |
| `AgentRun` | `platform/internal/ai/loop`, `ai/tool/gate.go`, the invocation rows of the store, `ai/host/sql.go` | `MCAgentRun`, `MCRegistries` | `AgentRunProofs` |
| `Conversation` | messages of `platform/internal/store/ai_conversation.go` as `ai/loop/chat.go` uses them | itself, `MCConversation` | `StoreProofs` |
| `AiPanel` | `web/src/stores/ai.ts`, with the platform as it appears to it | `MCConversation` | `AiPanelProofs` |
| `SessionRegistry` | `web/src/stores/session-registry.ts`, `web/src/modules/connection`, with the services and the event loop | `MCSessionRegistry`, `MCRegistries` | `SessionRegistryProofs` |
| `EventBus` | `services/*/internal/eventpub`, `platform/internal/eventhub`, `platform/internal/streamserver` | `MCEventBus`, `MCService` | `EventBusProofs` |
| `SqlSession` | `services/mysql-service/internal/session` and the handlers of `query.*`, `tx.*`, `session.close` | `MCService` | `SqlSessionProofs` |
| `Snowflake` | `platform/internal/idgen` | `MCService` | `StoreProofs` |
| `AtMostOnce` | what a call over the IPC promises | | |
| `IpcClient` | `packages/go/serviceipc/client` and `server`, shown to implement `AtMostOnce` | itself | `IpcClientProofs` |

### Supervisor

One `pc` per goroutine (RPC handlers: `Clients`; goroutines of
`scheduleRestart`: `Timers`; `watchChild` of a process: `watch[p]`), one action
per stretch between two points where another goroutine can run: an unlocked
lock, a call of the operating system, a wait. `ensureOne` is the actions `One`
to `WaitPipe`, `ensureGroup.Do` is `Join` and `Finish` with `flight[s]` the
leader of a service's flight. A process is `unborn`, `starting`, `listening` or
`dead`; `killed[p]` is that somebody has told it to exit. `Legacy` processes are
left from an earlier session, listen already and may survive their eviction, as
the code allows for. Manifests and executable lookup are inputs; a start may
fail (`StartMayFail`).

### AgentRun

One `rpc` per run's goroutine, one `cpc` per Cancel handler, one entry per tool
invocation in `row` (its status in the store), `waiters`, `chan`, `sending` (the gate), `exec` (the
service that executes it). The model's answer is any choice of a tool or the
end; the user confirms or rejects at any time, in every scope of
`DecideWithScope`. Every statement of the store may fail, with the consequence the code
gives it: the loop goes on (`Insert`, `Mark`, `SetRow`), a `tool.result` is not published
(`SetRowIfOpen`), Cancel gives up the rest of its list (`CancelUpdate`, one row per step).
Four history variables guard no action: `granted`, the permissions the user has given, with their
run or conversation, which says what a correct gate may rely on; `decision`, what was decided about
an invocation; `live`, queries that began before their run was cancelled; `missed`, the
invocations that one of the three failures named in section 6 has left open or unannounced.

### Conversation

Messages are records with the time they were written (`at`) and the stamp they
carry. `Z` and `FractionRank` give RFC3339 and RFC3339Nano texts their order
under SQLite's comparison: `.5Z` sorts before `Z`. One handler at a time: the
run registry does not allow two runs to write one conversation in a way that
changes the order of two rows of one run.

### AiPanel

An action is what runs between two awaits. `slot[c]` is an entry of `sessions`, or
`NoSlot` when there is none; `send[i]` is the `i`-th send, edit or regeneration
and where it awaits (the access token, the call); run `i` is the run the platform
starts for it, so that ids need no other bookkeeping. `load[n]` is one
`hydrateConversation`: what it has read, and whether the slot it was asked for is
still the one in use. `removing[c]` keeps `removingActive`, which the code reads
before its await. The platform is `srv` (a run's progress), `stored` (answers in
the store) and `events` (one ordered stream); answers to calls return at any time
relative to it. `CallFails` also stands for an answer that is lost after the run
started. Of the messages the answers are kept; tool cards are not.

Four history variables name the situations in which the code does not keep its
promises (section 6), so that the properties can be exact everywhere else:
`overlapped` (a send while the call of another is unanswered), `orphans` (a call
that failed though its run goes on), `torn` (a send while a hydration is under
way, so that the guard of `ai.ts:584` is not exercised, an edit refused for want of a login, or a view that was cut for an edit that failed and whose
reload failed too), and `stopped`, what the user asked
to end. `Plain(c)` says that none of the first two happened to a conversation.
The limit of 64 remembered runs, failures of `cancelChat` (swallowed) and the
creation of a conversation by a first send are left out.

### SessionRegistry

JavaScript runs one callback at a time and empties the microtask queue before the
next. `pc[o]` is where an operation awaits, `micro` the queue, `Resume` the code
after an await; every other action is a callback and needs an empty queue. A lease
object is named by its session and by the tab whose `acquire` made it, because
the code deletes from the table by key while it holds objects: an object that
left the table may still be referenced. `inflight[k]` are the tabs that await
one `session.open`; they resume in order. Release hooks that only touch the page
settle at once; those that stop a stream wait for a bridge call (`slow`). Closed
tabs keep their view (keep-alive), so `job` operations of theirs go on. One
profile is modelled: the code relates two profiles nowhere. A disconnect awaits
the hooks of a lease's tabs once, not one tab after the other.
Three history variables name where the code breaks its promises (section 6): `stray` (closed tabs
whose view connects), `overtaken` (sessions opened at a new service before the lost event of the old
one is handled) and `raced` (a session was opened for a key `disconnect` had yet to come to).

`MCSessionRegistry` has a kind per policy. MongoDB's change streams make its
hooks slow; Redis counts as quick, as its hook waits only while a monitor runs.

### EventBus

A service's queue with its pipe is `inbox[s]`; its ingest goroutine is
`ipc[s]`; a shell connection has a queue `out[k]` and receives (`seen`) what
its writer takes from it; a stream likewise. The frame a writer is sending
counts as still in its queue. `latest` and `timer` are the coalescer,
`Flushers` the goroutines of its timer, which may overlap. One terminal (kind
`data`) and one task (`state`, `progress`) per service are enough, as the code
keeps nothing that relates two of them.

### SqlSession

`spc[s]` is where the goroutine of a `query.exec` is in `queryExec` and
`OpenPagedQuery`; `task[h]` where a goroutine of another call is. A cursor has the
name of its statement, so `conn[s]` is the connection of either, `ownDb` says that a pool was
opened for it (another database than the session's), and `sessionOwned` that its
connection is the pinned one. Closing is spread over steps, as the locks are: a
goroutine takes cursors out of the table (`hold`), finishes one after the other, cancels
statements it has taken out of the registry (`entries`) and clears ids
(`clear`); meanwhile anybody may use the id again. `late` is history: the statements under
way when `Close` took the last cursors out (`CancelAll`). A statement that is `refused` before it
is registered keeps what it has, as in the code. `putResultSet` starts a goroutine for the
cursor it evicts, which has the statement's name as well. `pinned` are
connections taken from the pool by `ensureAutoCommitOff`; two of these calls at once can
lose one, as in the code.

`autoCommit` starts FALSE (Go's zero value): `IsAutoCommit` asks for a pinned connection too. A
COMMIT or ROLLBACK is the closing of all cursors, as nothing else of it is kept
here. `releaseTxConnLocked` waits for rows being read while it holds the
session's lock; the wait is modelled (`NoRowsOn`), its keeping others out is not.
`inTx` and `txDatabase` are left out: they spare a ROLLBACK or a USE, which may fail in
the model in any case. So are statements without a session.

### Snowflake

`clock` is the wall clock, which `SetClock` moves to any value, forwards or back. A call
of `NextID` is one step, as it holds the mutex, except when the numbers of a millisecond
run out: it then spins, holding the mutex (`spinning`). `Restart` forgets
`lastMilli`. `ids` is the history of what was issued. The code cannot know the ids of
the process before it: `overtaken` says that a new process has found the clock at or
before the last of them, the one case `IdsIncrease` leaves out. Shifts are products, as the
parts of an id do not overlap.

### IpcClient and AtMostOnce

`pc[r]` is where the goroutine of a call is in `Client.roundTrip`; a connection
is the client's end (`link`), the frames on their way (`inq`, `outq`) and the
goroutine of the service (`hpc`, `handleConn`). `Crash` ends the service's process
at any point, with every connection; frames it had written may still be read or
be lost. `Get` takes the connection used last, or finds that one too old and so,
as ages in the pool rise, closes them all. The context is looked at only while
dialling, as in the code. Envelopes are abstracted to the request they belong to: the client
does not compare ids, so which frame it takes for its answer is what
`KeepsPromise` is about. `IpcClient` implements `AtMostOnce` with
`status <- Status, answer <- got` and `runs` as it is.

## 3. Runs

| Run | Question | Bounds |
|---|---|---|
| `sup_safety` | no service twice, nothing after or left by Shutdown | 1 service, 2 processes of which one may be of an earlier session, 1 handler, 1 restart timer, 2 environments, starts may fail |
| `sup_liveness` | Ensure returns, crashes are answered, Shutdown ends | 1 service, 2 processes, 1 handler, 2 timers, so that a service crashes again while its restart is pending or running; the delay doubles once; fair |
| `agent_safety` | nothing dangerous runs without permission, decisions never block, nothing is left open, running queries are stopped | 2 runs of 1 conversation, 2 invocations, 2 dangerous tools of which one is a query, at most one Cancel; any write of the store fails, those that lose an invocation while one run is there (`MissedAlone`) |
| `conversation_safety` | store: rows of different seconds keep their order; a cut keeps what is of an earlier second. Panel: never stuck, one run shown, the view is what the store has, what is stopped ends | store: 2 seconds of 4 instants, 3 messages. Panel: 2 conversations, 2 sends, 2 hydrations at once, seven budgets of user actions and failures |
| `event_safety` | events: streams have no hole, states arrive in order without a gap. Database session: what lives can be cancelled, what is taken is given back. Ids: unique and increasing | events: 1 service, 2 streams, 1 shell connection, queues of 1, 3 events. Session: 2 statements of one id, 1 handler that serves call after call, evictors, 2 connections, room for 1 cursor. Ids: 2 numbers per millisecond, 4 milliseconds, 5 ids |
| `event_liveness` | every living connection receives every state; the service's queue drains | 1 service, 2 shell connections, queues of 1, 2 events, fair |
| `registries` | sessions: leases and sessions agree, idle leases are timed, only open tabs borrow, a tab's own session is registered to it, a deserted connection is closed. Runs: a cancelled run ends | sessions: 2 tabs, 4 kinds (one of each policy), 3 sessions, 2 of: disconnects, reconnects, failures, deaths. Runs: 1 run, 2 invocations of a dangerous tool, of which the second may be trusted; failing writes leave at most one open or unannounced (`MissedOnce`). Fair |
| `ipc_calls` | at most once, the right answer, no connection leaked or shared, every call returns | 3 calls, 3 connections, a pool of 1, fair |

The bounds keep each race possible: a handler against a timer, the watcher of a
process and Shutdown; queues of one, so that full and empty both happen at
once; two processes, so that one can replace another; more events than all
queues hold; more calls than the pool keeps. The properties relate at most two such
actors at a time. Two tabs are what one open shared by two needs. Three sessions are what
a race of `disconnect` needs: one whose close it awaits, one that a tab replaces meanwhile,
and the new one. Two sends are what a late event of an older run
needs. A budget of the panel's run names the user's actions of one kind of
behaviour (send twice and stop; fail twice; switch while hydrating; delete while sending); all
of them at once would multiply, not add, cases. `conversation_safety` holds the
two instances side by side: they share no state, and `part` says whose turn a
behaviour is; `event_safety` does the same with three parts of a service, where two
statements of one id and room for one cursor make every reuse of the id and every eviction
possible, and two numbers per millisecond make them run out; `registries` does it with the sessions of the
web shell and the agent's runs. The theorems of section 5 drop the bounds altogether. `event_liveness`
has one flusher; that two overtake each other is in section 6.

The other four runs (`expect: violation`) each check one sentence of a comment or a
document that the code does not keep; section 6 lists them.

`CHECK_DEADLOCK FALSE` stands where the modelled part may stop: a run has ended
and Cancel was used up, all events are emitted, the session is closed, the last instant has passed, all calls have returned,
the budget of the user is spent and everything answered.
The supervisor never stops: callers come back for ever.

## 4. Fairness

Goroutines are scheduled by Go's runtime, so the next step of one that is not
blocked is weakly fair: `Join`, `EnsureOne`, `Respawn`, `WatchChild`,
`ShutdownKill`, `ShutdownEnd` in `Supervisor`; the loop, `Cancel` and the sender of a
decision in `AgentRun`; the ingest goroutines, flushers and writers in `EventBus`. A process
told to exit exits (`terminateProcess` kills it after a grace period). A service that
executes a tool, or any other request, answers (`Begin`, `Finish`; `HandleFrame` of
`IpcClient`): this is an assumption about the services, the IPC client has no
deadline of its own once a request is written. Both ends of an IPC connection
are goroutines (`Step`, `HandleConn`); nothing is assumed of `Crash` and `Restart`.
A shell connection reads or breaks (`Write` or
`WriteFails`): the code sets no deadline, so this is an assumption about the
shell, and the hazard list says so. The user, the model's choices, crashes,
callers, new connections and closing of streams get no fairness.

In `SessionRegistry` the event loop runs on (`Resume`, `ProfileLoaded`), every
bridge call is answered, with success or not (`OpenReturns`/`OpenFails`,
`CloseReturns`, `HooksDone`), timers expire and lost events are handled. Users,
services and servers owe nothing.

`sup_liveness` allows a crash only while a `Timers` identity is left for its
restart (`CrashesWithinBounds`); the code starts as many goroutines as it needs. There are two, so a
crash may come while the restart of the one before is waiting or under way, and only a third
waits until one of them is done.

## 5. What is proved

`SupervisorProofs` proves, for any finite or infinite sets of services,
processes, handlers, timers and environments, from `ConstantsAssumption` alone
(and `AnyService`, that there is a service to serve):

- `TypeCorrect`: `TypeOK` is an invariant; delays stay between 0 and the longest.
- `Invariance`: `IInv` is an invariant. It is what `SingleServer` lacks to be
  inductive: the leader of a flight is alone inside `ensureOne` (`LeaderInv`);
  what it has read of the registry is still so, or the registry entry was
  forgotten (`CmdInv`); a registered process belongs to its service
  (`OwnerInv`); a process of this session that runs and was not told to exit is
  in the registry or in Shutdown's list (`RegisteredInv`); after Shutdown
  began the registry is empty and stays so (`DownInv`).
- `ServedOnce`: two running processes of one service are both registered, so
  they are one; or in Shutdown's list, which holds at most one per service.
- `NoOrphan`: when Shutdown has returned its list is empty, and the registry
  is, so no process of the session is left that was not told to exit.
- `NoLateSpawn`: only `Start` spawns, and it reads `shuttingDown` in the step
  that spawns.

`IpcClientProofs` proves, for any sets of requests and connections and any limit
of the pool, from `IpcAssumption`:

- `TypeCorrect`: `TypeOK` is an invariant, so the pool never exceeds its limit.
- `Invariance`: `IInv` is an invariant. `OwnerInv` says who owns a connection:
  the pool (once), one call, or nobody when it is closed. `QuietInv` says that
  nothing is on its way over a connection that no call reads from; without it a
  pooled connection could answer the next call with the previous answer.
  `CallInv` follows the one frame of a call that reads (`InFlight`): in the
  service's buffer and not executed, in the handler, in the client's buffer and
  executed once, or lost with the connection. `LinkInv` relates the two ends.
- `ConnsOwnedAlways`: from `OwnerInv`.
- `KeepsPromiseAlways`: `IpcClient` implements `AtMostOnce`. `HandleFrame` is `Execute` of the
  request of the call that reads from the connection (there is one, by `QuietInv`, and it was
  never executed, by `InFlight`); `ReadAnswer` is `Answer`, as the frame is the
  call's own; the error returns are `Fail`; every other step is invisible.

`AgentRunProofs` proves, for any sets of runs, conversations, invocations and
tools, from `AgentAssumption`:

- `TypeCorrect`: `TypeOK` is an invariant.
- `Invariance`: `IInv` is an invariant. `FreshInv`: an invocation is untouched until
  its run waits for it, and a run that has one was launched, so its conversation
  no longer changes. `TrustInv`: the gate remembers nothing but what was
  granted. `GateInv`: a waiter's run is at the wait and nobody has answered it; an answer on its
  way finds its channel empty; a "yes" is always the user's. `AllowedInv`: what
  executes, or has passed the gate, is allowed. `OnlyAllowedToolsRun` is the last part alone, which
  is not inductive: it needs to know where every "yes" comes from.
- `OnlyAllowed` and `DecisionsFindRoom` (`SendNeverBlocks`) follow from it.
- `TableInvariance`: but for `missed` invocations, only the one a run works on may have an open row,
  and a closed row was answered or is in the list (`out`) of the Cancel that closed it; whatever
  else fails. `NothingLeft` (`NothingLeftOpen`) follows: what a failing store leaves behind stems
  from one of the three failures of section 6.
- `QueryInvariance`: a query is registered with its run's callbacks from before
  it is sent until Cancel fires them, which is after the context was cancelled.
  `QueriesAreStopped` (`CancelReachesQuery`) follows.

No bound on Cancels is assumed in them, as it is in `agent_safety`.

`StoreProofs` proves of `Conversation`, for any resolution of the clock, any length of the
conversation and any instant, from `ConversationAssumption`:

- `StoreTypes`: `StoreTypeOK` is an invariant.
- `StoreSecondsInOrder`: every row's stamp is `Stamp` of its second and of a
  fraction below `Base * Base` (`StampInv`); `FractionBounds` keeps the rank of
  a fraction below the weight of a second, so the text of an earlier second is
  smaller, in whichever format (`SecondsCompare`).
- `StoreCutRespectsSeconds`: the deletion compares with the target's stamp, so the same
  lemma decides which rows stay; the strengthening is that the target of a cut
  has a stamp of its own second.

`AiPanelProofs` proves, for any sets of conversations and hydrations, any number
of sends and any budgets, given that `NoSlot` and `NoConv` are no slot and no
conversation:

- `PanelTypes`: `TypeOK` is an invariant.
- `PanelInvariant`: `IInv` is an invariant. `FreshInv` says what cannot be before a send
  or after its end; `EndInv` that a terminal event on its way belongs to a run
  that ended or was cancelled; `ClosedInv` that a run in `closedRunIds` is over,
  superseded or being cancelled; `RunInv`, `PendingInv` and `AdoptedInv` that the only run a
  conversation listens to is that of its last send, the older ones being closed;
  `GivenUpInv` that a send that was given up has no run to wait for; `BusyInv` and `ComingInv` that the end of a run that is listened to is still coming;
  `TextInv` and `StopInv` follow the streamed text and a stop (kept until the run is known,
  then sent).
- `PanelNeverStuck`, `PanelShowsOneRun`, `PanelStopsRuns` follow. None is inductive: each
  depends on which events can still arrive for which run.
- `PanelViewMatchesStore` (`ViewMatchesStore`) compares two copies that are never equal while
  something is under way, so its invariant `ViewInv` says by how much they may differ: the view of
  a loaded conversation is what the store will have once the run of a send in flight has cut it
  (`Kept`), less the answers whose events are on their way (`Told`) and those of stopped runs;
  or an edit that failed has cut it and a reload that will be shown is under way (`ViewAt`). The
  rest keeps that so: only one send at a time is in flight, and nothing else is heard meanwhile (`OneWaits`); an answer
  that is told of is in the store and no send in flight will cut it (`ToldAt`); what a hydration
  has read is the store as it is (`RowsAt`), because nothing is sent meanwhile (`IdleAt`); an event
  that is refused or comes after the end of its run is of a run that was stopped (`AskedAt`,
  `OrderInv`, `CancelInv`). The argument failed for a case that the runs did not reach while
  they allowed one failure: when an edit fails and the reload after it fails too, nothing
  restores the view. `torn` has it since, with a budget of two failures (section 6).

`EventBusProofs` proves, for any sets of services, connections, streams and flushers and
any capacities, from `EventBusAssumption`:

- `TypeCorrect`: `TypeOK` is an invariant, so every queue keeps its bound.
- `StatesInOrder` (`StatesWithoutGap`) and `StreamInOrder` (`StreamWithoutGap`),
  where the kind of event is among those emitted. Neither says anything of the
  queues, so both need an invariant that does. `Chain(q, s, d, a, b)` says that the events of kind `d`
  of service `s` in `q` are numbered `a + 1` to `b`; lemmas say what appending and
  taking the head do to a chain. `Taken` says that a service's own queue continues the
  event its ingest goroutine has in hand. `StateFlow` says that the queue of a living
  connection continues what it has seen and ends at that event, or just before it when the
  goroutine still has to come to that connection (`WaitsForState`); `DataFlow` says the same
  of a stream. `PlaceInv` says whom a goroutine may still serve at each place, and
  `NewInv` that a receiver that has not come has received nothing.

`SqlSessionProofs` proves, for any finite set of statements and any sets of ids,
handlers and connections, from `SqlAssumption`:

- `SqlTypesCorrect`: `SqlTypeOK` is an invariant; the table of cursors keeps its limit
  because an eviction and the insertion are one step (`PutFits`).
- `Cancellable` (`StatementsCancellable`): needs that a statement has no
  connection before it acquires one and after it gave it back (`ConnInv`), as a
  live cursor is one that has a connection.
- `HoldersKept` (`HoldersAreKept`): every transfer of a cursor, from its call to
  the table, from the table to a goroutine, must not lose what that goroutine had before
  (`FetchInv`, `EvictInv`); a statement that leaves has nothing (`ConnInv`,
  `UnregInv`); the claim on the pinned connection has a holder (`BusyInv`); once `Close` has emptied
  the table, what still runs was counted then (`LateInv`). The code's two leaks (section 6) are exceptions
  by name (`"refused"`, `LeftBehind`), so the theorem says that there is no third.

`StoreProofs` proves of `Snowflake`, for any numbers of sequence numbers and workers, from
`SnowflakeAssumption`, `IdsAlwaysIncrease` (`IdsIncrease`): the generator remembers the
millisecond of the last id or, after a restart, the clock is past it (`ClockInv`); no id
is above the last number used in that millisecond (`BelowInv`). `LaterIsGreater` says
that an id of a later millisecond is greater whatever the sequence.

`SessionRegistryProofs` proves, for any kinds with their policies, any finite set of tabs, any
assignment of databases and any number of sessions and of troubles, from `SessionAssumption`:

- `SessionTypes`: `SessionTypeOK` is an invariant.
- `RegistryInvariant`: `IInv` is an invariant. `TypeInv` says where each kind of operation may
  await, that leases, borrowers and waiters are filed under their key, and that what has settled
  is in the microtask queue, once. `PhaseInv` is what makes the rest possible: the queue is emptied
  before the next callback, so that everything in it stems from one (a signal to
  reconnect, an open, a tab closed, a lost event, the end of a close), and the code after an await
  meets only operations of its own sort. `FreshInv`: nobody refers to a lease that is
  yet to be made. `ClaimInv`: a session belongs to one key, whoever refers to it. `TimerInv`,
  `TabInv`, `OwnInv`: timers, closed tabs, tabs with a session of their own. `EndedInv`: what
  is known of sessions. Where hooks do not wait (`QuickInv`): a release under way
  finds its lease in the table (`HeldInv`); while an open is under way its key is empty, and those
  it wakes find only each other's leases (`OpenInv`); leases that `markSessionLost` has to
  drop are in the table and their sessions gone (`LostInv`); a session of the table lives, or its
  end is known (`AliveInv`); a tab that was closed is being released
  (`ReleasedInv`). Without the race of `session_reconnect`: leases `disconnect` has to
  visit, and leases with a timer, are in the table (`DisconnectInv`, `TimedInv`), and a session that
  lives is in the table, is being closed or was just opened (`FoundInv`).
- `TimersMatch` (`UnusedIffTimed`), for every policy and slow hooks too.
- `TablesAgree` (`TableMatchesService`): `FoundInv` and `AliveInv` when nothing is under way.
- `BorrowersOpen` (`BorrowersAreOpen`): `ReleasedInv` and `TabInv`.
- `OwnersRegistered` (`OwnerIsRegistered`): the session a tab shows is in the table (`FoundInv`),
  under the tab's own key (`ClaimInv`), and the tab borrows what is there (`OwnInv`).
- `ClosesRegistered`: `ClosesUnlessRaced`, an action property, holds; it is
  `ClosesWhatIsRegistered` without the race.

Only model-checked: liveness (`EnsureReturns`, `CrashIsAnswered`,
`ShutdownTerminates`, `CancelEndsRun`, `StatesArrive`, `InboxDrains`, `CallsReturn`,
`DesertedIsClosed`), which needs fairness and ENABLED.

## 6. Where documents and code disagree

Each of the first four is a run that TLC ends with a counterexample, and an entry of `findings`
in `PROJECT.json` that quotes the sentence.

- `agent_overwrite`: a cancelled invocation is put back to running.
- `conversation_prompt`: regenerating deletes the prompt when it shares a
  second with the answer.
- `session_borrowers`: two tabs that connect over one shared key at once each make
  a lease, the second replaces the first, and the first tab uses a session it is
  not registered for (`session-registry.ts:421` against line 28).
- `session_reconnect`: a tab reconnects while `disconnect` awaits the close of another
  lease; the loop then comes to that tab's old lease, and `finalizeClose`, which only looks
  whether the key is in the table, deletes the new lease and closes the old session again
  (`session-registry.ts:333` against line 327). The new session is then in no table: the view
  shows it, nothing will close it. It was found when `TableMatchesService` did not become
  inductive: the invariant needs that a lease `disconnect` still has to visit is in the table, or
  its key is empty, and an open breaks that. `TableMatchesService` and
  `OwnerIsRegistered` therefore speak of behaviours without the race (`raced`), and
  `ClosesRegistered` (section 5) proves that no other step closes what is not registered.

Seen while modelling, without a run of their own:

- Ensure returns for a service that runs with another environment than the
  caller's, when it joins a flight (`supervisor.go:153` against 139).
- An older progress may be received last, when two flushes overlap
  (`coalesce.go:81` against `docs/12-ftp-module.md`, line 265).
- Ensure may return before the service listens: its fast path is content with a
  registered process that is alive (`supervisor.go:149` against `supervisor.go:133`).
- A crash that `ensureOne` notices before `watchChild` is not retried when the
  start that follows fails (`supervisor.go:228` against `docs/11`, line 170).
- The lost event can be published after the replacement serves
  (`supervisor.go:337` against `events.go:14`).
- Cancel announces rows its UPDATE did not change (`ai_conversation.go:423` against 374),
  and reports success for a run that has ended (`agent_loop.go:157` against `chat.go:413`).
- `query.cancel` can overtake `query.exec` (`host/sql.go:298` against 296); and its own error is ignored
  (242), so `CancelReachesQuery` says that it is sent, and that the query stops if it succeeds.
- Errors of the store are ignored where the loop writes an invocation (`agent_loop.go:300`, 329, 354,
  403, 428; `chat.go:431`). Three leave something behind (`missed`): a failed insertion has no row; a
  failed last update leaves the row open, and no `tool.result` is published as nothing was written; a
  `CancelOpenInvocations` that fails at a later row reports none of those it has closed.
- Messages of one second are listed out of order (`ai_conversation.go:185` against 159).
- A stream whose queue is full is closed with events in it that were counted as
  delivered (`streamserver/server.go:119` against `event/progress.go:6`).

- Sessions (`session-registry.ts`): the reconnect signal and an open that was under
  way make a closed tab, whose view is kept, a borrower that nobody releases
  (`stray` in `BorrowersAreOpen`); `forceReconnect` of a shared lease only
  leaves and rejoins it (474 against `docs/21-session-registry.md`, line 352: a new `sessionId`); a release
  that waits for a slow hook while the lease is disconnected puts the closed
  lease back into the table (446); a lost event that names all sessions also drops a
  lease of the service's successor (`overtaken` in `TableMatchesService`).
- Ids (`idgen.go`): "globally increasing" (line 6) ends when the clock is set back while the process is
  down (70); when it is set back while a call spins (76), every caller waits
  behind its mutex until the clock has caught up, where other calls would be refused.
- SQL sessions (`mysql-service/internal/session`; `HoldersAreKept` names the first two, the others
  contradict no property above): a statement that `OpenPagedQuery` refuses before it registers it (an empty text, or no pool
  any more) never closes the pool opened for it (`resultset.go:85` to 94; neither does
  `query.go:60`); a statement under way when its session is closed puts its cursor into the closed
  session, where no call finds it, so that its connection and its own pool stay open
  (`resultset.go:257` against `session.go:114`: Close ends the cursors and the statements under
  way); the registry of such a session is of no use either, as `query.cancel` does not find it, so
  `StatementsCancellable` is worth something only while the session is open;
  switching auto-commit off in a session that has just been closed
  dereferences nil (`tx.go:131` after `session.go:123`), and no handler recovers, so the process ends
  (the model has an error there); a COMMIT can clear `inTx` after a later statement has set it, so switching
  auto-commit on then commits that statement (`tx.go:171` and 101 against 66: 'rollback
  first'); `tx.go:74` reads `txBusy`, unlocks and goes on, so a statement may take the pinned
  connection that is being given back; two calls that switch auto-commit off at once lose a
  connection (142); a statement with a pool of its own that finds auto-commit off when it
  acquires runs on the pinned connection without USE (`resultset.go:144`); eight open
  cursors keep all eight connections, so the statement that would evict one waits (`connect.go:253`);
  `clearInflight` of an ended or evicted cursor cancels whoever uses its id by then
  (`resultset.go:387`, without the comparison of 112); `query.cancel` of an id closes its cursor first, which waits for a page that is being
  fetched (`session.go:81`); a `QueryContext` that fails is executed once more (`resultset.go:181`).
- The panel (`ai.ts`): a second send after the end of a run was heard but before its call
  was answered lets that answer name an ended run, and the composer stays locked (706, 756);
  a call that fails though its run goes on lets that run talk into the next answer (770);
  a hydration overtaken by a complete run overwrites its answer (588); an edit or a regeneration that fails
  and whose reload (788, 869) fails too leaves the view cut, and counted as loaded (594); a first send while
  the history is loading drops the history (584); an edit refused for want of a
  login leaves the view cut (777); the deleted conversation is left, or its
  successor, by what was active before the answer (653).

## 7. What is not modelled, and why

- Sequential code over rows and files: `migrate`, most of `store`, `handler`'s
  argument checking, skills, `components`. Unit tests reach it.
- Drivers and dialects of the database services, import and export, `sqllsp`:
  data, not control.
- The rest of `web`, CEF windows and packaging: presentation. By lines most of this
  repository is Vue and TypeScript: panes, editors and tree views per database product, near-duplicates
  of one another, whose state is what the last reply said. The models of
  `web` cover the two stores that own protocol state; the larger
  part of the modelled behaviour is in Go, where the concurrency is.
- Timeouts are nondeterministic choices; time itself appears only in `Conversation`.
- The planned modules of section 8.

## 8. Plan

In order:

1. `Supervisor`, `AgentRun`, `Conversation`, `EventBus`, `AtMostOnce`, `IpcClient`, `AiPanel`,
   `SessionRegistry`, `SqlSession`, `Snowflake` (done); `SupervisorProofs`, `IpcClientProofs`, `AgentRunProofs`,
   `StoreProofs`, `AiPanelProofs`, `EventBusProofs`, `SqlSessionProofs`, `SessionRegistryProofs` (done).
2. `FtpTransfer`: tasks, pause, resume, cancel and StopSession.
3. `McpStdio`, `AppUpdate`, `ShellStreams` (the C++ stream readers).
4. `System`: Supervisor's promise composed with the IPC client: a call is
   executed at most once by the process that serves it.

Runs are kept few: one per question, with small components sharing an instance.
