----------------------------- MODULE Supervisor -----------------------------
(***************************************************************************)
(* The process supervisor of platform-core                                 *)
(* (platform/internal/supervisor).  It starts capability services lazily,  *)
(* restarts them when they crash or when the environment they were started *)
(* with has changed, and kills all of them when the platform exits.        *)
(*                                                                         *)
(* Actors: the callers of Ensure (RPC handlers, `Clients', and the         *)
(* goroutines behind restart timers, `Timers'), one watchChild goroutine   *)
(* per started process, the goroutine that runs Shutdown, and the          *)
(* operating system, which lets processes listen and exit.  One action is  *)
(* one critical section of Supervisor.mu or one call on a process.         *)
(***************************************************************************)
EXTENDS Integers, FiniteSets

CONSTANTS
    Services,       \* ids of the manifests
    Fingerprints,   \* values of the EnvProvider fingerprint
    Procs,          \* process identities (one *exec.Cmd each)
    Owner,          \* the service whose executable a process runs
    Legacy,         \* processes left behind by an earlier platform session
    Clients,        \* goroutines that call Ensure for an RPC
    Timers,         \* goroutines started by scheduleRestart
    MaxDelay,       \* the longest restart delay in seconds (30 in the code)
    StartMayFail,   \* whether resolving or starting an executable may fail
    NoProc, NoCaller, NoTimer, NoFP

Callers == Clients \cup Timers

ASSUME ConstantsAssumption ==
    /\ Services # {}
    /\ Owner \in [Procs -> Services]
    /\ Legacy \subseteq Procs
    /\ Clients \cap Timers = {}
    /\ MaxDelay \in Nat /\ MaxDelay >= 1
    /\ StartMayFail \in BOOLEAN
    /\ NoProc \notin Procs
    /\ NoCaller \notin Callers
    /\ NoTimer \notin Timers
    /\ NoFP \notin Fingerprints

VARIABLES
    shuttingDown,   \* Supervisor.shuttingDown (and Supervisor.stop closed)
    spawned,        \* Supervisor.spawned
    spawnFP,        \* Supervisor.spawnEnvFingerprint
    restartDelay,   \* Supervisor.restartDelay, in seconds; 0 is "absent"
    restartTimer,   \* Supervisor.restartCancel: the goroutine it cancels
    flight,         \* Supervisor.ensureGroup: the leader of the flight
    pc, svc, fp, cmd,     \* per caller: where it is, and its locals
    pstate, killed,       \* per process: what the operating system knows
    watch, wDelay,        \* per process: its watchChild goroutine
    down, toKill          \* the goroutine that runs Shutdown

registry == <<shuttingDown, spawned, spawnFP, restartDelay, restartTimer>>
callers  == <<flight, pc, svc, fp, cmd>>
procs    == <<pstate, killed>>
watchers == <<watch, wDelay>>
shutdown == <<down, toKill>>
vars == <<registry, callers, procs, watchers, shutdown>>

-----------------------------------------------------------------------------
(* Backoff: 1 s, doubled up to MaxDelay, reset after a stable minute.      *)

MinDelay == 1

\* Mutant: the cap is forgotten.
UncappedRestartDelay(prev, stable) ==
    IF stable \/ prev = 0 THEN MinDelay ELSE prev * 2

NextRestartDelay(prev, stable) ==
    IF stable \/ prev = 0 THEN MinDelay
    ELSE IF prev * 2 > MaxDelay THEN MaxDelay ELSE prev * 2

-----------------------------------------------------------------------------
AnyService == CHOOSE s \in Services : TRUE

(* Callers run through Ensure (join, wait) and, as leader of a flight,     *)
(* through ensureOne.  Timers also have the states of scheduleRestart's    *)
(* goroutine.                                                              *)

LeaderPCs == {"one", "probe", "holder", "evict", "evicted", "lookup",
              "inspect", "replace", "start", "pipe"}
CallPCs   == {"idle", "join", "wait", "ok", "err"} \cup LeaderPCs
TimerPCs  == {"armed", "cancelled", "fired", "ensure", "resched"}
WatchPCs  == {"none", "wait", "emitTracked", "emitUntracked", "setDelay",
              "schedule", "done"}

TypeOK ==
    /\ shuttingDown \in BOOLEAN
    /\ spawned \in [Services -> Procs \cup {NoProc}]
    /\ spawnFP \in [Services -> Fingerprints \cup {NoFP}]
    /\ restartDelay \in [Services -> 0..MaxDelay]
    /\ restartTimer \in [Services -> Timers \cup {NoTimer}]
    /\ flight \in [Services -> Callers \cup {NoCaller}]
    /\ pc \in [Callers -> CallPCs \cup TimerPCs]
    /\ svc \in [Callers -> Services]
    /\ fp \in [Callers -> Fingerprints \cup {NoFP}]
    /\ cmd \in [Callers -> Procs \cup {NoProc}]
    /\ pstate \in [Procs -> {"unborn", "starting", "listening", "dead"}]
    /\ killed \in [Procs -> BOOLEAN]
    /\ watch \in [Procs -> WatchPCs]
    /\ wDelay \in [Procs -> 0..MaxDelay]
    /\ down \in {"up", "kill", "done"}
    /\ toKill \subseteq Procs

Init ==
    /\ shuttingDown = FALSE
    /\ spawned = [s \in Services |-> NoProc]
    /\ spawnFP = [s \in Services |-> NoFP]
    /\ restartDelay = [s \in Services |-> 0]
    /\ restartTimer = [s \in Services |-> NoTimer]
    /\ flight = [s \in Services |-> NoCaller]
    /\ pc = [c \in Callers |-> "idle"]
    /\ svc = [c \in Callers |-> AnyService]
    /\ fp = [c \in Callers |-> NoFP]
    /\ cmd = [c \in Callers |-> NoProc]
    /\ pstate = [p \in Procs |-> IF p \in Legacy THEN "listening" ELSE "unborn"]
    /\ killed = [p \in Procs |-> FALSE]
    /\ watch = [p \in Procs |-> "none"]
    /\ wDelay = [p \in Procs |-> 0]
    /\ down = "up"
    /\ toKill = {}

Alive(p) == pstate[p] \in {"starting", "listening"}

\* isPipeListening: some process serves the service's pipe.
PipeListening(s) == \E p \in Procs : Owner[p] = s /\ pstate[p] = "listening"

\* A child of this session whose watchChild goroutine was started.
Ours(p) == watch[p] # "none"

\* isTrackedReady: looks at the registry and the process, not at the pipe.
TrackedReady(s, f) ==
    /\ ~shuttingDown
    /\ spawned[s] # NoProc
    /\ Alive(spawned[s])
    /\ spawnFP[s] = f

\* The identity of a process nobody refers to any more can be used again.
Reusable(p) ==
    /\ pstate[p] \in {"unborn", "dead"}
    /\ watch[p] \in {"none", "done"}
    /\ p \notin toKill
    /\ \A c \in Callers : cmd[c] # p
    /\ \A s \in Services : spawned[s] # p

-----------------------------------------------------------------------------
(* Ensure.                                                                 *)

Goto(c, l) == pc' = [pc EXCEPT ![c] = l]

\* The first half of Ensure: resolve the fingerprint, try the hot path.
EnterEnsure(c, s, f) ==
    /\ svc' = [svc EXCEPT ![c] = s]
    /\ fp' = [fp EXCEPT ![c] = f]
    /\ Goto(c, IF TrackedReady(s, f) THEN "ok" ELSE "join")
    /\ UNCHANGED <<flight, cmd>>

\* An RPC handler (forwardCapability) calls Ensure.
Call(c) ==
    /\ pc[c] = "idle"
    /\ \E s \in Services, f \in Fingerprints : EnterEnsure(c, s, f)
    /\ UNCHANGED <<registry, procs, watchers, shutdown>>

\* The handler takes the result.
Return(c) ==
    /\ pc[c] \in {"ok", "err"}
    /\ Goto(c, "idle")
    /\ svc' = [svc EXCEPT ![c] = AnyService]
    /\ fp' = [fp EXCEPT ![c] = NoFP]
    /\ UNCHANGED <<flight, cmd, registry, procs, watchers, shutdown>>

\* Mutant: concurrent calls are not merged into one flight.
JoinAlone(c) ==
    /\ pc[c] = "join"
    /\ flight' = [flight EXCEPT ![svc[c]] = c]
    /\ Goto(c, "one")
    /\ UNCHANGED <<svc, fp, cmd, registry, procs, watchers, shutdown>>

\* ensureGroup.Do: lead a flight for the service, or wait for the one there is.
Join(c) ==
    /\ pc[c] = "join"
    /\ IF flight[svc[c]] = NoCaller
         THEN /\ flight' = [flight EXCEPT ![svc[c]] = c]
              /\ Goto(c, "one")
         ELSE /\ Goto(c, "wait")
              /\ UNCHANGED flight
    /\ UNCHANGED <<svc, fp, cmd, registry, procs, watchers, shutdown>>

\* Mutant: the result is not handed to the callers that waited.
FinishAlone(c, result) ==
    /\ flight' = [flight EXCEPT ![svc[c]] = NoCaller]
    /\ Goto(c, result)
    /\ cmd' = [cmd EXCEPT ![c] = NoProc]
    /\ UNCHANGED <<svc, fp>>

\* ensureOne returns: everyone in the flight gets the leader's result.
Finish(c, result) ==
    /\ flight' = [flight EXCEPT ![svc[c]] = NoCaller]
    /\ pc' = [x \in Callers |->
                IF x = c \/ (pc[x] = "wait" /\ svc[x] = svc[c])
                THEN result ELSE pc[x]]
    /\ cmd' = [cmd EXCEPT ![c] = NoProc]
    /\ UNCHANGED <<svc, fp>>

-----------------------------------------------------------------------------
(* ensureOne, run by the leader of the flight.                             *)

One(c) ==
    /\ pc[c] = "one"
    /\ IF TrackedReady(svc[c], fp[c]) THEN Finish(c, "ok")
       ELSE IF shuttingDown THEN Finish(c, "err")
       ELSE Goto(c, "probe") /\ UNCHANGED <<flight, svc, fp, cmd>>
    /\ UNCHANGED <<registry, procs, watchers, shutdown>>

Probe(c) ==
    /\ pc[c] = "probe"
    /\ Goto(c, IF PipeListening(svc[c]) THEN "holder" ELSE "lookup")
    /\ UNCHANGED <<flight, svc, fp, cmd, registry, procs, watchers, shutdown>>

\* The pipe is served: by a process with the right environment, or not.
Holder(c) ==
    /\ pc[c] = "holder"
    /\ IF spawnFP[svc[c]] = fp[c]
         THEN Finish(c, "ok")
         ELSE /\ cmd' = [cmd EXCEPT ![c] = spawned[svc[c]]]
              /\ Goto(c, "evict")
              /\ UNCHANGED <<flight, svc, fp>>
    /\ UNCHANGED <<registry, procs, watchers, shutdown>>

\* Process.Kill: the process is told to exit; Exit says when it does.
Kill(S) == killed' = [p \in Procs |-> killed[p] \/ (p \in S /\ Alive(p))]

\* Kill the tracked process, or every process of the executable (on
\* Windows, and if the executable is there; otherwise none).  The up to
\* 3 s the code then waits for the pipe are the steps of other actors.
Evict(c) ==
    /\ pc[c] = "evict"
    /\ IF cmd[c] # NoProc
         THEN /\ Kill({cmd[c]})
              /\ Goto(c, "evicted")
         ELSE /\ \/ Kill({p \in Procs : Owner[p] = svc[c]})
                 \/ UNCHANGED killed
              /\ Goto(c, "lookup")
    /\ UNCHANGED <<pstate, flight, svc, fp, cmd, registry, watchers, shutdown>>

\* forgetSpawnedLocked: only if the registry still has this very process.
Forget(c) ==
    spawned' = [spawned EXCEPT ![svc[c]] = IF @ = cmd[c] THEN NoProc ELSE @]

Evicted(c) ==
    /\ pc[c] = "evicted"
    /\ Forget(c)
    /\ cmd' = [cmd EXCEPT ![c] = NoProc]
    /\ Goto(c, "lookup")
    /\ UNCHANGED <<shuttingDown, spawnFP, restartDelay, restartTimer>>
    /\ UNCHANGED <<flight, svc, fp, procs, watchers, shutdown>>

Lookup(c) ==
    /\ pc[c] = "lookup"
    /\ cmd' = [cmd EXCEPT ![c] = spawned[svc[c]]]
    /\ Goto(c, IF spawned[svc[c]] = NoProc THEN "start" ELSE "inspect")
    /\ UNCHANGED <<flight, svc, fp, registry, procs, watchers, shutdown>>

\* A tracked process that does not serve its pipe: wait for it if it has
\* the right environment, kill it if it has another, else it is dead.
Inspect(c) ==
    /\ pc[c] = "inspect"
    /\ IF Alive(cmd[c]) /\ spawnFP[svc[c]] = fp[c]
         THEN Goto(c, "pipe") /\ UNCHANGED killed
         ELSE Goto(c, "replace") /\ Kill({cmd[c]})
    /\ UNCHANGED <<pstate, flight, svc, fp, cmd, registry, watchers, shutdown>>

Replace(c) ==
    /\ pc[c] = "replace"
    /\ Forget(c)
    /\ cmd' = [cmd EXCEPT ![c] = NoProc]
    /\ Goto(c, "start")
    /\ UNCHANGED <<shuttingDown, spawnFP, restartDelay, restartTimer>>
    /\ UNCHANGED <<flight, svc, fp, procs, watchers, shutdown>>

\* startLocked and the bookkeeping after it, for a process of identity p.
Spawn(c, p) ==
    /\ Owner[p] = svc[c]
    /\ Reusable(p)
    /\ pstate' = [pstate EXCEPT ![p] = "starting"]
    /\ killed' = [killed EXCEPT ![p] = FALSE]
    /\ watch' = [watch EXCEPT ![p] = "wait"]
    /\ spawned' = [spawned EXCEPT ![svc[c]] = p]
    /\ spawnFP' = [spawnFP EXCEPT ![svc[c]] = fp[c]]
    /\ Goto(c, "pipe")
    /\ UNCHANGED <<shuttingDown, restartDelay, restartTimer>>
    /\ UNCHANGED <<flight, svc, fp, cmd, wDelay, shutdown>>

StartFails(c) ==
    /\ Finish(c, "err")
    /\ UNCHANGED <<registry, procs, watchers, shutdown>>

\* Mutant: shuttingDown is not looked at again under the lock.
StartUnchecked(c) ==
    /\ pc[c] = "start"
    /\ \/ StartMayFail /\ StartFails(c)
       \/ \E p \in Procs : Spawn(c, p)

Start(c) ==
    /\ pc[c] = "start"
    /\ \/ (shuttingDown \/ StartMayFail) /\ StartFails(c)
       \/ ~shuttingDown /\ \E p \in Procs : Spawn(c, p)

\* waitPipe: a probe finds the pipe served, or 8 s or the context run out.
WaitPipe(c) ==
    /\ pc[c] = "pipe"
    /\ \/ PipeListening(svc[c]) /\ Finish(c, "ok")
       \/ Finish(c, "err")
    /\ UNCHANGED <<registry, procs, watchers, shutdown>>

EnsureOne(c) ==
    \/ One(c) \/ Probe(c) \/ Holder(c) \/ Evict(c) \/ Evicted(c)
    \/ Lookup(c) \/ Inspect(c) \/ Replace(c) \/ Start(c) \/ WaitPipe(c)

-----------------------------------------------------------------------------
(* scheduleRestart and its goroutine.                                      *)

\* Put a new goroutine t in charge of s; cancel the one there was.
Arm(s, t, pcs) ==
    /\ restartTimer' = [restartTimer EXCEPT ![s] = t]
    /\ svc' = [svc EXCEPT ![t] = s]
    /\ pc' = [x \in Callers |->
                IF x = t THEN "armed"
                ELSE IF x = restartTimer[s] /\ pcs[x] = "armed" THEN "cancelled"
                ELSE pcs[x]]

\* Mutant: nothing while a restart of the service is pending or under way.
ScheduleRestartOnce(s, pcs) ==
    IF shuttingDown \/ \E t \in Timers : svc[t] = s /\ pcs[t] # "idle"
      THEN pc' = pcs /\ UNCHANGED <<restartTimer, svc>>
      ELSE \E t \in Timers : pcs[t] = "idle" /\ Arm(s, t, pcs)

\* Called with the callers' states pcs: nothing once shutting down.
ScheduleRestart(s, pcs) ==
    IF shuttingDown
      THEN pc' = pcs /\ UNCHANGED <<restartTimer, svc>>
      ELSE \E t \in Timers : pcs[t] = "idle" /\ Arm(s, t, pcs)

\* The select over timer.C, ctx.Done and stop: any that is ready may win.
Fire(t) ==
    /\ pc[t] \in {"armed", "cancelled"}
    /\ \/ Goto(t, "fired")
       \/ (pc[t] = "cancelled" \/ shuttingDown) /\ Goto(t, "idle")
    /\ UNCHANGED <<flight, svc, fp, cmd, registry, procs, watchers, shutdown>>

\* After the timer: drop the cancel function, look at shuttingDown.
Claim(t) ==
    /\ pc[t] = "fired"
    /\ restartTimer' = [restartTimer EXCEPT ![svc[t]] = NoTimer]
    /\ Goto(t, IF shuttingDown THEN "idle" ELSE "ensure")
    /\ UNCHANGED <<shuttingDown, spawned, spawnFP, restartDelay>>
    /\ UNCHANGED <<flight, svc, fp, cmd, procs, watchers, shutdown>>

RespawnEnsure(t) ==
    /\ pc[t] = "ensure"
    /\ \E f \in Fingerprints : EnterEnsure(t, svc[t], f)
    /\ UNCHANGED <<registry, procs, watchers, shutdown>>

\* The respawn succeeded, or failed: then back off further.
RespawnResult(t) ==
    /\ \/ /\ pc[t] = "ok"
          /\ Goto(t, "idle")
          /\ UNCHANGED restartDelay
       \/ /\ pc[t] = "err"
          /\ Goto(t, "resched")
          /\ restartDelay' = [restartDelay EXCEPT
                               ![svc[t]] = NextRestartDelay(@, FALSE)]
    /\ fp' = [fp EXCEPT ![t] = NoFP]
    /\ UNCHANGED <<shuttingDown, spawned, spawnFP, restartTimer>>
    /\ UNCHANGED <<flight, svc, cmd, procs, watchers, shutdown>>

\* ... and schedule again; this goroutine ends.
Resched(t) ==
    /\ pc[t] = "resched"
    /\ ScheduleRestart(svc[t], [pc EXCEPT ![t] = "idle"])
    /\ UNCHANGED <<shuttingDown, spawned, spawnFP, restartDelay>>
    /\ UNCHANGED <<flight, fp, cmd, procs, watchers, shutdown>>

Respawn(t) ==
    Fire(t) \/ Claim(t) \/ RespawnEnsure(t) \/ RespawnResult(t) \/ Resched(t)

-----------------------------------------------------------------------------
(* Processes and their watchChild goroutines.                              *)

Listen(p) ==
    /\ pstate[p] = "starting"
    /\ pstate' = [pstate EXCEPT ![p] = "listening"]
    /\ UNCHANGED <<killed, registry, callers, watchers, shutdown>>

\* A process exits because it was killed, or crashes.
Die(p) ==
    /\ Alive(p)
    /\ pstate' = [pstate EXCEPT ![p] = "dead"]
    /\ UNCHANGED <<killed, registry, callers, watchers, shutdown>>

Exit(p)  == killed[p] /\ Die(p)
Crash(p) == ~killed[p] /\ Die(p)

\* Cmd.Wait returned: leave the registry if still in it.  `stable' is
\* whether the process lived for a minute.
ChildExited(p) ==
    /\ watch[p] = "wait"
    /\ pstate[p] = "dead"
    /\ LET s == Owner[p]
           tracked == spawned[s] = p
       IN  /\ spawned' = [spawned EXCEPT ![s] = IF tracked THEN NoProc ELSE @]
           /\ IF shuttingDown
                THEN /\ watch' = [watch EXCEPT ![p] = "done"]
                     /\ UNCHANGED wDelay
                ELSE IF tracked
                THEN /\ watch' = [watch EXCEPT ![p] = "emitTracked"]
                     /\ \E stable \in BOOLEAN :
                          wDelay' = [wDelay EXCEPT ![p] =
                                     NextRestartDelay(restartDelay[s], stable)]
                ELSE /\ watch' = [watch EXCEPT ![p] = "emitUntracked"]
                     /\ UNCHANGED wDelay
    /\ UNCHANGED <<shuttingDown, spawnFP, restartDelay, restartTimer>>
    /\ UNCHANGED <<callers, procs, shutdown>>

\* The lost events go to the event hub; only a tracked child is restarted.
EmitLost(p) ==
    /\ watch[p] \in {"emitTracked", "emitUntracked"}
    /\ watch' = [watch EXCEPT ![p] =
                    IF @ = "emitTracked" THEN "setDelay" ELSE "done"]
    /\ UNCHANGED <<wDelay, registry, callers, procs, shutdown>>

SetDelay(p) ==
    /\ watch[p] = "setDelay"
    /\ restartDelay' = [restartDelay EXCEPT ![Owner[p]] = wDelay[p]]
    /\ watch' = [watch EXCEPT ![p] = "schedule"]
    /\ wDelay' = [wDelay EXCEPT ![p] = 0]
    /\ UNCHANGED <<shuttingDown, spawned, spawnFP, restartTimer>>
    /\ UNCHANGED <<callers, procs, shutdown>>

ScheduleAfterExit(p) ==
    /\ watch[p] = "schedule"
    /\ ScheduleRestart(Owner[p], pc)
    /\ watch' = [watch EXCEPT ![p] = "done"]
    /\ UNCHANGED <<shuttingDown, spawned, spawnFP, restartDelay>>
    /\ UNCHANGED <<wDelay, flight, fp, cmd, procs, shutdown>>

WatchChild(p) ==
    ChildExited(p) \/ EmitLost(p) \/ SetDelay(p) \/ ScheduleAfterExit(p)

-----------------------------------------------------------------------------
(* Shutdown.                                                               *)

Tracked == {p \in Procs : spawned[Owner[p]] = p}

\* Mutant: the registry is emptied before it is copied.
ShutdownBeginEmpty ==
    /\ ~shuttingDown
    /\ shuttingDown' = TRUE
    /\ pc' = [x \in Callers |-> IF pc[x] = "armed" THEN "cancelled" ELSE pc[x]]
    /\ restartTimer' = [s \in Services |-> NoTimer]
    /\ toKill' = {}
    /\ spawned' = [s \in Services |-> NoProc]
    /\ down' = "kill"
    /\ UNCHANGED <<spawnFP, restartDelay, flight, svc, fp, cmd, procs, watchers>>

\* The critical section.  A goroutine that restartCancel no longer knows
\* sees the closed stop channel instead.
ShutdownBegin ==
    /\ ~shuttingDown
    /\ shuttingDown' = TRUE
    /\ pc' = [x \in Callers |->
                IF pc[x] = "armed" /\ restartTimer[svc[x]] = x
                THEN "cancelled" ELSE pc[x]]
    /\ restartTimer' = [s \in Services |-> NoTimer]
    /\ toKill' = Tracked
    /\ spawned' = [s \in Services |-> NoProc]
    /\ down' = "kill"
    /\ UNCHANGED <<spawnFP, restartDelay, flight, svc, fp, cmd, procs, watchers>>

ShutdownKill(p) ==
    /\ down = "kill"
    /\ p \in toKill
    /\ Kill({p})
    /\ toKill' = toKill \ {p}
    /\ UNCHANGED <<pstate, down, registry, callers, watchers>>

\* All are dead, or 3 s have passed.  Closing the job object then kills
\* what is left of this session (on Windows; elsewhere it does nothing).
ShutdownEnd ==
    /\ down = "kill"
    /\ toKill = {}
    /\ down' = "done"
    /\ \/ Kill({p \in Procs : Ours(p)})
       \/ UNCHANGED killed
    /\ UNCHANGED <<pstate, toKill, registry, callers, watchers>>

-----------------------------------------------------------------------------
Next ==
    \/ \E c \in Clients : Call(c) \/ Return(c)
    \/ \E c \in Callers : Join(c) \/ EnsureOne(c)
    \/ \E t \in Timers : Respawn(t)
    \/ \E p \in Procs : Listen(p) \/ Exit(p) \/ Crash(p) \/ WatchChild(p)
    \/ ShutdownBegin
    \/ \E p \in Procs : ShutdownKill(p)
    \/ ShutdownEnd

Spec == Init /\ [][Next]_vars

\* Goroutines run, killed processes exit and timers expire.  Nothing makes
\* clients call, processes crash or listen, or the platform exit.
Fairness ==
    /\ \A c \in Callers : WF_vars(Join(c) \/ EnsureOne(c))
    /\ \A c \in Clients : WF_vars(Return(c))
    /\ \A t \in Timers : WF_vars(Respawn(t))
    /\ \A p \in Procs : WF_vars(Exit(p)) /\ WF_vars(WatchChild(p))
    /\ WF_vars(ShutdownEnd)
    /\ \A p \in Procs : WF_vars(ShutdownKill(p))

FairSpec == Spec /\ Fairness

-----------------------------------------------------------------------------
(* Safety.                                                                 *)

\* A service is never served twice: of the processes this session started
\* for it at most one runs that has not been told to exit.
SingleServer ==
    \A p, q \in Procs :
        /\ Owner[p] = Owner[q]
        /\ Ours(p) /\ Alive(p) /\ ~killed[p]
        /\ Ours(q) /\ Alive(q) /\ ~killed[q]
        => p = q

\* When Shutdown returns, every process this session ever started has exited
\* or has been told to: no interleaving of Ensure, a restart timer, a crash
\* and Shutdown leaves a child behind.
ShutdownLeavesNoOrphan ==
    down = "done" => \A p \in Procs : Ours(p) /\ Alive(p) => killed[p]

\* Once Shutdown has begun no process is started, not even by a goroutine
\* that was already on its way (supervisor.go:444).
NoSpawnAfterShutdown ==
    [][shuttingDown => \A p \in Procs : Alive(p)' => Alive(p)]_vars

-----------------------------------------------------------------------------
(* Liveness, under FairSpec.                                               *)

\* Every Ensure returns, whatever crashes and whoever waits for whom.
EnsureReturns ==
    \A c \in Clients : pc[c] # "idle" ~> pc[c] = "idle"

\* A restart is owed to a service: its tracked process was seen to exit, or
\* a timer goroutine is at work for it.
RespawnOwed(s) ==
    \/ \E p \in Procs : Owner[p] = s
                      /\ watch[p] \in {"emitTracked", "setDelay", "schedule"}
    \/ \E t \in Timers : svc[t] = s /\ pc[t] \in {"armed", "fired", "err", "resched"}

\* A crash that watchChild saw first is answered: the service runs again
\* (or its pipe is served by a process from before), unless the platform exits.
CrashIsAnswered ==
    \A s \in Services :
        RespawnOwed(s) ~>
            \/ shuttingDown
            \/ PipeListening(s)
            \/ spawned[s] # NoProc /\ Alive(spawned[s])

\* After Shutdown every process of the session exits.
ShutdownTerminates ==
    shuttingDown ~> \A p \in Procs : ~(Ours(p) /\ Alive(p))
=============================================================================
