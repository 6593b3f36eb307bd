-------------------------- MODULE SupervisorProofs --------------------------
(* Proofs about Supervisor, for any services, processes and goroutines.    *)
EXTENDS Supervisor, TLAPS

\* Only the leader of a service's flight is inside ensureOne.
LeaderInv ==
    \A c \in Callers : pc[c] \in LeaderPCs => flight[svc[c]] = c

\* What the leader knows about the registry from step to step.
CmdInv ==
    \A c \in Callers :
        /\ pc[c] = "evict" => spawned[svc[c]] \in {NoProc, cmd[c]}
        /\ pc[c] \in {"evicted", "inspect", "replace"} =>
             cmd[c] # NoProc /\ spawned[svc[c]] \in {NoProc, cmd[c]}
        /\ pc[c] \in {"evicted", "replace"} => killed[cmd[c]] \/ ~Alive(cmd[c])
        /\ pc[c] = "start" => spawned[svc[c]] = NoProc

OwnerInv ==
    \A s \in Services : spawned[s] # NoProc => Owner[spawned[s]] = s

\* A child that runs and was not told to exit is in the registry or in
\* Shutdown's list.
RegisteredInv ==
    \A p \in Procs :
        Ours(p) /\ Alive(p) /\ ~killed[p] => spawned[Owner[p]] = p \/ p \in toKill

DownInv ==
    /\ shuttingDown => \A s \in Services : spawned[s] = NoProc
    /\ (down = "up") <=> ~shuttingDown
    /\ down # "kill" => toKill = {}
    /\ \A p, q \in toKill : Owner[p] = Owner[q] => p = q

IInv == LeaderInv /\ CmdInv /\ OwnerInv /\ RegisteredInv /\ DownInv

USE DEF registry, callers, procs, watchers, shutdown

-----------------------------------------------------------------------------
\* A delay lies between the first delay and the longest one.
LEMMA DelayType ==
    ASSUME NEW d \in 0..MaxDelay, NEW b \in BOOLEAN
    PROVE  NextRestartDelay(d, b) \in 0..MaxDelay
BY ConstantsAssumption DEF NextRestartDelay, MinDelay

LEMMA DelayZero == 0 \in 0..MaxDelay
BY ConstantsAssumption

LEMMA AnyServiceType == AnyService \in Services
BY ConstantsAssumption DEF AnyService

LEMMA OwnerType == \A p \in Procs : Owner[p] \in Services
BY ConstantsAssumption

\* Next, one disjunct per action.
LEMMA NextCases ==
    ASSUME Next
    PROVE
      \/ \E c \in Clients : Call(c)
      \/ \E c \in Clients : Return(c)
      \/ \E c \in Callers : Join(c)
      \/ \E c \in Callers : One(c)
      \/ \E c \in Callers : Probe(c)
      \/ \E c \in Callers : Holder(c)
      \/ \E c \in Callers : Evict(c)
      \/ \E c \in Callers : Evicted(c)
      \/ \E c \in Callers : Lookup(c)
      \/ \E c \in Callers : Inspect(c)
      \/ \E c \in Callers : Replace(c)
      \/ \E c \in Callers : Start(c)
      \/ \E c \in Callers : WaitPipe(c)
      \/ \E t \in Timers : Fire(t)
      \/ \E t \in Timers : Claim(t)
      \/ \E t \in Timers : RespawnEnsure(t)
      \/ \E t \in Timers : RespawnResult(t)
      \/ \E t \in Timers : Resched(t)
      \/ \E p \in Procs : Listen(p)
      \/ \E p \in Procs : Exit(p)
      \/ \E p \in Procs : Crash(p)
      \/ \E p \in Procs : ChildExited(p)
      \/ \E p \in Procs : EmitLost(p)
      \/ \E p \in Procs : SetDelay(p)
      \/ \E p \in Procs : ScheduleAfterExit(p)
      \/ ShutdownBegin
      \/ \E p \in Procs : ShutdownKill(p)
      \/ ShutdownEnd
BY DEF Next, EnsureOne, Respawn, WatchChild

\* Every variable has its type: the registry names processes and goroutines
\* that exist, and delays respect the cap.
THEOREM TypeCorrect == Spec => []TypeOK
<1>1. Init => TypeOK
  <2> SUFFICES ASSUME Init PROVE TypeOK
    OBVIOUS
  <2>1. restartDelay \in [Services -> 0..MaxDelay] /\ wDelay \in [Procs -> 0..MaxDelay]
    BY DelayZero DEF Init
  <2>2. svc \in [Callers -> Services] /\ pc \in [Callers -> CallPCs \cup TimerPCs]
    BY AnyServiceType DEF Init, CallPCs
  <2>3. watch \in [Procs -> WatchPCs]
    BY DEF Init, WatchPCs
  <2>4. pstate \in [Procs -> {"unborn", "starting", "listening", "dead"}]
    BY DEF Init
  <2> QED
    BY <2>1, <2>2, <2>3, <2>4 DEF Init, TypeOK
<1>2. TypeOK /\ [Next]_vars => TypeOK'
  <2> SUFFICES ASSUME TypeOK, [Next]_vars PROVE TypeOK'
    OBVIOUS
  <2> USE DEF TypeOK
  <2>1. ASSUME NEW c \in Clients, Call(c) PROVE TypeOK'
    BY <2>1 DEF Call, EnterEnsure, Goto, CallPCs, Callers
  <2>2. ASSUME NEW c \in Clients, Return(c) PROVE TypeOK'
    BY <2>2, AnyServiceType DEF Return, Goto, CallPCs, Callers
  <2>3. ASSUME NEW c \in Callers, Join(c) PROVE TypeOK'
    BY <2>3 DEF Join, Goto, CallPCs, LeaderPCs
  <2>4. ASSUME NEW c \in Callers, One(c) PROVE TypeOK'
    BY <2>4 DEF One, Finish, Goto, CallPCs, LeaderPCs
  <2>5. ASSUME NEW c \in Callers, Probe(c) PROVE TypeOK'
    BY <2>5 DEF Probe, Goto, CallPCs, LeaderPCs
  <2>6. ASSUME NEW c \in Callers, Holder(c) PROVE TypeOK'
    BY <2>6 DEF Holder, Finish, Goto, CallPCs, LeaderPCs
  <2>7. ASSUME NEW c \in Callers, Evict(c) PROVE TypeOK'
    BY <2>7 DEF Evict, Kill, Goto, CallPCs, LeaderPCs
  <2>8. ASSUME NEW c \in Callers, Evicted(c) PROVE TypeOK'
    BY <2>8 DEF Evicted, Forget, Goto, CallPCs, LeaderPCs
  <2>9. ASSUME NEW c \in Callers, Lookup(c) PROVE TypeOK'
    BY <2>9 DEF Lookup, Goto, CallPCs, LeaderPCs
  <2>10. ASSUME NEW c \in Callers, Inspect(c) PROVE TypeOK'
    BY <2>10 DEF Inspect, Kill, Goto, CallPCs, LeaderPCs
  <2>11. ASSUME NEW c \in Callers, Replace(c) PROVE TypeOK'
    BY <2>11 DEF Replace, Forget, Goto, CallPCs, LeaderPCs
  <2>12. ASSUME NEW c \in Callers, Start(c) PROVE TypeOK'
    <3>1. CASE StartFails(c)
      BY <3>1 DEF StartFails, Finish, CallPCs
    <3>2. ASSUME NEW p \in Procs, Spawn(c, p) PROVE TypeOK'
      <4>1. svc[c] \in Services
        OBVIOUS
      <4>2. /\ watch' \in [Procs -> WatchPCs]
            /\ pc' \in [Callers -> CallPCs \cup TimerPCs]
        BY <3>2 DEF Spawn, Goto, CallPCs, LeaderPCs, WatchPCs
      <4> QED
        BY <3>2, <4>1, <4>2 DEF Spawn
    <3> QED
      BY <2>12, <3>1, <3>2 DEF Start
  <2>13. ASSUME NEW c \in Callers, WaitPipe(c) PROVE TypeOK'
    BY <2>13 DEF WaitPipe, Finish, CallPCs, LeaderPCs
  <2>14. ASSUME NEW t \in Timers, Fire(t) PROVE TypeOK'
    BY <2>14 DEF Fire, Goto, CallPCs, TimerPCs, Callers
  <2>15. ASSUME NEW t \in Timers, Claim(t) PROVE TypeOK'
    BY <2>15 DEF Claim, Goto, CallPCs, TimerPCs, Callers
  <2>16. ASSUME NEW t \in Timers, RespawnEnsure(t) PROVE TypeOK'
    BY <2>16 DEF RespawnEnsure, EnterEnsure, Goto, CallPCs, LeaderPCs, Callers
  <2>17. ASSUME NEW t \in Timers, RespawnResult(t) PROVE TypeOK'
    <3>1. t \in Callers /\ svc[t] \in Services
      BY DEF Callers
    <3>2. restartDelay' \in [Services -> 0..MaxDelay]
      <4>1. NextRestartDelay(restartDelay[svc[t]], FALSE) \in 0..MaxDelay
        BY <3>1, DelayType
      <4> QED
        BY <2>17, <4>1 DEF RespawnResult
    <3>3. pc' \in [Callers -> CallPCs \cup TimerPCs]
      BY <2>17, <3>1 DEF RespawnResult, Goto, CallPCs, TimerPCs
    <3> QED
      BY <2>17, <3>1, <3>2, <3>3 DEF RespawnResult
  <2>18. ASSUME NEW t \in Timers, Resched(t) PROVE TypeOK'
    BY <2>18 DEF Resched, ScheduleRestart, Arm, CallPCs, TimerPCs, Callers
  <2>19. ASSUME NEW p \in Procs, Listen(p) PROVE TypeOK'
    BY <2>19 DEF Listen
  <2>20. ASSUME NEW p \in Procs, Exit(p) PROVE TypeOK'
    BY <2>20 DEF Exit, Die
  <2>21. ASSUME NEW p \in Procs, Crash(p) PROVE TypeOK'
    BY <2>21 DEF Crash, Die
  <2>22. ASSUME NEW p \in Procs, ChildExited(p) PROVE TypeOK'
    <3>1. Owner[p] \in Services /\ restartDelay[Owner[p]] \in 0..MaxDelay
      BY OwnerType
    <3>2. wDelay' \in [Procs -> 0..MaxDelay]
      <4>1. \A b \in BOOLEAN : NextRestartDelay(restartDelay[Owner[p]], b) \in 0..MaxDelay
        BY <3>1, DelayType
      <4> QED
        BY <2>22, <4>1 DEF ChildExited
    <3>3. watch' \in [Procs -> WatchPCs]
      BY <2>22 DEF ChildExited, WatchPCs
    <3>4. spawned' \in [Services -> Procs \cup {NoProc}]
      BY <2>22, <3>1 DEF ChildExited
    <3> QED
      BY <2>22, <3>2, <3>3, <3>4 DEF ChildExited
  <2>23. ASSUME NEW p \in Procs, EmitLost(p) PROVE TypeOK'
    BY <2>23 DEF EmitLost, WatchPCs
  <2>24. ASSUME NEW p \in Procs, SetDelay(p) PROVE TypeOK'
    BY <2>24, OwnerType, DelayZero DEF SetDelay, WatchPCs
  <2>25. ASSUME NEW p \in Procs, ScheduleAfterExit(p) PROVE TypeOK'
    BY <2>25, OwnerType DEF ScheduleAfterExit, ScheduleRestart, Arm, CallPCs, TimerPCs, WatchPCs, Callers
  <2>26. CASE ShutdownBegin
    BY <2>26 DEF ShutdownBegin, Tracked, TimerPCs
  <2>27. ASSUME NEW p \in Procs, ShutdownKill(p) PROVE TypeOK'
    BY <2>27 DEF ShutdownKill, Kill
  <2>28. CASE ShutdownEnd
    BY <2>28 DEF ShutdownEnd, Kill
  <2>29. CASE UNCHANGED vars
    BY <2>29 DEF vars
  <2> QED
    BY <2>1, <2>2, <2>3, <2>4, <2>5, <2>6, <2>7, <2>8, <2>9, <2>10, <2>11, <2>12, <2>13, <2>14, <2>15, <2>16, <2>17, <2>18, <2>19, <2>20, <2>21, <2>22, <2>23, <2>24, <2>25, <2>26, <2>27, <2>28, <2>29, NextCases
<1> QED
  BY <1>1, <1>2, PTL DEF Spec

-----------------------------------------------------------------------------
(* The inductive invariant.                                                *)

LEMMA NoCallerIsNobody == NoCaller \notin Callers
BY ConstantsAssumption

LEMMA NoProcIsNone == NoProc \notin Procs
BY ConstantsAssumption

LEMMA InitIInv == Init => IInv
BY DEF Init, IInv, LeaderInv, CmdInv, OwnerInv, RegisteredInv, DownInv,
       LeaderPCs, Ours

\* Every step of every actor preserves the invariant.
LEMMA NextIInv == TypeOK /\ IInv /\ [Next]_vars => IInv'
<1> SUFFICES ASSUME TypeOK, IInv, [Next]_vars PROVE IInv'
  OBVIOUS
<1> USE DEF TypeOK, IInv
<1>1. ASSUME NEW c \in Clients, Call(c) PROVE IInv'
  <2>1. LeaderInv'
    BY <1>1 DEF LeaderInv, LeaderPCs, Call, EnterEnsure, Goto, Callers
  <2>2. CmdInv'
    BY <1>1 DEF CmdInv, LeaderInv, LeaderPCs, Alive, Call, EnterEnsure, Goto, Callers
  <2>3. OwnerInv'
    BY <1>1 DEF OwnerInv, Call, EnterEnsure, Goto, Callers
  <2>4. RegisteredInv'
    BY <1>1 DEF RegisteredInv, CmdInv, OwnerInv, DownInv, Ours, Alive, Call, EnterEnsure, Goto, Callers
  <2>5. DownInv'
    BY <1>1 DEF DownInv, OwnerInv, Call, EnterEnsure, Goto, Callers
  <2> QED
    BY <2>1, <2>2, <2>3, <2>4, <2>5
<1>2. ASSUME NEW c \in Clients, Return(c) PROVE IInv'
  <2>1. LeaderInv'
    BY <1>2 DEF LeaderInv, LeaderPCs, Return, Goto, Callers
  <2>2. CmdInv'
    BY <1>2 DEF CmdInv, LeaderInv, LeaderPCs, Alive, Return, Goto, Callers
  <2>3. OwnerInv'
    BY <1>2 DEF OwnerInv, Return, Goto, Callers
  <2>4. RegisteredInv'
    BY <1>2 DEF RegisteredInv, CmdInv, OwnerInv, DownInv, Ours, Alive, Return, Goto, Callers
  <2>5. DownInv'
    BY <1>2 DEF DownInv, OwnerInv, Return, Goto, Callers
  <2> QED
    BY <2>1, <2>2, <2>3, <2>4, <2>5
<1>3. ASSUME NEW c \in Callers, Join(c) PROVE IInv'
  <2>1. LeaderInv'
    BY <1>3, NoCallerIsNobody DEF LeaderInv, LeaderPCs, Join, Goto
  <2>2. CmdInv'
    BY <1>3 DEF CmdInv, LeaderInv, LeaderPCs, Alive, Join, Goto
  <2>3. OwnerInv'
    BY <1>3 DEF OwnerInv, Join, Goto
  <2>4. RegisteredInv'
    BY <1>3 DEF RegisteredInv, CmdInv, OwnerInv, DownInv, Ours, Alive, Join, Goto
  <2>5. DownInv'
    BY <1>3 DEF DownInv, OwnerInv, Join, Goto
  <2> QED
    BY <2>1, <2>2, <2>3, <2>4, <2>5
<1>4. ASSUME NEW c \in Callers, One(c) PROVE IInv'
  <2>1. LeaderInv'
    BY <1>4 DEF LeaderInv, LeaderPCs, One, Finish, Goto
  <2>2. CmdInv'
    BY <1>4 DEF CmdInv, LeaderInv, LeaderPCs, Alive, One, Finish, Goto
  <2>3. OwnerInv'
    BY <1>4 DEF OwnerInv, One, Finish, Goto
  <2>4. RegisteredInv'
    BY <1>4 DEF RegisteredInv, CmdInv, OwnerInv, DownInv, Ours, Alive, One, Finish, Goto
  <2>5. DownInv'
    BY <1>4 DEF DownInv, OwnerInv, One, Finish, Goto
  <2> QED
    BY <2>1, <2>2, <2>3, <2>4, <2>5
<1>5. ASSUME NEW c \in Callers, Probe(c) PROVE IInv'
  <2>1. LeaderInv'
    BY <1>5 DEF LeaderInv, LeaderPCs, Probe, Goto
  <2>2. CmdInv'
    BY <1>5 DEF CmdInv, LeaderInv, LeaderPCs, Alive, Probe, Goto
  <2>3. OwnerInv'
    BY <1>5 DEF OwnerInv, Probe, Goto
  <2>4. RegisteredInv'
    BY <1>5 DEF RegisteredInv, CmdInv, OwnerInv, DownInv, Ours, Alive, Probe, Goto
  <2>5. DownInv'
    BY <1>5 DEF DownInv, OwnerInv, Probe, Goto
  <2> QED
    BY <2>1, <2>2, <2>3, <2>4, <2>5
<1>6. ASSUME NEW c \in Callers, Holder(c) PROVE IInv'
  <2>1. LeaderInv'
    BY <1>6 DEF LeaderInv, LeaderPCs, Holder, Finish, Goto
  <2>2. CmdInv'
    BY <1>6 DEF CmdInv, LeaderInv, LeaderPCs, Alive, Holder, Finish, Goto
  <2>3. OwnerInv'
    BY <1>6 DEF OwnerInv, Holder, Finish, Goto
  <2>4. RegisteredInv'
    BY <1>6 DEF RegisteredInv, CmdInv, OwnerInv, DownInv, Ours, Alive, Holder, Finish, Goto
  <2>5. DownInv'
    BY <1>6 DEF DownInv, OwnerInv, Holder, Finish, Goto
  <2> QED
    BY <2>1, <2>2, <2>3, <2>4, <2>5
<1>7. ASSUME NEW c \in Callers, Evict(c) PROVE IInv'
  <2>1. LeaderInv'
    BY <1>7 DEF LeaderInv, LeaderPCs, Evict, Kill, Goto
  <2>2. CmdInv'
    <3>1. spawned[svc[c]] \in {NoProc, cmd[c]}
      BY <1>7 DEF CmdInv, Evict
    <3>2. \A p \in Procs : killed[p] => killed'[p]
      BY <1>7 DEF Evict, Kill
    <3>3. pc'[c] = "evicted" =>
            cmd[c] # NoProc /\ (killed'[cmd[c]] \/ ~Alive(cmd[c]))
      BY <1>7 DEF Evict, Kill, Goto
    <3>4. pc'[c] \in {"evicted", "lookup"}
      BY <1>7 DEF Evict, Goto
    <3> QED
      BY <1>7, <3>1, <3>2, <3>3, <3>4 DEF CmdInv, Evict, Goto, Alive
  <2>3. OwnerInv'
    BY <1>7 DEF OwnerInv, Evict, Kill, Goto
  <2>4. RegisteredInv'
    BY <1>7 DEF RegisteredInv, CmdInv, OwnerInv, DownInv, Ours, Alive, Evict, Kill, Goto
  <2>5. DownInv'
    BY <1>7 DEF DownInv, OwnerInv, Evict, Kill, Goto
  <2> QED
    BY <2>1, <2>2, <2>3, <2>4, <2>5
<1>8. ASSUME NEW c \in Callers, Evicted(c) PROVE IInv'
  <2>1. LeaderInv'
    BY <1>8 DEF LeaderInv, LeaderPCs, Evicted, Forget, Goto
  <2>2. CmdInv'
    BY <1>8 DEF CmdInv, LeaderInv, LeaderPCs, Alive, Evicted, Forget, Goto
  <2>3. OwnerInv'
    BY <1>8 DEF OwnerInv, Evicted, Forget, Goto
  <2>4. RegisteredInv'
    BY <1>8 DEF RegisteredInv, CmdInv, OwnerInv, DownInv, Ours, Alive, Evicted, Forget, Goto
  <2>5. DownInv'
    BY <1>8 DEF DownInv, OwnerInv, Evicted, Forget, Goto
  <2> QED
    BY <2>1, <2>2, <2>3, <2>4, <2>5
<1>9. ASSUME NEW c \in Callers, Lookup(c) PROVE IInv'
  <2>1. LeaderInv'
    BY <1>9 DEF LeaderInv, LeaderPCs, Lookup, Goto
  <2>2. CmdInv'
    BY <1>9 DEF CmdInv, LeaderInv, LeaderPCs, Alive, Lookup, Goto
  <2>3. OwnerInv'
    BY <1>9 DEF OwnerInv, Lookup, Goto
  <2>4. RegisteredInv'
    BY <1>9 DEF RegisteredInv, CmdInv, OwnerInv, DownInv, Ours, Alive, Lookup, Goto
  <2>5. DownInv'
    BY <1>9 DEF DownInv, OwnerInv, Lookup, Goto
  <2> QED
    BY <2>1, <2>2, <2>3, <2>4, <2>5
<1>10. ASSUME NEW c \in Callers, Inspect(c) PROVE IInv'
  <2>1. LeaderInv'
    BY <1>10 DEF LeaderInv, LeaderPCs, Inspect, Kill, Goto
  <2>2. CmdInv'
    <3>1. cmd[c] \in Procs /\ spawned[svc[c]] \in {NoProc, cmd[c]}
      BY <1>10 DEF CmdInv, Inspect
    <3>2. \A p \in Procs : killed[p] => killed'[p]
      BY <1>10 DEF Inspect, Kill
    <3>3. pc'[c] = "replace" => killed'[cmd[c]] \/ ~Alive(cmd[c])
      BY <1>10, <3>1 DEF Inspect, Kill, Goto
    <3> QED
      BY <1>10, <3>1, <3>2, <3>3 DEF CmdInv, Inspect, Goto, Alive
  <2>3. OwnerInv'
    BY <1>10 DEF OwnerInv, Inspect, Kill, Goto
  <2>4. RegisteredInv'
    BY <1>10 DEF RegisteredInv, CmdInv, OwnerInv, DownInv, Ours, Alive, Inspect, Kill, Goto
  <2>5. DownInv'
    BY <1>10 DEF DownInv, OwnerInv, Inspect, Kill, Goto
  <2> QED
    BY <2>1, <2>2, <2>3, <2>4, <2>5
<1>11. ASSUME NEW c \in Callers, Replace(c) PROVE IInv'
  <2>1. LeaderInv'
    BY <1>11 DEF LeaderInv, LeaderPCs, Replace, Forget, Goto
  <2>2. CmdInv'
    BY <1>11 DEF CmdInv, LeaderInv, LeaderPCs, Alive, Replace, Forget, Goto
  <2>3. OwnerInv'
    BY <1>11 DEF OwnerInv, Replace, Forget, Goto
  <2>4. RegisteredInv'
    BY <1>11 DEF RegisteredInv, CmdInv, OwnerInv, DownInv, Ours, Alive, Replace, Forget, Goto
  <2>5. DownInv'
    BY <1>11 DEF DownInv, OwnerInv, Replace, Forget, Goto
  <2> QED
    BY <2>1, <2>2, <2>3, <2>4, <2>5
<1>12. ASSUME NEW c \in Callers, Start(c) PROVE IInv'
  <2>1. LeaderInv'
    BY <1>12 DEF LeaderInv, LeaderPCs, Start, Spawn, StartFails, Finish, Goto
  <2>2. CmdInv'
    <3>1. CASE StartFails(c)
      BY <3>1 DEF CmdInv, StartFails, Finish, Alive
    <3>2. ASSUME NEW p \in Procs, Spawn(c, p) PROVE CmdInv'
      <4>1. \A x \in Callers : cmd[x] # p
        BY <3>2 DEF Spawn, Reusable
      <4>2. \A x \in Callers \ {c} : pc[x] \in LeaderPCs => svc[x] # svc[c]
        BY <1>12 DEF LeaderInv, LeaderPCs, Start
      <4>3. \A x \in Callers \ {c} :
              pc[x] \in LeaderPCs => spawned'[svc[x]] = spawned[svc[x]]
        BY <3>2, <4>2 DEF Spawn
      <4> QED
        BY <3>2, <4>1, <4>3 DEF CmdInv, Spawn, Goto, Alive, LeaderPCs
    <3> QED
      BY <1>12, <3>1, <3>2 DEF Start
  <2>3. OwnerInv'
    BY <1>12 DEF OwnerInv, Start, Spawn, StartFails, Finish, Goto
  <2>4. RegisteredInv'
    <3>1. CASE StartFails(c)
      BY <3>1 DEF RegisteredInv, StartFails, Ours, Alive
    <3>2. ASSUME NEW p \in Procs, Spawn(c, p) PROVE RegisteredInv'
      <4>1. spawned[svc[c]] = NoProc
        BY <1>12 DEF CmdInv, Start
      <4>2. \A q \in Procs : spawned[Owner[q]] = q => Owner[q] # svc[c]
        BY <4>1, NoProcIsNone
      <4> QED
        BY <3>2, <4>2 DEF RegisteredInv, Spawn, Ours, Alive
    <3> QED
      BY <1>12, <3>1, <3>2 DEF Start
  <2>5. DownInv'
    BY <1>12 DEF DownInv, OwnerInv, Start, Spawn, StartFails, Finish, Goto
  <2> QED
    BY <2>1, <2>2, <2>3, <2>4, <2>5
<1>13. ASSUME NEW c \in Callers, WaitPipe(c) PROVE IInv'
  <2>1. LeaderInv'
    BY <1>13 DEF LeaderInv, LeaderPCs, WaitPipe, Finish
  <2>2. CmdInv'
    BY <1>13 DEF CmdInv, LeaderInv, LeaderPCs, Alive, WaitPipe, Finish
  <2>3. OwnerInv'
    BY <1>13 DEF OwnerInv, WaitPipe, Finish
  <2>4. RegisteredInv'
    BY <1>13 DEF RegisteredInv, CmdInv, OwnerInv, DownInv, Ours, Alive, WaitPipe, Finish
  <2>5. DownInv'
    BY <1>13 DEF DownInv, OwnerInv, WaitPipe, Finish
  <2> QED
    BY <2>1, <2>2, <2>3, <2>4, <2>5
<1>14. ASSUME NEW t \in Timers, Fire(t) PROVE IInv'
  <2>1. LeaderInv'
    BY <1>14 DEF LeaderInv, LeaderPCs, Fire, Goto, Callers
  <2>2. CmdInv'
    BY <1>14 DEF CmdInv, LeaderInv, LeaderPCs, Alive, Fire, Goto, Callers
  <2>3. OwnerInv'
    BY <1>14 DEF OwnerInv, Fire, Goto, Callers
  <2>4. RegisteredInv'
    BY <1>14 DEF RegisteredInv, CmdInv, OwnerInv, DownInv, Ours, Alive, Fire, Goto, Callers
  <2>5. DownInv'
    BY <1>14 DEF DownInv, OwnerInv, Fire, Goto, Callers
  <2> QED
    BY <2>1, <2>2, <2>3, <2>4, <2>5
<1>15. ASSUME NEW t \in Timers, Claim(t) PROVE IInv'
  <2>1. LeaderInv'
    BY <1>15 DEF LeaderInv, LeaderPCs, Claim, Goto, Callers
  <2>2. CmdInv'
    BY <1>15 DEF CmdInv, LeaderInv, LeaderPCs, Alive, Claim, Goto, Callers
  <2>3. OwnerInv'
    BY <1>15 DEF OwnerInv, Claim, Goto, Callers
  <2>4. RegisteredInv'
    BY <1>15 DEF RegisteredInv, CmdInv, OwnerInv, DownInv, Ours, Alive, Claim, Goto, Callers
  <2>5. DownInv'
    BY <1>15 DEF DownInv, OwnerInv, Claim, Goto, Callers
  <2> QED
    BY <2>1, <2>2, <2>3, <2>4, <2>5
<1>16. ASSUME NEW t \in Timers, RespawnEnsure(t) PROVE IInv'
  <2>1. LeaderInv'
    BY <1>16 DEF LeaderInv, LeaderPCs, RespawnEnsure, EnterEnsure, Goto, Callers
  <2>2. CmdInv'
    BY <1>16 DEF CmdInv, LeaderInv, LeaderPCs, Alive, RespawnEnsure, EnterEnsure, Goto, Callers
  <2>3. OwnerInv'
    BY <1>16 DEF OwnerInv, RespawnEnsure, EnterEnsure, Goto, Callers
  <2>4. RegisteredInv'
    BY <1>16 DEF RegisteredInv, CmdInv, OwnerInv, DownInv, Ours, Alive, RespawnEnsure, EnterEnsure, Goto, Callers
  <2>5. DownInv'
    BY <1>16 DEF DownInv, OwnerInv, RespawnEnsure, EnterEnsure, Goto, Callers
  <2> QED
    BY <2>1, <2>2, <2>3, <2>4, <2>5
<1>17. ASSUME NEW t \in Timers, RespawnResult(t) PROVE IInv'
  <2>1. LeaderInv'
    BY <1>17 DEF LeaderInv, LeaderPCs, RespawnResult, Goto, Callers
  <2>2. CmdInv'
    BY <1>17 DEF CmdInv, LeaderInv, LeaderPCs, Alive, RespawnResult, Goto, Callers
  <2>3. OwnerInv'
    BY <1>17 DEF OwnerInv, RespawnResult, Goto, Callers
  <2>4. RegisteredInv'
    BY <1>17 DEF RegisteredInv, CmdInv, OwnerInv, DownInv, Ours, Alive, RespawnResult, Goto, Callers
  <2>5. DownInv'
    BY <1>17 DEF DownInv, OwnerInv, RespawnResult, Goto, Callers
  <2> QED
    BY <2>1, <2>2, <2>3, <2>4, <2>5
<1>18. ASSUME NEW t \in Timers, Resched(t) PROVE IInv'
  <2>1. LeaderInv'
    BY <1>18 DEF LeaderInv, LeaderPCs, Resched, ScheduleRestart, Arm, Callers
  <2>2. CmdInv'
    BY <1>18 DEF CmdInv, LeaderInv, LeaderPCs, Alive, Resched, ScheduleRestart, Arm, Callers
  <2>3. OwnerInv'
    BY <1>18 DEF OwnerInv, Resched, ScheduleRestart, Arm, Callers
  <2>4. RegisteredInv'
    BY <1>18 DEF RegisteredInv, CmdInv, OwnerInv, DownInv, Ours, Alive, Resched, ScheduleRestart, Arm, Callers
  <2>5. DownInv'
    BY <1>18 DEF DownInv, OwnerInv, Resched, ScheduleRestart, Arm, Callers
  <2> QED
    BY <2>1, <2>2, <2>3, <2>4, <2>5
<1>19. ASSUME NEW p \in Procs, Listen(p) PROVE IInv'
  <2>1. LeaderInv'
    BY <1>19 DEF LeaderInv, LeaderPCs, Listen
  <2>2. CmdInv'
    BY <1>19 DEF CmdInv, LeaderInv, LeaderPCs, Alive, Listen
  <2>3. OwnerInv'
    BY <1>19 DEF OwnerInv, Listen
  <2>4. RegisteredInv'
    BY <1>19 DEF RegisteredInv, CmdInv, OwnerInv, DownInv, Ours, Alive, Listen
  <2>5. DownInv'
    BY <1>19 DEF DownInv, OwnerInv, Listen
  <2> QED
    BY <2>1, <2>2, <2>3, <2>4, <2>5
<1>20. ASSUME NEW p \in Procs, Exit(p) PROVE IInv'
  <2>1. LeaderInv'
    BY <1>20 DEF LeaderInv, LeaderPCs, Exit, Die
  <2>2. CmdInv'
    BY <1>20 DEF CmdInv, LeaderInv, LeaderPCs, Alive, Exit, Die
  <2>3. OwnerInv'
    BY <1>20 DEF OwnerInv, Exit, Die
  <2>4. RegisteredInv'
    BY <1>20 DEF RegisteredInv, CmdInv, OwnerInv, DownInv, Ours, Alive, Exit, Die
  <2>5. DownInv'
    BY <1>20 DEF DownInv, OwnerInv, Exit, Die
  <2> QED
    BY <2>1, <2>2, <2>3, <2>4, <2>5
<1>21. ASSUME NEW p \in Procs, Crash(p) PROVE IInv'
  <2>1. LeaderInv'
    BY <1>21 DEF LeaderInv, LeaderPCs, Crash, Die
  <2>2. CmdInv'
    BY <1>21 DEF CmdInv, LeaderInv, LeaderPCs, Alive, Crash, Die
  <2>3. OwnerInv'
    BY <1>21 DEF OwnerInv, Crash, Die
  <2>4. RegisteredInv'
    BY <1>21 DEF RegisteredInv, CmdInv, OwnerInv, DownInv, Ours, Alive, Crash, Die
  <2>5. DownInv'
    BY <1>21 DEF DownInv, OwnerInv, Crash, Die
  <2> QED
    BY <2>1, <2>2, <2>3, <2>4, <2>5
<1>22. ASSUME NEW p \in Procs, ChildExited(p) PROVE IInv'
  <2>1. LeaderInv'
    BY <1>22 DEF LeaderInv, LeaderPCs, ChildExited
  <2>2. CmdInv'
    BY <1>22 DEF CmdInv, LeaderInv, LeaderPCs, Alive, ChildExited
  <2>3. OwnerInv'
    BY <1>22 DEF OwnerInv, ChildExited
  <2>4. RegisteredInv'
    BY <1>22 DEF RegisteredInv, CmdInv, OwnerInv, DownInv, Ours, Alive, ChildExited
  <2>5. DownInv'
    BY <1>22 DEF DownInv, OwnerInv, ChildExited
  <2> QED
    BY <2>1, <2>2, <2>3, <2>4, <2>5
<1>23. ASSUME NEW p \in Procs, EmitLost(p) PROVE IInv'
  <2>1. LeaderInv'
    BY <1>23 DEF LeaderInv, LeaderPCs, EmitLost
  <2>2. CmdInv'
    BY <1>23 DEF CmdInv, LeaderInv, LeaderPCs, Alive, EmitLost
  <2>3. OwnerInv'
    BY <1>23 DEF OwnerInv, EmitLost
  <2>4. RegisteredInv'
    BY <1>23 DEF RegisteredInv, CmdInv, OwnerInv, DownInv, Ours, Alive, EmitLost
  <2>5. DownInv'
    BY <1>23 DEF DownInv, OwnerInv, EmitLost
  <2> QED
    BY <2>1, <2>2, <2>3, <2>4, <2>5
<1>24. ASSUME NEW p \in Procs, SetDelay(p) PROVE IInv'
  <2>1. LeaderInv'
    BY <1>24 DEF LeaderInv, LeaderPCs, SetDelay
  <2>2. CmdInv'
    BY <1>24 DEF CmdInv, LeaderInv, LeaderPCs, Alive, SetDelay
  <2>3. OwnerInv'
    BY <1>24 DEF OwnerInv, SetDelay
  <2>4. RegisteredInv'
    BY <1>24 DEF RegisteredInv, CmdInv, OwnerInv, DownInv, Ours, Alive, SetDelay
  <2>5. DownInv'
    BY <1>24 DEF DownInv, OwnerInv, SetDelay
  <2> QED
    BY <2>1, <2>2, <2>3, <2>4, <2>5
<1>25. ASSUME NEW p \in Procs, ScheduleAfterExit(p) PROVE IInv'
  <2>1. LeaderInv'
    BY <1>25 DEF LeaderInv, LeaderPCs, ScheduleAfterExit, ScheduleRestart, Arm, Callers
  <2>2. CmdInv'
    BY <1>25 DEF CmdInv, LeaderInv, LeaderPCs, Alive, ScheduleAfterExit, ScheduleRestart, Arm, Callers
  <2>3. OwnerInv'
    BY <1>25 DEF OwnerInv, ScheduleAfterExit, ScheduleRestart, Arm, Callers
  <2>4. RegisteredInv'
    BY <1>25 DEF RegisteredInv, CmdInv, OwnerInv, DownInv, Ours, Alive, ScheduleAfterExit, ScheduleRestart, Arm, Callers
  <2>5. DownInv'
    BY <1>25 DEF DownInv, OwnerInv, ScheduleAfterExit, ScheduleRestart, Arm, Callers
  <2> QED
    BY <2>1, <2>2, <2>3, <2>4, <2>5
<1>26. CASE ShutdownBegin
  <2>1. LeaderInv'
    BY <1>26 DEF LeaderInv, LeaderPCs, ShutdownBegin, Tracked
  <2>2. CmdInv'
    BY <1>26 DEF CmdInv, LeaderInv, LeaderPCs, Alive, ShutdownBegin, Tracked
  <2>3. OwnerInv'
    BY <1>26 DEF OwnerInv, ShutdownBegin, Tracked
  <2>4. RegisteredInv'
    BY <1>26 DEF RegisteredInv, CmdInv, OwnerInv, DownInv, Ours, Alive, ShutdownBegin, Tracked
  <2>5. DownInv'
    BY <1>26 DEF DownInv, OwnerInv, ShutdownBegin, Tracked
  <2> QED
    BY <2>1, <2>2, <2>3, <2>4, <2>5
<1>27. ASSUME NEW p \in Procs, ShutdownKill(p) PROVE IInv'
  <2>1. LeaderInv'
    BY <1>27 DEF LeaderInv, LeaderPCs, ShutdownKill, Kill
  <2>2. CmdInv'
    BY <1>27 DEF CmdInv, LeaderInv, LeaderPCs, Alive, ShutdownKill, Kill
  <2>3. OwnerInv'
    BY <1>27 DEF OwnerInv, ShutdownKill, Kill
  <2>4. RegisteredInv'
    BY <1>27 DEF RegisteredInv, CmdInv, OwnerInv, DownInv, Ours, Alive, ShutdownKill, Kill
  <2>5. DownInv'
    BY <1>27 DEF DownInv, OwnerInv, ShutdownKill, Kill
  <2> QED
    BY <2>1, <2>2, <2>3, <2>4, <2>5
<1>28. CASE ShutdownEnd
  <2>1. LeaderInv'
    BY <1>28 DEF LeaderInv, LeaderPCs, ShutdownEnd, Kill
  <2>2. CmdInv'
    BY <1>28 DEF CmdInv, LeaderInv, LeaderPCs, Alive, ShutdownEnd, Kill
  <2>3. OwnerInv'
    BY <1>28 DEF OwnerInv, ShutdownEnd, Kill
  <2>4. RegisteredInv'
    BY <1>28 DEF RegisteredInv, CmdInv, OwnerInv, DownInv, Ours, Alive, ShutdownEnd, Kill
  <2>5. DownInv'
    BY <1>28 DEF DownInv, OwnerInv, ShutdownEnd, Kill
  <2> QED
    BY <2>1, <2>2, <2>3, <2>4, <2>5
<1>29. CASE UNCHANGED vars
  BY <1>29 DEF vars, LeaderInv, CmdInv, OwnerInv, RegisteredInv, DownInv,
         Ours, Alive
<1> QED
  BY <1>1, <1>2, <1>3, <1>4, <1>5, <1>6, <1>7, <1>8, <1>9, <1>10, <1>11, <1>12, <1>13, <1>14, <1>15, <1>16, <1>17, <1>18, <1>19, <1>20, <1>21, <1>22, <1>23, <1>24, <1>25, <1>26, <1>27, <1>28, <1>29, NextCases

\* The invariant holds in every reachable state.
LEMMA Invariance == Spec => []IInv
<1>1. TypeOK /\ IInv /\ [Next]_vars => IInv'
  BY NextIInv
<1> QED
  BY <1>1, InitIInv, TypeCorrect, PTL DEF Spec

-----------------------------------------------------------------------------
\* A service is never served twice: whatever the interleaving of callers,
\* timers, crashes and Shutdown, at most one process that this session
\* started for a service runs without having been told to exit.
THEOREM ServedOnce == Spec => []SingleServer
<1>1. IInv => SingleServer
  <2> SUFFICES ASSUME IInv,
                      NEW p \in Procs, NEW q \in Procs,
                      Owner[p] = Owner[q],
                      Ours(p), Alive(p), ~killed[p],
                      Ours(q), Alive(q), ~killed[q]
               PROVE  p = q
    BY DEF SingleServer
  <2>1. /\ spawned[Owner[p]] = p \/ p \in toKill
        /\ spawned[Owner[q]] = q \/ q \in toKill
    BY DEF IInv, RegisteredInv
  <2>2. CASE ~shuttingDown
    BY <2>1, <2>2 DEF IInv, DownInv
  <2>3. CASE shuttingDown
    BY <2>1, <2>3, OwnerType, NoProcIsNone DEF IInv, DownInv
  <2> QED
    BY <2>2, <2>3
<1> QED
  BY <1>1, Invariance, PTL

\* Shutdown leaves no child behind.
THEOREM NoOrphan == Spec => []ShutdownLeavesNoOrphan
<1>1. IInv => ShutdownLeavesNoOrphan
  BY OwnerType, NoProcIsNone
  DEF IInv, RegisteredInv, DownInv, ShutdownLeavesNoOrphan
<1> QED
  BY <1>1, Invariance, PTL

\* After Shutdown has begun no step of any actor starts a process.
THEOREM NoLateSpawn == Spec => NoSpawnAfterShutdown
<1>1. TypeOK /\ [Next]_vars =>
        [shuttingDown => \A p \in Procs : Alive(p)' => Alive(p)]_vars
  <2> SUFFICES ASSUME TypeOK, Next, shuttingDown, NEW p \in Procs, Alive(p)'
               PROVE  Alive(p)
    OBVIOUS
  <2> USE DEF Alive
  <2>1. ASSUME NEW x \in Clients, Call(x) PROVE Alive(p)
    BY <2>1 DEF Call, EnterEnsure, Goto, TypeOK
  <2>2. ASSUME NEW x \in Clients, Return(x) PROVE Alive(p)
    BY <2>2 DEF Return, Goto, TypeOK
  <2>3. ASSUME NEW x \in Callers, Join(x) PROVE Alive(p)
    BY <2>3 DEF Join, Goto, TypeOK
  <2>4. ASSUME NEW x \in Callers, One(x) PROVE Alive(p)
    BY <2>4 DEF One, Finish, Goto, TypeOK
  <2>5. ASSUME NEW x \in Callers, Probe(x) PROVE Alive(p)
    BY <2>5 DEF Probe, Goto, TypeOK
  <2>6. ASSUME NEW x \in Callers, Holder(x) PROVE Alive(p)
    BY <2>6 DEF Holder, Finish, Goto, TypeOK
  <2>7. ASSUME NEW x \in Callers, Evict(x) PROVE Alive(p)
    BY <2>7 DEF Evict, Kill, Goto, TypeOK
  <2>8. ASSUME NEW x \in Callers, Evicted(x) PROVE Alive(p)
    BY <2>8 DEF Evicted, Forget, Goto, TypeOK
  <2>9. ASSUME NEW x \in Callers, Lookup(x) PROVE Alive(p)
    BY <2>9 DEF Lookup, Goto, TypeOK
  <2>10. ASSUME NEW x \in Callers, Inspect(x) PROVE Alive(p)
    BY <2>10 DEF Inspect, Kill, Goto, TypeOK
  <2>11. ASSUME NEW x \in Callers, Replace(x) PROVE Alive(p)
    BY <2>11 DEF Replace, Forget, Goto, TypeOK
  <2>12. ASSUME NEW x \in Callers, Start(x) PROVE Alive(p)
    BY <2>12 DEF Start, Spawn, StartFails, Finish, Goto, TypeOK
  <2>13. ASSUME NEW x \in Callers, WaitPipe(x) PROVE Alive(p)
    BY <2>13 DEF WaitPipe, Finish, TypeOK
  <2>14. ASSUME NEW x \in Timers, Fire(x) PROVE Alive(p)
    BY <2>14 DEF Fire, Goto, TypeOK
  <2>15. ASSUME NEW x \in Timers, Claim(x) PROVE Alive(p)
    BY <2>15 DEF Claim, Goto, TypeOK
  <2>16. ASSUME NEW x \in Timers, RespawnEnsure(x) PROVE Alive(p)
    BY <2>16 DEF RespawnEnsure, EnterEnsure, Goto, TypeOK
  <2>17. ASSUME NEW x \in Timers, RespawnResult(x) PROVE Alive(p)
    BY <2>17 DEF RespawnResult, Goto, TypeOK
  <2>18. ASSUME NEW x \in Timers, Resched(x) PROVE Alive(p)
    BY <2>18 DEF Resched, ScheduleRestart, Arm, TypeOK
  <2>19. ASSUME NEW x \in Procs, Listen(x) PROVE Alive(p)
    BY <2>19 DEF Listen, TypeOK
  <2>20. ASSUME NEW x \in Procs, Exit(x) PROVE Alive(p)
    BY <2>20 DEF Exit, Die, TypeOK
  <2>21. ASSUME NEW x \in Procs, Crash(x) PROVE Alive(p)
    BY <2>21 DEF Crash, Die, TypeOK
  <2>22. ASSUME NEW x \in Procs, ChildExited(x) PROVE Alive(p)
    BY <2>22 DEF ChildExited, TypeOK
  <2>23. ASSUME NEW x \in Procs, EmitLost(x) PROVE Alive(p)
    BY <2>23 DEF EmitLost, TypeOK
  <2>24. ASSUME NEW x \in Procs, SetDelay(x) PROVE Alive(p)
    BY <2>24 DEF SetDelay, TypeOK
  <2>25. ASSUME NEW x \in Procs, ScheduleAfterExit(x) PROVE Alive(p)
    BY <2>25 DEF ScheduleAfterExit, ScheduleRestart, Arm, TypeOK
  <2>26. CASE ShutdownBegin
    BY <2>26 DEF ShutdownBegin, Tracked
  <2>27. ASSUME NEW x \in Procs, ShutdownKill(x) PROVE Alive(p)
    BY <2>27 DEF ShutdownKill, Kill, TypeOK
  <2>28. CASE ShutdownEnd
    BY <2>28 DEF ShutdownEnd, Kill
  <2> QED
    BY <2>1, <2>2, <2>3, <2>4, <2>5, <2>6, <2>7, <2>8, <2>9, <2>10, <2>11, <2>12, <2>13, <2>14, <2>15, <2>16, <2>17, <2>18, <2>19, <2>20, <2>21, <2>22, <2>23, <2>24, <2>25, <2>26, <2>27, <2>28, NextCases
<1> QED
  BY <1>1, TypeCorrect, PTL DEF Spec, NoSpawnAfterShutdown
=============================================================================
