---------------------------- MODULE MCSupervisor ----------------------------
(* Instances of Supervisor for TLC.                                        *)
EXTENDS Supervisor, TLC

CONSTANTS s1

OneService == [p \in Procs |-> s1]

\* Clients, timers and processes that are not left over are interchangeable.
Interchangeable ==
    Permutations(Procs \ Legacy) \cup Permutations(Clients)
    \cup Permutations(Timers)

\* The code starts as many goroutines as it needs; an instance has
\* Cardinality(Timers).  For liveness a process crashes only while there is
\* one left for its restart, so that no goroutine waits for an identity: with
\* two, a process may crash while the restart of another is pending or runs,
\* and the next one waits until either is over.
RestartsPending ==
    {p \in Procs : watch[p] \in {"emitTracked", "setDelay", "schedule"}}

TimerInReserve ==
    Cardinality(RestartsPending) < Cardinality({t \in Timers : pc[t] = "idle"})

CrashesWithinBounds ==
    (\E p \in Procs : Crash(p)) => TimerInReserve

BoundedFairSpec ==
    Init /\ [][Next /\ CrashesWithinBounds]_vars /\ Fairness
=============================================================================
