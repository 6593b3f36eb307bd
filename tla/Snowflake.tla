------------------------------ MODULE Snowflake ------------------------------
(***************************************************************************)
(* The generator of identifiers (platform/internal/idgen; every service has *)
(* a copy): a millisecond, a worker and a sequence number in one integer.  *)
(* The clock is the wall clock: it may be set back at any time, and a      *)
(* process that starts again remembers nothing of the last one.            *)
(*                                                                         *)
(* NextID holds a mutex, so a step is a call of it, but for the call that  *)
(* waits for the next millisecond: it keeps the others out meanwhile.      *)
(***************************************************************************)
EXTENDS Integers, Sequences

CONSTANTS
    SequenceCount,  \* sequence numbers of a millisecond, 2 ^ sequenceBits
    WorkerCount,    \* 2 ^ workerBits
    workerID,
    MaxClock,       \* bound: the last millisecond
    MaxIds          \* bound: how many ids are issued

ASSUME SnowflakeAssumption ==
    /\ SequenceCount \in Nat \ {0} /\ WorkerCount \in Nat \ {0}
    /\ workerID \in 0..(WorkerCount - 1)
    /\ MaxClock \in Nat /\ MaxIds \in Nat

VARIABLES
    clock,          \* milliseconds since the epoch of the ids
    lastMilli,      \* of the generator, forgotten by a restart
    sequence,
    spinning,       \* a call waits for the next millisecond
    ids,            \* history: what was issued, by this process and those before
    stamped,        \* history: the millisecond of the last id
    overtaken       \* history: a process has started, and before its first id
                    \* the clock has shown the millisecond of an older one

idVars == <<clock, lastMilli, sequence, spinning, ids, stamped, overtaken>>

\* lastMilli's zero value, which is before every time.
Never == -1

Id(milli, seq) == (milli * WorkerCount + workerID) * SequenceCount + seq

IdInit ==
    /\ clock \in 0..MaxClock
    /\ lastMilli = Never /\ sequence = 0 /\ spinning = FALSE
    /\ ids = <<>> /\ stamped = Never /\ overtaken = FALSE

-----------------------------------------------------------------------------
Issue(milli, seq) ==
    /\ Len(ids) < MaxIds
    /\ lastMilli' = milli
    /\ sequence' = seq
    /\ ids' = Append(ids, Id(milli, seq))
    /\ stamped' = milli
    /\ spinning' = FALSE
    /\ UNCHANGED <<clock, overtaken>>

\* The mask of the sequence number.
NextSequence == (sequence + 1) % SequenceCount

\* A clock that is behind lastMilli is refused (ErrClockBackwards).
NextMilli ==
    /\ ~spinning /\ clock > lastMilli
    /\ Issue(clock, 0)

SameMilli ==
    /\ ~spinning /\ clock = lastMilli /\ NextSequence # 0
    /\ Issue(clock, NextSequence)

Exhausted ==
    /\ ~spinning /\ clock = lastMilli /\ NextSequence = 0
    /\ sequence' = 0 /\ spinning' = TRUE
    /\ UNCHANGED <<clock, lastMilli, ids, stamped, overtaken>>

\* Mutant: the wait ends a millisecond early.
TimeIsUp == clock >= lastMilli

\* The end of the loop's wait.
TimePasses == clock > lastMilli

SpinEnds ==
    /\ spinning /\ TimePasses
    /\ Issue(clock, 0)

\* The clock runs on, or is set, by any amount.
SetClock ==
    /\ clock' \in 0..MaxClock
    /\ overtaken' = (overtaken \/ (lastMilli = Never /\ clock' <= stamped))
    /\ UNCHANGED <<lastMilli, sequence, spinning, ids, stamped>>

\* The process ends, in a crash or not, and is started again.
Restart ==
    /\ lastMilli' = Never /\ sequence' = 0 /\ spinning' = FALSE
    /\ overtaken' = (overtaken \/ clock <= stamped)
    /\ UNCHANGED <<clock, ids, stamped>>

IdNext == NextMilli \/ SameMilli \/ Exhausted \/ SpinEnds \/ SetClock \/ Restart

IdSpec == IdInit /\ [][IdNext]_idVars

-----------------------------------------------------------------------------
(* Properties.                                                             *)

\* Every id is greater than all before it, so they are unique, when a
\* millisecond's numbers run out, when the clock is set back while the process
\* runs or waits, and over restarts, unless the clock was set back so far that a
\* new process found it at or before the last id.
IdsIncrease ==
    ~overtaken => \A i, j \in DOMAIN ids : i < j => ids[i] < ids[j]
=============================================================================
