----------------------------- MODULE MCEventBus -----------------------------
(* Instances of EventBus for TLC.                                          *)
EXTENDS EventBus, TLC

CONSTANTS ftp

OneSource == [k \in Streams |-> ftp]

Interchangeable == Permutations(Sinks) \cup Permutations(Flushers)
=============================================================================
