----------------------------- MODULE MCAgentRun -----------------------------
(* Instances of AgentRun for TLC.                                          *)
EXTENDS AgentRun, TLC

\* Runs and invocations are interchangeable.
Interchangeable == Permutations(Runs) \cup Permutations(Invs)

\* With two runs at most one is cancelled: what two Cancels do at once
\* touches nothing they share.
OneCancel == Cardinality({r \in Runs : cpc[r] # "idle"}) <= 1

\* An invocation is missed only while one run is there: a run's rows, and the
\* statements that close them, are its own.
MissedAlone == missed = {} \/ Cardinality({r \in Runs : rpc[r] # "none"}) <= 1

OneCancelSpec == Init /\ [][Next /\ OneCancel' /\ MissedAlone']_vars
=============================================================================
