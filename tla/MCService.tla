------------------------------ MODULE MCService ------------------------------
(* Small instances of three things a capability service keeps: the way of  *)
(* its events to the shell (EventBus), a database session (SqlSession) and *)
(* its generator of ids (Snowflake).  They share no state, so a behaviour  *)
(* is one of them: `part` is chosen initially and the others stand still.   *)
EXTENDS EventBus, SqlSession, Snowflake, TLC

CONSTANTS ftp

VARIABLE part

OneSource == [k \in Streams |-> ftp]

Interchangeable == Permutations(Statements) \cup Permutations(Conns) \cup Permutations(Handlers)

ServiceInit ==
    /\ part \in {"events", "sql", "ids"}
    /\ Init /\ SqlInit /\ IdInit
    /\ part # "ids" => clock = 0

ServiceNext ==
    /\ UNCHANGED part
    /\ \/ part = "events" /\ Next /\ UNCHANGED <<sqlVars, idVars>>
       \/ part = "sql" /\ SqlNext /\ UNCHANGED <<vars, idVars>>
       \/ part = "ids" /\ IdNext /\ UNCHANGED <<vars, sqlVars>>

ServiceSpec == ServiceInit /\ [][ServiceNext]_<<part, vars, sqlVars, idVars>>
=============================================================================
