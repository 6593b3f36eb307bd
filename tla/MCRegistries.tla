---------------------------- MODULE MCRegistries ----------------------------
(* Small instances of two registries whose entries must go some day: the   *)
(* sessions of the web shell (SessionRegistry) and the agent's runs        *)
(* (AgentRun).  They share no state, so a behaviour is one of them: `part` *)
(* is chosen initially and the other stands still, where no action that is *)
(* fair can be taken.                                                      *)
EXTENDS MCSessionRegistry, AgentRun

VARIABLE part

RegistriesInit ==
    /\ part \in {"sessions", "runs"}
    /\ SessionInit /\ Init
    /\ part = "runs" => kind = "ssh"

\* Failing statements of the store leave at most one invocation open or
\* unannounced: what the loop and Cancel do next does not depend on it.
MissedOnce == Cardinality(missed) <= 1

RegistriesNext ==
    /\ UNCHANGED part
    /\ \/ part = "sessions" /\ SessionNext /\ UNCHANGED vars
       \/ part = "runs" /\ Next /\ MissedOnce' /\ UNCHANGED sessionVars

RegistriesSpec ==
    /\ RegistriesInit /\ [][RegistriesNext]_<<part, vars, sessionVars>>
    /\ SessionFairness /\ Fairness
=============================================================================
