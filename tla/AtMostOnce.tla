----------------------------- MODULE AtMostOnce -----------------------------
(***************************************************************************)
(* What a call over the application IPC promises (docs/03-ipc-protocol.md, *)
(* packages/go/serviceipc/client): a request is executed at most once,     *)
(* and a caller that gets an answer gets the answer to its own request.    *)
(* A call may fail at any time; whether its request was, or will be,       *)
(* executed is then unknown.                                               *)
(***************************************************************************)
EXTENDS Naturals

CONSTANTS Reqs, NoReq

VARIABLES
    status,     \* [request -> where its call is]
    runs,       \* [request -> times it was executed]
    answer      \* [request -> the request whose answer was returned]

vars == <<status, runs, answer>>

Init ==
    /\ status = [r \in Reqs |-> "idle"]
    /\ runs = [r \in Reqs |-> 0]
    /\ answer = [r \in Reqs |-> NoReq]

Call(r) ==
    /\ status[r] = "idle"
    /\ status' = [status EXCEPT ![r] = "called"]
    /\ UNCHANGED <<runs, answer>>

Execute(r) ==
    /\ status[r] \in {"called", "failed"}
    /\ runs[r] = 0
    /\ runs' = [runs EXCEPT ![r] = 1]
    /\ UNCHANGED <<status, answer>>

Answer(r) ==
    /\ status[r] = "called"
    /\ runs[r] = 1
    /\ status' = [status EXCEPT ![r] = "answered"]
    /\ answer' = [answer EXCEPT ![r] = r]
    /\ UNCHANGED runs

Fail(r) ==
    /\ status[r] = "called"
    /\ status' = [status EXCEPT ![r] = "failed"]
    /\ UNCHANGED <<runs, answer>>

Next == \E r \in Reqs : Call(r) \/ Execute(r) \/ Answer(r) \/ Fail(r)

Spec == Init /\ [][Next]_vars
=============================================================================
