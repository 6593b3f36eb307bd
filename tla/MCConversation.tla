---------------------------- MODULE MCConversation ----------------------------
(* Small instances of the two places that keep AI conversations: the store *)
(* (Conversation) and the panel (AiPanel).  The platform joins them only   *)
(* by what AiPanel says of it and they share no state here, so a behaviour *)
(* is one of either: `part` is chosen initially and the other stands still. *)
(*                                                                         *)
(* The panel has two conversations; a budget says how often the user       *)
(* sends, opens, stops and deletes, how often a run speaks and how many    *)
(* calls fail.                                                             *)
EXTENDS AiPanel, Conversation, TLC

CONSTANTS c1, c2    \* the conversations

VARIABLE part

MCConversations == {c1, c2}

Budget(amount) ==
    [class \in Classes |-> IF class \in DOMAIN amount THEN amount[class] ELSE 0]

MCBudgets == {Budget(amount) : amount \in {
    <<"send">> :> 2 @@ <<"open", c1>> :> 1 @@ <<"stop">> :> 1 @@ <<"speak">> :> 1,
    <<"send">> :> 2 @@ <<"open", c1>> :> 1 @@ <<"fail">> :> 1 @@ <<"speak">> :> 1,
    <<"send">> :> 2 @@ <<"open", c1>> :> 1 @@ <<"fail">> :> 2,
    <<"send">> :> 1 @@ <<"open", c1>> :> 2 @@ <<"open", c2>> :> 1 @@ <<"fail">> :> 1,
    <<"send">> :> 1 @@ <<"open", c1>> :> 1 @@ <<"open", c2>> :> 1 @@ <<"stop">> :> 1,
    <<"send">> :> 1 @@ <<"open", c1>> :> 1 @@ <<"open", c2>> :> 1 @@ <<"remove", c1>> :> 1,
    <<"send">> :> 1 @@ <<"open", c1>> :> 1 @@ <<"remove", c1>> :> 1 @@ <<"stop">> :> 1 @@ <<"fail">> :> 1}}

BothInit ==
    /\ part \in {"store", "panel"}
    /\ StoreInit
    /\ Init
    /\ part = "store" => budget = CHOOSE b \in Budgets : TRUE

BothNext ==
    /\ UNCHANGED part
    /\ \/ part = "store" /\ StoreNext /\ UNCHANGED vars
       \/ part = "panel" /\ Next /\ UNCHANGED storeVars

BothSpec == BothInit /\ [][BothNext]_<<part, vars, storeVars>>
=============================================================================
