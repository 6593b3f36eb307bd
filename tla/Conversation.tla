---------------------------- MODULE Conversation ----------------------------
(***************************************************************************)
(* The stored messages and tool invocations of one AI conversation         *)
(* (platform/internal/store/ai_conversation.go), as the chat service       *)
(* writes, lists and cuts them off (platform/internal/ai/loop/chat.go).    *)
(*                                                                         *)
(* Rows are ordered by created_at, a text.  User and tool messages carry   *)
(* time.RFC3339, assistant messages and invocations time.RFC3339Nano.      *)
(* The model keeps of a text what its comparison sees.                     *)
(***************************************************************************)
EXTENDS Integers, FiniteSets

CONSTANTS
    Base,           \* number of digits; a second has Base * Base instants
    MaxTime,        \* bound: the last instant
    MaxMessages     \* bound: how many messages are ever written

ASSUME ConversationAssumption ==
    /\ Base \in Nat /\ Base >= 2
    /\ MaxTime \in Nat /\ MaxMessages \in Nat

VARIABLES
    now,            \* the clock
    count,          \* messages written so far; their row ids
    messages,       \* nm_ai_message
    invocations,    \* nm_ai_tool_invocation
    cut             \* the RPC that is cutting the conversation, if any

storeVars == <<now, count, messages, invocations, cut>>

-----------------------------------------------------------------------------
(* Timestamps.                                                             *)

Second(t) == t \div (Base * Base)

\* The fraction of RFC3339Nano as two digits.  Trailing zeros are left out;
\* the Z that then follows is greater than every digit.
Z == Base
FractionRank(f) ==
    LET d1 == f \div Base
        d2 == f % Base
        digit1 == IF d1 = 0 /\ d2 = 0 THEN Z ELSE d1
        digit2 == IF d2 = 0 THEN Z ELSE d2
    IN  digit1 * (Base + 1) + digit2

\* Texts compare like these numbers: the second, then the fraction.
Stamp(second, f) == second * (Base + 1) * (Base + 1) + FractionRank(f)

\* Mutant: rounded to the next second.
StampRounded(t) == Stamp(Second(t + Base * Base - 1), 0)

StampRFC3339(t)     == Stamp(Second(t), 0)
StampRFC3339Nano(t) == Stamp(Second(t), t % (Base * Base))

-----------------------------------------------------------------------------
Idle == [op |-> "none"]

StoreTypeOK ==
    /\ now \in 0..MaxTime
    /\ count \in 0..MaxMessages
    /\ \A m \in messages :
         /\ m.id \in 1..count /\ m.role \in {"user", "assistant", "tool"}
         /\ m.at \in 0..now
    /\ \A m, n \in messages : m.id = n.id => m = n
    /\ \A c \in invocations : c.at \in 0..now
    /\ cut.op \in {"none", "regenerate", "edit"}

StoreInit ==
    /\ now = 0
    /\ count = 0
    /\ messages = {}
    /\ invocations = {}
    /\ cut = Idle

Tick ==
    /\ now < MaxTime
    /\ now' = now + 1
    /\ UNCHANGED <<count, messages, invocations, cut>>

\* ORDER BY created_at; equal texts in the order of their row ids.
Before(m, n) == m.stamp < n.stamp \/ (m.stamp = n.stamp /\ m.id < n.id)

-----------------------------------------------------------------------------
\* Mutant: the id of the message before is used again.
AppendSameId(role, stamp) ==
    /\ count < MaxMessages
    /\ count' = IF count = 0 THEN 1 ELSE count
    /\ messages' = messages \cup
         {[id |-> count', role |-> role, at |-> now, stamp |-> stamp]}

\* AppendMessage, with a fresh id.
AppendMessage(role, stamp) ==
    /\ count < MaxMessages
    /\ count' = count + 1
    /\ messages' = messages \cup
         {[id |-> count + 1, role |-> role, at |-> now, stamp |-> stamp]}

\* StartStream writes the user's message.
Ask ==
    /\ AppendMessage("user", StampRFC3339(now))
    /\ UNCHANGED <<now, invocations, cut>>

\* commitAssistant, by the run of an earlier message.
Answer ==
    /\ count > 0
    /\ AppendMessage("assistant", StampRFC3339Nano(now))
    /\ UNCHANGED <<now, invocations, cut>>

\* A tool call of a run: the invocation, ...
Invoke ==
    /\ count > 0
    /\ invocations' = invocations \cup {[at |-> now, stamp |-> StampRFC3339Nano(now)]}
    /\ UNCHANGED <<now, count, messages, cut>>

\* ... and its result as a message.
ToolResult ==
    /\ invocations # {}
    /\ AppendMessage("tool", StampRFC3339(now))
    /\ UNCHANGED <<now, invocations, cut>>

\* startRegenerate: the last user message listed before m is the prompt.
Prompts(m) == {u \in messages : u.role = "user" /\ Before(u, m)}

Regenerate(m) ==
    /\ cut = Idle
    /\ m.role = "assistant"
    /\ \E u \in Prompts(m) :
         /\ \A v \in Prompts(m) : v = u \/ Before(v, u)
         /\ cut' = [op |-> "regenerate", target |-> m, prompt |-> u,
                    left |-> "messages"]
    /\ UNCHANGED <<now, count, messages, invocations>>

Edit(m) ==
    /\ cut = Idle
    /\ m.role = "user"
    /\ cut' = [op |-> "edit", target |-> m, prompt |-> m, left |-> "messages"]
    /\ UNCHANGED <<now, count, messages, invocations>>

\* Mutant: the message itself stays.
DeleteMessagesAfter ==
    /\ cut # Idle /\ cut.left = "messages"
    /\ messages' = {m \in messages : m.stamp <= cut.target.stamp}
    /\ cut' = [cut EXCEPT !.left = "invocations"]
    /\ UNCHANGED <<now, count, invocations>>

\* DeleteMessagesFrom: two statements, no transaction.
DeleteMessages ==
    /\ cut # Idle /\ cut.left = "messages"
    /\ messages' = {m \in messages : m.stamp < cut.target.stamp}
    /\ cut' = [cut EXCEPT !.left = "invocations"]
    /\ UNCHANGED <<now, count, invocations>>

DeleteCalls ==
    /\ cut # Idle /\ cut.left = "invocations"
    /\ invocations' = {c \in invocations : c.stamp < cut.target.stamp}
    /\ cut' = IF cut.op = "edit" THEN [cut EXCEPT !.left = "append"] ELSE Idle
    /\ UNCHANGED <<now, count, messages>>

\* startEdit writes the new text as a new message.
AppendEdited ==
    /\ cut # Idle /\ cut.left = "append"
    /\ AppendMessage("user", StampRFC3339(now))
    /\ cut' = Idle
    /\ UNCHANGED <<now, invocations>>

\* The platform exits, or a statement fails, between two of them.
Abort ==
    /\ cut # Idle
    /\ cut' = Idle
    /\ UNCHANGED <<now, count, messages, invocations>>

StoreNext ==
    \/ Tick \/ Ask \/ Answer \/ Invoke \/ ToolResult
    \/ \E m \in messages : Regenerate(m) \/ Edit(m)
    \/ DeleteMessages \/ DeleteCalls \/ AppendEdited \/ Abort

StoreSpec == StoreInit /\ [][StoreNext]_storeVars

-----------------------------------------------------------------------------
(* Properties.                                                             *)

Earlier(m, n) == Second(m.at) < Second(n.at)

\* Messages of different seconds are listed in the order they were written,
\* whatever the formats of their timestamps.
SecondsInOrder ==
    \A m, n \in messages : Earlier(m, n) => Before(m, n)

\* Cutting a conversation at a message removes it and every message of a
\* later second, and keeps every message of an earlier one.
CutRespectsSeconds ==
    [][messages' \subseteq messages /\ messages' # messages =>
        \A m \in messages :
            /\ Earlier(m, cut.target) => m \in messages'
            /\ m = cut.target \/ Earlier(cut.target, m) => m \notin messages']_storeVars

-----------------------------------------------------------------------------
(* What a comment says and the code does not do.                           *)

\* "deletes the given assistant message and those after it and runs again
\* from the user message before it" (loop/chat.go:174): that user message is
\* still there.
RegenerateKeepsPrompt ==
    [][cut.op = "regenerate" /\ messages' # messages /\ cut'.op = "regenerate"
        /\ cut.prompt \in messages => cut.prompt \in messages']_storeVars
=============================================================================
