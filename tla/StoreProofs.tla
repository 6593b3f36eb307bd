---------------------------- MODULE StoreProofs ----------------------------
(* Proofs about what the platform stores and how it numbers it: about      *)
(* Conversation, for any base, clock and number of messages, and about     *)
(* Snowflake, for any numbers of sequence numbers and workers, and any     *)
(* bounds of the clock and of the ids.                                     *)
EXTENDS Conversation, Snowflake, TLAPS

-----------------------------------------------------------------------------
(* Timestamps of messages.                                                 *)

LEMMA DivBase ==
    ASSUME NEW b \in Nat, b >= 1, NEW f \in Nat
    PROVE  f \div b \in Nat /\ f % b \in 0..(b - 1) /\ b * (f \div b) <= f
OBVIOUS

LEMMA SecondType ==
    ASSUME NEW t \in Nat
    PROVE  Second(t) \in Nat /\ t % (Base * Base) \in 0..(Base * Base - 1)
<1>1. Base \in Nat /\ Base >= 2
    BY ConversationAssumption
<1>2. Base * Base \in Nat /\ Base * Base >= 1
    BY <1>1
<1>. QED  BY <1>2, DivBase DEF Second

\* A fraction's two digits, with the Z for one that is left out.
LEMMA FractionBounds ==
    ASSUME NEW f \in 0..(Base * Base - 1)
    PROVE  FractionRank(f) \in 0..((Base + 1) * (Base + 1) - 1)
<1>1. Base \in Nat /\ Base >= 2
    BY ConversationAssumption
<1>. DEFINE d1 == f \div Base
            d2 == f % Base
<1>2. f \in Nat /\ d1 \in Nat /\ d2 \in 0..(Base - 1) /\ Base * d1 <= f
    <2>1. f \in Nat /\ Base >= 1
        BY <1>1
    <2>2. \A b, g \in Nat : b >= 1 => g \div b \in Nat /\ g % b \in 0..(b - 1) /\ b * (g \div b) <= g
        BY DivBase
    <2>. QED  BY <1>1, <2>1, <2>2
<1>3. d1 <= Base - 1
    BY <1>1, <1>2
<1>. DEFINE digit1 == IF d1 = 0 /\ d2 = 0 THEN Z ELSE d1
            digit2 == IF d2 = 0 THEN Z ELSE d2
<1>4. digit1 \in 0..Base /\ digit2 \in 0..Base
    BY <1>1, <1>2, <1>3 DEF Z
<1>5. FractionRank(f) = digit1 * (Base + 1) + digit2
    BY DEF FractionRank
<1>. HIDE DEF digit1, digit2
<1>6. digit1 * (Base + 1) \in Nat /\ digit1 * (Base + 1) <= Base * (Base + 1)
    BY <1>1, <1>4
<1>7. Base * (Base + 1) + Base = (Base + 1) * (Base + 1) - 1
    BY <1>1
<1>. QED  BY <1>1, <1>4, <1>5, <1>6, <1>7

\* A text of an earlier second is smaller, whatever the fractions.
LEMMA SecondsCompare ==
    ASSUME NEW s \in Nat, NEW r \in Nat, s < r,
           NEW f \in 0..(Base * Base - 1), NEW g \in 0..(Base * Base - 1)
    PROVE  Stamp(s, f) < Stamp(r, g)
<1>1. Base \in Nat
    BY ConversationAssumption
<1>. DEFINE w == (Base + 1) * (Base + 1)
<1>2. w \in Nat /\ FractionRank(f) \in 0..(w - 1) /\ FractionRank(g) \in 0..(w - 1)
    BY <1>1, FractionBounds
<1>3. Stamp(s, f) = s * w + FractionRank(f) /\ Stamp(r, g) = r * w + FractionRank(g)
    BY <1>1 DEF Stamp
<1>. HIDE DEF w
<1>4. (s + 1) * w <= r * w /\ (s + 1) * w = s * w + w /\ s * w \in Nat /\ r * w \in Nat
    BY <1>2
<1>. QED  BY <1>2, <1>3, <1>4

-----------------------------------------------------------------------------
(* Types, and what each stamp is made of.                                  *)

\* The stamp of a row is of the second in which it was written.
Stamped(row) ==
    row.at \in Nat /\ \E f \in 0..(Base * Base - 1) : row.stamp = Stamp(Second(row.at), f)

StampInv ==
    /\ \A m \in messages : Stamped(m)
    /\ cut = Idle \/ Stamped(cut.target)

LEMMA StampsOfNow ==
    ASSUME now \in Nat, NEW stamp \in {StampRFC3339(now), StampRFC3339Nano(now)},
           NEW row, row.at = now, row.stamp = stamp
    PROVE  Stamped(row)
<1>1. Base \in Nat /\ Base >= 2
    BY ConversationAssumption
<1>2. Base * Base \in Nat /\ Base * Base >= 1
    BY <1>1
<1>3. 0 \in 0..(Base * Base - 1)
    BY <1>2
<1>4. now % (Base * Base) \in 0..(Base * Base - 1)
    BY SecondType
<1>. QED  BY <1>3, <1>4 DEF Stamped, StampRFC3339, StampRFC3339Nano

LEMMA StampedOrder ==
    ASSUME NEW m, NEW n, Stamped(m), Stamped(n), Earlier(m, n)
    PROVE  m.stamp < n.stamp
<1>1. Second(m.at) \in Nat /\ Second(n.at) \in Nat /\ Second(m.at) < Second(n.at)
    BY SecondType DEF Stamped, Earlier
<1>. QED  BY <1>1, SecondsCompare DEF Stamped

\* A new message has a fresh id and the time of its writing.
LEMMA AppendTypes ==
    ASSUME StoreTypeOK, StampInv, NEW role \in {"user", "assistant", "tool"},
           NEW stamp \in {StampRFC3339(now), StampRFC3339Nano(now)},
           AppendMessage(role, stamp), UNCHANGED <<now, invocations>>, cut' \in {cut, Idle}
    PROVE  StoreTypeOK' /\ StampInv'
<1>. DEFINE new == [id |-> count + 1, role |-> role, at |-> now, stamp |-> stamp]
<1>1. now \in Nat /\ now \in 0..MaxTime /\ count \in 0..MaxMessages /\ MaxMessages \in Nat /\ MaxTime \in Nat
    BY ConversationAssumption DEF StoreTypeOK
<1>2. count' = count + 1 /\ count' \in 0..MaxMessages /\ messages' = messages \cup {new}
    BY <1>1 DEF AppendMessage
<1>3. new.id = count + 1 /\ new.role = role /\ new.at = now /\ new.stamp = stamp
    OBVIOUS
<1>4. Stamped(new)
    BY <1>1, <1>3, StampsOfNow
<1>. HIDE DEF new
<1>5. \A m \in messages' : m.id \in 1..count' /\ m.role \in {"user", "assistant", "tool"} /\ m.at \in 0..now
    BY <1>1, <1>2, <1>3 DEF StoreTypeOK
<1>6. \A m, n \in messages' : m.id = n.id => m = n
    BY <1>1, <1>2, <1>3 DEF StoreTypeOK
<1>7. StoreTypeOK'
    BY <1>1, <1>2, <1>5, <1>6 DEF StoreTypeOK, Idle
<1>8. StampInv'
    BY <1>2, <1>4 DEF StampInv, Stamped, Idle
<1>. QED  BY <1>7, <1>8

LEMMA StoreBegins == StoreInit => StoreTypeOK /\ StampInv
BY ConversationAssumption DEF StoreInit, StoreTypeOK, StampInv, Idle

LEMMA StoreSteps == StoreTypeOK /\ StampInv /\ [StoreNext]_storeVars => (StoreTypeOK /\ StampInv)'
<1>. SUFFICES ASSUME StoreTypeOK, StampInv, [StoreNext]_storeVars PROVE StoreTypeOK' /\ StampInv'
    OBVIOUS
<1>1. CASE Tick
    <2>1. now \in Nat /\ now' = now + 1 /\ now' \in 0..MaxTime
        BY <1>1, ConversationAssumption DEF Tick, StoreTypeOK
    <2>2. StoreTypeOK'
        BY <1>1, <2>1 DEF Tick, StoreTypeOK
    <2>3. StampInv'
        BY <1>1 DEF Tick, StampInv, Stamped
    <2>. QED  BY <2>2, <2>3
<1>2. CASE Ask
    BY <1>2, AppendTypes DEF Ask
<1>3. CASE Answer
    BY <1>3, AppendTypes DEF Answer
<1>4. CASE Invoke
    BY <1>4, ConversationAssumption DEF Invoke, StoreTypeOK, StampInv, Stamped
<1>5. CASE ToolResult
    BY <1>5, AppendTypes DEF ToolResult
<1>6. ASSUME NEW m \in messages, Regenerate(m) PROVE StoreTypeOK' /\ StampInv'
    <2>1. PICK u : cut' = [op |-> "regenerate", target |-> m, prompt |-> u, left |-> "messages"]
        BY <1>6 DEF Regenerate
    <2>2. cut'.op = "regenerate" /\ cut'.target = m
        BY <2>1
    <2>3. StoreTypeOK'
        BY <1>6, <2>2 DEF Regenerate, StoreTypeOK
    <2>4. StampInv'
        BY <1>6, <2>2 DEF Regenerate, StampInv, Stamped
    <2>. QED  BY <2>3, <2>4
<1>7. ASSUME NEW m \in messages, Edit(m) PROVE StoreTypeOK' /\ StampInv'
    <2>2. cut'.op = "edit" /\ cut'.target = m
        BY <1>7 DEF Edit
    <2>3. StoreTypeOK'
        BY <1>7, <2>2 DEF Edit, StoreTypeOK
    <2>4. StampInv'
        BY <1>7, <2>2 DEF Edit, StampInv, Stamped
    <2>. QED  BY <2>3, <2>4
<1>8. CASE DeleteMessages
    <2>1. cut'.op = cut.op /\ cut'.target = cut.target /\ messages' \subseteq messages
        BY <1>8 DEF DeleteMessages
    <2>2. StoreTypeOK'
        BY <1>8, <2>1 DEF DeleteMessages, StoreTypeOK
    <2>3. StampInv'
        BY <1>8, <2>1 DEF DeleteMessages, StampInv, Stamped
    <2>. QED  BY <2>2, <2>3
<1>9. CASE DeleteCalls
    <2>1. invocations' \subseteq invocations /\ (cut' = Idle \/ (cut'.op = cut.op /\ cut'.target = cut.target))
        BY <1>9 DEF DeleteCalls
    <2>2. StoreTypeOK'
        BY <1>9, <2>1 DEF DeleteCalls, StoreTypeOK, Idle
    <2>3. StampInv'
        BY <1>9, <2>1 DEF DeleteCalls, StampInv, Stamped
    <2>. QED  BY <2>2, <2>3
<1>10. CASE AppendEdited
    BY <1>10, AppendTypes DEF AppendEdited
<1>11. CASE Abort
    BY <1>11 DEF Abort, StoreTypeOK, StampInv, Stamped, Idle
<1>12. CASE UNCHANGED storeVars
    BY <1>12 DEF storeVars, StoreTypeOK, StampInv, Stamped
<1>. QED  BY <1>1, <1>2, <1>3, <1>4, <1>5, <1>6, <1>7, <1>8, <1>9, <1>10, <1>11, <1>12 DEF StoreNext

-----------------------------------------------------------------------------
(* The theorems.                                                           *)

\* Rows keep to their types and message ids are unique
\* (ai_conversation.go AppendMessage, DeleteMessagesFrom).
THEOREM StoreTypes == StoreSpec => []StoreTypeOK
<1>. QED  BY StoreBegins, StoreSteps, PTL DEF StoreSpec

\* Messages of different seconds are listed in the order they were written,
\* although two text formats are compared (ai_conversation.go ListMessages).
THEOREM StoreSecondsInOrder == StoreSpec => []SecondsInOrder
<1>1. StampInv => SecondsInOrder
    BY StampedOrder DEF StampInv, SecondsInOrder, Before
<1>. QED  BY <1>1, StoreBegins, StoreSteps, PTL DEF StoreSpec

\* Cutting a conversation removes the message, keeps every message of an
\* earlier second and none of a later one (ai_conversation.go
\* DeleteMessagesFrom).
THEOREM StoreCutRespectsSeconds == StoreSpec => CutRespectsSeconds
<1>. DEFINE Cuts ==
        messages' \subseteq messages /\ messages' # messages =>
            \A m \in messages :
                /\ Earlier(m, cut.target) => m \in messages'
                /\ m = cut.target \/ Earlier(cut.target, m) => m \notin messages'
<1>1. StoreTypeOK /\ StampInv /\ [StoreNext]_storeVars => [Cuts]_storeVars
    <2>. SUFFICES ASSUME StoreTypeOK, StampInv, StoreNext, messages' \subseteq messages, messages' # messages,
                         NEW m \in messages
                  PROVE  /\ Earlier(m, cut.target) => m \in messages'
                         /\ m = cut.target \/ Earlier(cut.target, m) => m \notin messages'
        OBVIOUS
    <2>1. cut # Idle /\ messages' = {n \in messages : n.stamp < cut.target.stamp}
        <3>1. ASSUME NEW role, NEW stamp, AppendMessage(role, stamp) PROVE FALSE
            <4>1. [id |-> count + 1, role |-> role, at |-> now, stamp |-> stamp] \in messages
                BY <3>1 DEF AppendMessage
            <4>. QED  BY <4>1, ConversationAssumption DEF StoreTypeOK
        <3>. QED  BY <3>1 DEF StoreNext, Tick, Ask, Answer, Invoke, ToolResult, Regenerate, Edit,
                                DeleteMessages, DeleteCalls, AppendEdited, Abort
    <2>2. Stamped(m) /\ Stamped(cut.target)
        BY <2>1 DEF StampInv
    <2>3. Base \in Nat
        BY ConversationAssumption
    <2>4. cut.target.stamp \in Int /\ m.stamp \in Int
        <3>1. ASSUME NEW row, Stamped(row) PROVE row.stamp \in Int
            <4>1. PICK f \in 0..(Base * Base - 1) : row.stamp = Stamp(Second(row.at), f) /\ row.at \in Nat
                BY <3>1 DEF Stamped
            <4>2. FractionRank(f) \in Int /\ Second(row.at) \in Int
                BY <2>3, <4>1, FractionBounds, SecondType
            <4>. QED  BY <2>3, <4>1, <4>2 DEF Stamp
        <3>. QED  BY <2>2, <3>1
    <2>5. Earlier(m, cut.target) => m.stamp < cut.target.stamp
        BY <2>2, StampedOrder
    <2>6. Earlier(cut.target, m) => cut.target.stamp < m.stamp
        BY <2>2, StampedOrder
    <2>. QED  BY <2>1, <2>4, <2>5, <2>6
<1>. QED  BY <1>1, StoreBegins, StoreSteps, PTL DEF StoreSpec, CutRespectsSeconds

-----------------------------------------------------------------------------
(* The order of ids.                                                       *)

\* What comes first in an id weighs more than what follows.
LEMMA Weight ==
    ASSUME NEW k \in Nat \ {0}, NEW a \in Int, NEW b \in Int, a < b,
           NEW r \in 0..(k - 1), NEW s \in 0..(k - 1)
    PROVE  a * k + r < b * k + s
<1>1. (b - a) * k >= k
    BY Z3
<1>2. (b - a) * k = b * k - a * k
    BY Z3
<1>3. a * k \in Int /\ b * k \in Int
    OBVIOUS
<1>. QED  BY <1>1, <1>2, <1>3

\* An id of a later millisecond is greater, whatever the sequence numbers.
LEMMA LaterIsGreater ==
    ASSUME NEW m \in Int, NEW n \in Int, m < n,
           NEW p \in 0..(SequenceCount - 1), NEW q \in 0..(SequenceCount - 1)
    PROVE  Id(m, p) < Id(n, q)
<1>1. m * WorkerCount + workerID < n * WorkerCount + workerID
    BY Weight, SnowflakeAssumption
<1>2. m * WorkerCount + workerID \in Int /\ n * WorkerCount + workerID \in Int
    BY SnowflakeAssumption
<1>. QED  BY <1>1, <1>2, Weight, SnowflakeAssumption DEF Id

LEMMA IdIsInt ==
    ASSUME NEW m \in Int, NEW p \in Int
    PROVE  Id(m, p) \in Int
BY SnowflakeAssumption DEF Id

\* The mask takes the number after the last back to 0.
LEMMA Masked ==
    ASSUME NEW k \in Nat \ {0}, NEW s \in 0..(k - 1)
    PROVE  (s + 1) % k = IF s + 1 = k THEN 0 ELSE s + 1
<1>1. CASE s + 1 = k
    BY <1>1, Z3
<1>2. CASE s + 1 < k
    BY <1>2, Z3
<1>. QED  BY <1>1, <1>2

\* In one millisecond the sequence numbers decide.
LEMMA SameMilliOrder ==
    ASSUME NEW m \in Int, NEW p \in Int, NEW q \in Int
    PROVE  p <= q <=> Id(m, p) <= Id(m, q)
<1>. DEFINE high == (m * WorkerCount + workerID) * SequenceCount
<1>1. high \in Int
    BY SnowflakeAssumption
<1>2. Id(m, p) = high + p /\ Id(m, q) = high + q
    BY DEF Id
<1>. HIDE DEF high
<1>. QED  BY <1>1, <1>2

-----------------------------------------------------------------------------
(* The invariant.                                                          *)

IdTypeOK ==
    /\ clock \in Nat
    /\ lastMilli \in Nat \cup {Never} /\ stamped \in Nat \cup {Never}
    /\ sequence \in 0..(SequenceCount - 1)
    /\ spinning \in BOOLEAN /\ overtaken \in BOOLEAN
    /\ ids \in Seq(Int)

\* The generator remembers the millisecond of the last id, or nothing; then the
\* clock is past that id.
ClockInv ==
    /\ lastMilli # Never => lastMilli = stamped
    /\ lastMilli = Never => clock > stamped
    /\ spinning => lastMilli # Never

\* No id is above the last sequence number used, or that of its millisecond.
Ceiling == IF spinning \/ lastMilli = Never THEN SequenceCount - 1 ELSE sequence

BelowInv == \A i \in DOMAIN ids : ids[i] <= Id(stamped, Ceiling)

IInv == IdTypeOK /\ (~overtaken => ClockInv /\ BelowInv /\ IdsIncrease)

LEMMA InitInv == IdInit => IInv
<1>. SUFFICES ASSUME IdInit
              PROVE  IInv
    OBVIOUS
<1>1. ids = <<>> /\ DOMAIN ids = {}
    BY DEF IdInit
<1>2. BelowInv /\ IdsIncrease
    BY <1>1 DEF BelowInv, IdsIncrease
<1>3. IdTypeOK
    <2>1. clock \in Nat /\ 0 \in 0..(SequenceCount - 1)
        BY SnowflakeAssumption DEF IdInit
    <2>2. spinning \in BOOLEAN /\ overtaken \in BOOLEAN
        BY Zenon DEF IdInit
    <2>. QED  BY <2>1, <2>2 DEF IdInit, IdTypeOK
<1>4. ClockInv
    BY SnowflakeAssumption DEF IdInit, ClockInv, Never
<1>. QED  BY <1>2, <1>3, <1>4 DEF IInv

\* An id above all others keeps their order, and the others below it.
LEMMA IssueKeeps ==
    ASSUME IdTypeOK, NEW milli \in Nat, NEW seq \in 0..(SequenceCount - 1), Issue(milli, seq),
           ~overtaken, IdsIncrease,
           \A i \in DOMAIN ids : ids[i] < Id(milli, seq)
    PROVE  ClockInv' /\ BelowInv' /\ IdsIncrease'
<1>1. ids' = Append(ids, Id(milli, seq)) /\ Id(milli, seq) \in Int /\ ids \in Seq(Int)
    BY IdIsInt DEF Issue, IdTypeOK
<1>2. lastMilli' = milli /\ stamped' = milli /\ sequence' = seq /\ spinning' = FALSE
    BY DEF Issue
<1>3. Ceiling' = seq
    BY <1>2 DEF Ceiling, Never
<1>4. \A i \in DOMAIN ids' : ids'[i] = IF i = Len(ids) + 1 THEN Id(milli, seq) ELSE ids[i]
    BY <1>1
<1>5. \A i \in DOMAIN ids' : i = Len(ids) + 1 \/ (i \in DOMAIN ids /\ i < Len(ids) + 1)
    BY <1>1
<1>6. \A i \in DOMAIN ids : ids[i] \in Int
    BY <1>1
<1>7. ClockInv'
    BY <1>2 DEF ClockInv, Never
<1>8. Id(stamped', Ceiling') = Id(milli, seq)
    BY <1>2, <1>3
<1>9. BelowInv'
    BY <1>1, <1>4, <1>5, <1>6, <1>8 DEF BelowInv
<1>10. IdsIncrease'
    <2>. SUFFICES ASSUME NEW i \in DOMAIN ids', NEW j \in DOMAIN ids', i < j
                  PROVE  ids'[i] < ids'[j]
        BY DEF IdsIncrease
    <2>1. i \in DOMAIN ids /\ ids'[i] = ids[i]
        BY <1>1, <1>4, <1>5
    <2>2. CASE j = Len(ids) + 1
        BY <1>4, <2>1, <2>2
    <2>3. CASE j \in DOMAIN ids /\ j < Len(ids) + 1
        BY <1>4, <2>1, <2>3 DEF IdsIncrease
    <2>. QED  BY <1>5, <2>2, <2>3
<1>. QED  BY <1>7, <1>9, <1>10

LEMMA IssueTypes ==
    ASSUME IdTypeOK, NEW milli \in Nat, NEW seq \in 0..(SequenceCount - 1), Issue(milli, seq)
    PROVE  IdTypeOK'
<1>1. Id(milli, seq) \in Int
    BY IdIsInt
<1>2. ids' \in Seq(Int)
    BY <1>1 DEF Issue, IdTypeOK
<1>3. overtaken' \in BOOLEAN /\ spinning' \in BOOLEAN
    BY Zenon DEF Issue, IdTypeOK
<1>. QED  BY <1>2, <1>3 DEF Issue, IdTypeOK

LEMMA StepInv == IInv /\ [IdNext]_idVars => IInv'
<1>. SUFFICES ASSUME IInv, [IdNext]_idVars
              PROVE  IInv'
    OBVIOUS
<1>. USE DEF IInv
<1>1. NextSequence \in 0..(SequenceCount - 1)
    BY Masked, SnowflakeAssumption DEF IdTypeOK, NextSequence
<1>2. \A i \in DOMAIN ids : ids[i] \in Int
    BY DEF IdTypeOK
<1>3. Ceiling \in 0..(SequenceCount - 1)
    BY SnowflakeAssumption DEF Ceiling, IdTypeOK
<1>4. stamped \in Int /\ lastMilli \in Int /\ clock \in Nat
    BY DEF IdTypeOK, Never
\* An id of a later millisecond, after a wait or not.
<1>5. ASSUME clock > lastMilli, Issue(clock, 0)
      PROVE  IInv'
    <2>1. 0 \in 0..(SequenceCount - 1)
        BY SnowflakeAssumption
    <2>2. IdTypeOK'
        BY <1>4, <1>5, <2>1, IssueTypes
    <2>3. ASSUME ~overtaken
          PROVE  \A i \in DOMAIN ids : ids[i] < Id(clock, 0)
        <3>1. clock > stamped
            BY <1>4, <1>5, <2>3 DEF ClockInv
        <3>2. Id(stamped, Ceiling) < Id(clock, 0)
            BY <1>3, <1>4, <2>1, <3>1, LaterIsGreater
        <3>3. Id(stamped, Ceiling) \in Int /\ Id(clock, 0) \in Int
            <4>1. 0 \in Int /\ Ceiling \in Int /\ clock \in Int
                BY <1>3, <1>4, SnowflakeAssumption
            <4>. QED  BY <1>4, <4>1, IdIsInt
        <3>. QED  BY <1>2, <2>3, <3>2, <3>3 DEF BelowInv
    <2>4. overtaken' = overtaken
        BY <1>5 DEF Issue
    <2>. QED  BY <1>4, <1>5, <2>1, <2>2, <2>3, <2>4, IssueKeeps
<1>6. CASE NextMilli
    BY <1>5, <1>6 DEF NextMilli
<1>7. CASE SameMilli
    <2>1. Issue(clock, NextSequence) /\ clock = lastMilli /\ ~spinning /\ NextSequence # 0
        BY <1>7 DEF SameMilli
    <2>2. IdTypeOK'
        BY <1>1, <1>4, <2>1, IssueTypes
    <2>3. NextSequence = sequence + 1
        BY <2>1, Masked, SnowflakeAssumption DEF NextSequence, IdTypeOK
    <2>4. ASSUME ~overtaken
          PROVE  \A i \in DOMAIN ids : ids[i] < Id(clock, NextSequence)
        <3>1. stamped = clock /\ Ceiling = sequence
            BY <1>4, <2>1, <2>4 DEF ClockInv, Ceiling, Never
        <3>2. ~(Id(clock, NextSequence) <= Id(clock, sequence))
            BY <1>1, <1>3, <1>4, <2>3, <3>1, SameMilliOrder
        <3>3. Id(clock, NextSequence) \in Int /\ Id(clock, sequence) \in Int
            <4>1. NextSequence \in Int /\ sequence \in Int /\ clock \in Int
                BY <1>1, <1>4, SnowflakeAssumption DEF IdTypeOK
            <4>. QED  BY <4>1, IdIsInt
        <3>. QED  BY <1>2, <2>4, <3>1, <3>2, <3>3 DEF BelowInv
    <2>5. overtaken' = overtaken
        BY <2>1 DEF Issue
    <2>. QED  BY <1>1, <1>4, <2>1, <2>2, <2>4, <2>5, IssueKeeps
<1>8. CASE Exhausted
    <2>1. IdTypeOK'
        BY <1>8, SnowflakeAssumption DEF Exhausted, IdTypeOK
    <2>2. Id(stamped, Ceiling) <= Id(stamped, SequenceCount - 1)
        BY <1>3, <1>4, SnowflakeAssumption, SameMilliOrder
    <2>3. Id(stamped, Ceiling) \in Int /\ Id(stamped, SequenceCount - 1) \in Int
        BY <1>3, <1>4, SnowflakeAssumption, IdIsInt
    <2>4. UNCHANGED <<ids, stamped, lastMilli, clock, overtaken>> /\ Ceiling' = SequenceCount - 1
        BY <1>8 DEF Exhausted, Ceiling
    <2>5. Id(stamped', Ceiling') = Id(stamped, SequenceCount - 1)
        BY <2>4
    <2>6. ASSUME ~overtaken
          PROVE  BelowInv'
        BY <1>2, <2>2, <2>3, <2>4, <2>5, <2>6 DEF BelowInv
    <2>7. ASSUME ~overtaken
          PROVE  ClockInv' /\ IdsIncrease'
        BY <1>4, <1>8, <2>4, <2>7 DEF Exhausted, ClockInv, IdsIncrease, Never
    <2>. QED  BY <2>1, <2>4, <2>6, <2>7
<1>9. CASE SpinEnds
    BY <1>5, <1>9 DEF SpinEnds, TimePasses
<1>10. CASE SetClock
    <2>1. UNCHANGED <<lastMilli, sequence, spinning, ids, stamped>> /\ clock' \in Nat
        BY <1>10, SnowflakeAssumption DEF SetClock
    <2>2. overtaken' \in BOOLEAN
        BY <1>10, Zenon DEF SetClock
    <2>3. IdTypeOK'
        BY <2>1, <2>2 DEF IdTypeOK
    <2>4. ASSUME ~overtaken'
          PROVE  ~overtaken /\ (lastMilli = Never => ~(clock' <= stamped))
        BY <1>10, <2>4, Zenon DEF SetClock
    <2>5. ASSUME ~overtaken'
          PROVE  ClockInv' /\ BelowInv' /\ IdsIncrease'
        <3>1. BelowInv' /\ IdsIncrease'
            BY <2>1, <2>4, <2>5 DEF BelowInv, Ceiling, IdsIncrease, Id
        <3>2. ClockInv'
            BY <1>4, <2>1, <2>4, <2>5 DEF ClockInv
        <3>. QED  BY <3>1, <3>2
    <2>. QED  BY <2>3, <2>5
<1>11. CASE Restart
    <2>1. UNCHANGED <<clock, ids, stamped>> /\ lastMilli' = Never /\ sequence' = 0 /\ spinning' = FALSE
        BY <1>11 DEF Restart
    <2>2. overtaken' \in BOOLEAN
        BY <1>11, Zenon DEF Restart
    <2>3. IdTypeOK'
        <3>1. 0 \in 0..(SequenceCount - 1)
            BY SnowflakeAssumption
        <3>2. spinning' \in BOOLEAN
            BY <2>1, Zenon
        <3>. QED  BY <2>1, <2>2, <3>1, <3>2 DEF IdTypeOK
    <2>4. ASSUME ~overtaken'
          PROVE  ~overtaken /\ ~(clock <= stamped)
        BY <1>11, <2>4, Zenon DEF Restart
    <2>5. ASSUME ~overtaken'
          PROVE  ClockInv' /\ IdsIncrease'
        BY <1>4, <2>1, <2>4, <2>5 DEF ClockInv, IdsIncrease
    <2>6. ASSUME ~overtaken'
          PROVE  BelowInv'
        <3>1. Ceiling' = SequenceCount - 1
            BY <2>1 DEF Ceiling
        <3>2. Id(stamped, Ceiling) <= Id(stamped', Ceiling')
            BY <1>3, <1>4, <2>1, <3>1, SnowflakeAssumption, SameMilliOrder
        <3>3. Id(stamped, Ceiling) \in Int /\ Id(stamped', Ceiling') \in Int
            BY <1>3, <1>4, <2>1, <3>1, SnowflakeAssumption, IdIsInt
        <3>. QED  BY <1>2, <2>1, <2>4, <2>6, <3>2, <3>3 DEF BelowInv
    <2>. QED  BY <2>3, <2>5, <2>6
<1>12. CASE UNCHANGED idVars
    BY <1>12 DEF idVars, IdTypeOK, ClockInv, BelowInv, Ceiling, IdsIncrease, Id
<1>. QED  BY <1>6, <1>7, <1>8, <1>9, <1>10, <1>11, <1>12 DEF IdNext

\* Identifiers increase, for any widths of their parts and whatever the clock
\* does, but for the restart that IdsIncrease excludes.
THEOREM IdsAlwaysIncrease == IdSpec => []IdsIncrease
<1>1. IInv => IdsIncrease
    BY DEF IInv, IdsIncrease
<1>. QED  BY <1>1, InitInv, StepInv, PTL DEF IdSpec
=============================================================================
