------------------------ MODULE SessionRegistryProofs ------------------------
(* Proofs about SessionRegistry, for any kinds and policies, any finite set *)
(* of tabs and any number of sessions and troubles.                        *)
EXTENDS SessionRegistry, TLAPS, FiniteSetTheorems, SequenceTheorems

-----------------------------------------------------------------------------
(* The invariant, in parts.                                                *)

\* The operations whose code after an await is in the queue.
Queued == ToSet(micro)

NoRepeat(s) == \A i, j \in DOMAIN s : s[i] = s[j] => i = j

\* Where an operation of each kind can await; one that refers to a lease has it.
PlaceInv ==
    /\ \A o \in Ops : o[1] = "close" => pc[o] \in {"idle", "cleanup"}
    /\ \A o \in Ops : o[1] = "drop" => pc[o] \in {"idle", "cleanup", "closing"}
    /\ \A o \in Ops : pc[o] \in {"cleanup", "closing"} => at[o] \in Leases
    /\ pc[<<"drop", "lost">>] # "closing"
    /\ \A o \in Ops : o[1] # "drop" /\ pc[o] = "cleanup" => KeyOf(at[o]) = buildSessionKey(o[2])

\* Leases, borrowers and those who wait for an open are filed under their key.
KeyedInv ==
    /\ \A k \in Keys : leases[k] # NoLease => KeyOf(leases[k]) = k
    /\ \A l \in Leases : \A t \in bound[l] : buildSessionKey(t) = KeyOf(l)
    /\ \A k \in Keys : \A t \in ToSet(inflight[k]) :
          buildSessionKey(t) = k /\ pc[<<"job", t>>] = "opening"

\* What has settled is in the queue, once.
QueuedInv ==
    /\ NoRepeat(micro)
    /\ \A k \in Keys : NoRepeat(inflight[k])
    /\ \A o \in Ops : pc[o] \in {"reconnect", "reacquire", "opened"} => o \in Queued
    /\ \A o \in Ops : pc[o] = "cleanup" /\ ~policy.slow => o \in Queued

\* The queue is emptied before the next callback, so all of it stems from one:
\* a signal to reconnect, an open, a tab closed, a lost event, or the end of a close.
Restarting == {o \in Ops : o[1] = "job" /\ pc[o] \in {"reconnect", "cleanup", "reacquire"}}
Opening == {o \in Ops : o[1] = "job" /\ pc[o] = "opened"}
TabClosing == {o \in Ops : o[1] = "close"}
Disconnecting == {o \in Ops : o = <<"drop", "disconnect">> \/ (o[1] = "job" /\ pc[o] = "closing")}

PhaseInv ==
    \/ Queued \subseteq Restarting
    \/ Queued \subseteq Opening
    \/ Queued \subseteq TabClosing
    \/ Queued \subseteq {<<"drop", "lost">>}
    \/ Queued \subseteq Disconnecting

\* The leases that something refers to.
Used(l) ==
    \/ l \in timer
    \/ bound[l] # {}
    \/ leases[KeyOf(l)] = l
    \/ \E o \in Ops : at[o] = l
    \/ \E d \in Drops : l \in todo[d]

\* A lease that is yet to be made is referred to by nobody.
FreshInv ==
    \A l \in Leases :
        l[1] > newest \/ (l[1] = newest /\ pc[<<"job", l[2]>>] = "opened") => ~Used(l)

\* A session belongs to one key.
Claim(s, k) ==
    \/ \E l \in Leases : Used(l) /\ l[1] = s /\ KeyOf(l) = k
    \/ \E t \in Tabs : shown[t] = s /\ buildSessionKey(t) = k
    \/ \E t \in Tabs : pc[<<"job", t>>] = "opened" /\ newest = s /\ buildSessionKey(t) = k

ClaimInv ==
    \A s \in Sessions : \A j, k \in Keys :
        Claim(s, j) => s <= newest /\ (Claim(s, k) => j = k)

\* The idle timer runs only for leases that nobody borrows.
TimerInv == \A l \in timer : bound[l] = {}

\* Whom closed and absent tabs may still concern.
TabInv ==
    \A t \in Tabs :
        /\ tab[t] = "closed" /\ pc[<<"job", t>>] # "idle" => t \in stray
        /\ tab[t] = "absent" => pc[<<"job", t>>] = "idle" /\ pc[<<"close", t>>] = "idle"
                                /\ \A l \in Leases : t \notin bound[l]
        /\ pc[<<"close", t>>] # "idle" => tab[t] = "closed"

\* A tab with a session of its own borrows it until the tab is closed.
OwnInv ==
    policy.sharing = "per_tab" =>
        \A t \in Tabs : tab[t] # "closed" /\ leases[buildSessionKey(t)] # NoLease
                          => t \in bound[leases[buildSessionKey(t)]]

TypeInv == SessionTypeOK /\ PlaceInv /\ KeyedInv /\ QueuedInv /\ (Opening # {} => newest \in Sessions)

\* What is known of sessions concerns those that were opened; one whose end is known does not live.
EndedInv ==
    /\ \A s \in remote \cup lost \cup closing \cup overtaken : s <= newest
    /\ remote \cap lost = {}
    /\ exited => remote \subseteq overtaken

GeneralInv == PhaseInv /\ FreshInv /\ ClaimInv /\ TimerInv /\ UnusedIffTimed /\ TabInv /\ OwnInv

-----------------------------------------------------------------------------
(* Where hooks do not wait.                                                *)

\* A release that is under way finds its lease in the table, still borrowed by its tab.
HeldInv ==
    \A o \in Ops : o[1] # "drop" /\ pc[o] = "cleanup" =>
        leases[KeyOf(at[o])] = at[o] /\ o[2] \in bound[at[o]]

\* While an open is under way its key has no lease, until its tabs make theirs.
OpenInv ==
    /\ \A k \in Keys : inflight[k] # <<>> => leases[k] = NoLease
    /\ \A t \in Tabs : pc[<<"job", t>>] = "opened" =>
          LET k == buildSessionKey(t)
          IN  /\ inflight[k] = <<>>
              /\ leases[k] # NoLease => leases[k][1] = newest /\ leases[k] \notin timer
              /\ newest \in remote \ (closing \cup lost)

\* Leases that markSessionLost has yet to drop are in the table, and their sessions are gone.
Dropping(l) == pc[<<"drop", "lost">>] = "cleanup" /\ (l = at[<<"drop", "lost">>] \/ l \in todo["lost"])

LostInv ==
    LET o == <<"drop", "lost">>
    IN  /\ pc[o] # "cleanup" => todo["lost"] = {}
        /\ pc[o] = "cleanup" => at[o] \notin todo["lost"]
        /\ \A l \in todo["lost"] : leases[KeyOf(l)] = l
        /\ pc[o] = "cleanup" => leases[KeyOf(at[o])] = at[o]
        /\ \A l \in Leases : Dropping(l) => l[1] \notin remote \ overtaken

\* A session of the table is not being closed, and lives, or its end is known.
AliveInv ==
    \A k \in Keys : leases[k] # NoLease =>
        LET s == leases[k][1]
        IN  /\ s \notin closing
            /\ s \in remote \cup lost \cup overtaken \/ exited \/ Dropping(leases[k])

\* Leases that disconnect has yet to close are in the table, or their key is empty.
DisconnectInv ==
    LET o == <<"drop", "disconnect">>
    IN  /\ \A l \in todo["disconnect"] :
              /\ leases[KeyOf(l)] \in {l, NoLease}
              /\ \A t \in Tabs : pc[<<"job", t>>] = "opened" => buildSessionKey(t) # KeyOf(l)
        /\ pc[o] = "cleanup" => leases[KeyOf(at[o])] \in {at[o], NoLease}

TimedInv == \A l \in timer : leases[KeyOf(l)] = l

\* A session that lives is in the table, is being closed, or was just opened.
FoundInv ==
    \A s \in remote \ overtaken :
        \/ \E k \in Keys : leases[k] # NoLease /\ leases[k][1] = s
        \/ s \in closing
        \/ s = newest /\ Opening # {}

\* A tab that was closed is being released, unless it strays.
ReleasedInv ==
    \A k \in Keys : leases[k] # NoLease =>
        \A t \in bound[leases[k]] \ stray :
            tab[t] = "closed" => pc[<<"close", t>>] = "cleanup" /\ at[<<"close", t>>] = leases[k]

QuickInv ==
    ~policy.slow =>
        /\ HeldInv /\ OpenInv /\ LostInv /\ AliveInv /\ ReleasedInv
        /\ ~raced => DisconnectInv /\ TimedInv /\ FoundInv

IInv == TypeInv /\ GeneralInv /\ EndedInv /\ QuickInv

-----------------------------------------------------------------------------
(* Keys.                                                                   *)

LEMMA KindStays ==
    ASSUME kind' = kind
    PROVE  /\ policy' = policy /\ Keys' = Keys
           /\ \A t : buildSessionKey(t)' = buildSessionKey(t)
           /\ \A l : KeyOf(l)' = KeyOf(l)
<1>1. policy' = policy
    BY DEF policy
<1>2. \A t : buildSessionKey(t)' = buildSessionKey(t)
    BY <1>1 DEF buildSessionKey
<1>3. Keys' = Keys
    BY <1>2 DEF Keys
<1>4. \A l : KeyOf(l)' = KeyOf(l)
    BY <1>2 DEF KeyOf
<1>. QED  BY <1>1, <1>2, <1>3, <1>4

LEMMA KeysOfTabs ==
    /\ \A t \in Tabs : buildSessionKey(t) \in Keys
    /\ \A l \in Leases : KeyOf(l) \in Keys
BY DEF Keys, KeyOf, Leases

LEMMA LeaseParts ==
    \A l \in Leases : l[1] \in Sessions /\ l[2] \in Tabs /\ l = <<l[1], l[2]>> /\ l # NoLease
BY SessionAssumption DEF Leases, Sessions

LEMMA OpsAre ==
    /\ \A t \in Tabs : <<"job", t>> \in Ops /\ <<"close", t>> \in Ops
    /\ \A d \in Drops : <<"drop", d>> \in Ops
    /\ \A o \in Ops : \/ o[1] \in {"job", "close"} /\ o[2] \in Tabs /\ o = <<o[1], o[2]>>
                      \/ o[1] = "drop" /\ o[2] \in Drops /\ o = <<"drop", o[2]>>
BY DEF Ops

-----------------------------------------------------------------------------
(* Queues without repetition.                                              *)

LEMMA QueueHead ==
    ASSUME NEW S, NEW s \in Seq(S), s # <<>>, NoRepeat(s)
    PROVE  /\ Head(s) \in S /\ Head(s) \in ToSet(s)
           /\ Tail(s) \in Seq(S) /\ NoRepeat(Tail(s))
           /\ ToSet(Tail(s)) = ToSet(s) \ {Head(s)}
<1>1. /\ Len(s) \in Nat \ {0} /\ DOMAIN s = 1..Len(s) /\ Head(s) = s[1] /\ s[1] \in S
      /\ Tail(s) \in Seq(S) /\ Len(Tail(s)) = Len(s) - 1 /\ DOMAIN Tail(s) = 1..Len(Tail(s))
      /\ \A i \in 1..Len(Tail(s)) : Tail(s)[i] = s[i + 1]
    OBVIOUS
<1>2. NoRepeat(Tail(s))
    <2>. SUFFICES ASSUME NEW i \in DOMAIN Tail(s), NEW j \in DOMAIN Tail(s), Tail(s)[i] = Tail(s)[j]
                  PROVE  i = j
        BY DEF NoRepeat
    <2>1. i + 1 \in DOMAIN s /\ j + 1 \in DOMAIN s /\ s[i + 1] = s[j + 1]
        BY <1>1
    <2>2. i + 1 = j + 1
        BY <2>1 DEF NoRepeat
    <2>. QED  BY <2>2, <1>1
<1>3. ASSUME NEW x \in ToSet(Tail(s))
      PROVE  x \in ToSet(s) /\ x # Head(s)
    <2>1. PICK i \in DOMAIN Tail(s) : x = Tail(s)[i]
        BY <1>3 DEF ToSet
    <2>2. i + 1 \in DOMAIN s /\ x = s[i + 1] /\ i + 1 # 1 /\ 1 \in DOMAIN s
        BY <1>1, <2>1
    <2>3. s[i + 1] # s[1]
        BY <2>2 DEF NoRepeat
    <2>. QED  BY <2>2, <2>3, <1>1 DEF ToSet
<1>4. ASSUME NEW x \in ToSet(s), x # Head(s)
      PROVE  x \in ToSet(Tail(s))
    <2>1. PICK i \in DOMAIN s : x = s[i]
        BY <1>4 DEF ToSet
    <2>2. i # 1
        BY <2>1, <1>1, <1>4
    <2>3. i - 1 \in DOMAIN Tail(s) /\ Tail(s)[i - 1] = s[(i - 1) + 1] /\ (i - 1) + 1 = i
        BY <2>2, <1>1
    <2>. QED  BY <2>1, <2>3 DEF ToSet
<1>5. Head(s) \in ToSet(s)
    <2>1. 1 \in DOMAIN s
        BY <1>1
    <2>. QED  BY <2>1, <1>1 DEF ToSet
<1>. QED  BY <1>1, <1>2, <1>3, <1>4, <1>5

LEMMA QueueAppend ==
    ASSUME NEW S, NEW s \in Seq(S), NEW x \in S, x \notin ToSet(s), NoRepeat(s)
    PROVE  /\ Append(s, x) \in Seq(S) /\ Append(s, x) # <<>>
           /\ ToSet(Append(s, x)) = ToSet(s) \cup {x} /\ NoRepeat(Append(s, x))
<1>. DEFINE a == Append(s, x)
<1>1. /\ Len(s) \in Nat /\ DOMAIN s = 1..Len(s)
      /\ a \in Seq(S) /\ a # <<>> /\ Len(a) = Len(s) + 1 /\ DOMAIN a = 1..Len(a)
      /\ \A i \in 1..Len(s) : a[i] = s[i]
      /\ a[Len(s) + 1] = x
    BY AppendProperties
<1>. HIDE DEF a
<1>2. \A i \in DOMAIN s : s[i] \in ToSet(s)
    BY DEF ToSet
<1>3. NoRepeat(a)
    <2>. SUFFICES ASSUME NEW i \in DOMAIN a, NEW j \in DOMAIN a, a[i] = a[j]
                  PROVE  i = j
        BY DEF NoRepeat
    <2>1. CASE i \in DOMAIN s /\ j \in DOMAIN s
        BY <2>1, <1>1 DEF NoRepeat
    <2>2. CASE i \notin DOMAIN s /\ j \notin DOMAIN s
        BY <2>2, <1>1
    <2>3. CASE i \in DOMAIN s /\ j \notin DOMAIN s
        BY <2>3, <1>1, <1>2
    <2>4. CASE i \notin DOMAIN s /\ j \in DOMAIN s
        BY <2>4, <1>1, <1>2
    <2>. QED  BY <2>1, <2>2, <2>3, <2>4
<1>4. ASSUME NEW y \in ToSet(a)
      PROVE  y \in ToSet(s) \cup {x}
    <2>1. PICK i \in DOMAIN a : y = a[i]
        BY <1>4 DEF ToSet
    <2>2. CASE i \in DOMAIN s
        BY <2>1, <2>2, <1>1, <1>2
    <2>3. CASE i \notin DOMAIN s
        BY <2>1, <2>3, <1>1
    <2>. QED  BY <2>2, <2>3
<1>5. ASSUME NEW y \in ToSet(s)
      PROVE  y \in ToSet(a)
    <2>1. PICK i \in DOMAIN s : y = s[i]
        BY <1>5 DEF ToSet
    <2>2. i \in DOMAIN a /\ a[i] = y
        BY <2>1, <1>1
    <2>. QED  BY <2>2 DEF ToSet
<1>6. x \in ToSet(a)
    <2>1. Len(s) + 1 \in DOMAIN a
        BY <1>1
    <2>. QED  BY <2>1, <1>1 DEF ToSet
<1>7. ToSet(a) = ToSet(s) \cup {x}
    BY <1>4, <1>5, <1>6
<1>. QED  BY <1>1, <1>3, <1>7 DEF a

LEMMA QueueCons ==
    ASSUME NEW S, NEW s \in Seq(S), NEW x \in S, x \notin ToSet(s), NoRepeat(s)
    PROVE  /\ <<x>> \o s \in Seq(S)
           /\ ToSet(<<x>> \o s) = ToSet(s) \cup {x} /\ NoRepeat(<<x>> \o s)
<1>. DEFINE a == <<x>> \o s
<1>1. /\ Len(s) \in Nat /\ DOMAIN s = 1..Len(s)
      /\ a \in Seq(S) /\ Len(a) = Len(s) + 1 /\ DOMAIN a = 1..Len(a)
      /\ \A i \in 1..Len(s) : a[i + 1] = s[i]
      /\ a[1] = x
    <2>1. <<x>> \in Seq(S) /\ Len(<<x>>) = 1 /\ <<x>>[1] = x
        OBVIOUS
    <2>2. /\ a \in Seq(S) /\ Len(a) = 1 + Len(s)
          /\ \A i \in 1..(1 + Len(s)) : a[i] = IF i <= 1 THEN <<x>>[i] ELSE s[i - 1]
        BY <2>1, ConcatProperties
    <2>3. Len(s) \in Nat /\ DOMAIN s = 1..Len(s) /\ DOMAIN a = 1..Len(a)
        BY <2>2
    <2>. HIDE DEF a
    <2>4. ASSUME NEW i \in 1..Len(s)
          PROVE  a[i + 1] = s[i]
        BY <2>2, <2>3
    <2>5. a[1] = x
        BY <2>1, <2>2, <2>3
    <2>. QED  BY <2>2, <2>3, <2>4, <2>5
<1>. HIDE DEF a
<1>2. \A i \in DOMAIN s : s[i] \in ToSet(s)
    BY DEF ToSet
<1>3. \A i \in DOMAIN a : i = 1 \/ (i - 1 \in DOMAIN s /\ a[i] = s[i - 1])
    <2>. SUFFICES ASSUME NEW i \in DOMAIN a, i # 1
                  PROVE  i - 1 \in DOMAIN s /\ a[i] = s[i - 1]
        OBVIOUS
    <2>1. i - 1 \in 1..Len(s) /\ (i - 1) + 1 = i
        BY <1>1
    <2>. QED  BY <2>1, <1>1
<1>4. NoRepeat(a)
    <2>. SUFFICES ASSUME NEW i \in DOMAIN a, NEW j \in DOMAIN a, a[i] = a[j]
                  PROVE  i = j
        BY DEF NoRepeat
    <2>1. CASE i # 1 /\ j # 1
        <3>1. i - 1 = j - 1
            BY <2>1, <1>3 DEF NoRepeat
        <3>. QED  BY <3>1, <1>1
    <2>2. CASE i = 1 \/ j = 1
        BY <2>2, <1>1, <1>2, <1>3
    <2>. QED  BY <2>1, <2>2
<1>5. ASSUME NEW y \in ToSet(a)
      PROVE  y \in ToSet(s) \cup {x}
    <2>1. PICK i \in DOMAIN a : y = a[i]
        BY <1>5 DEF ToSet
    <2>. QED  BY <2>1, <1>1, <1>2, <1>3
<1>6. ASSUME NEW y \in ToSet(s)
      PROVE  y \in ToSet(a)
    <2>1. PICK i \in DOMAIN s : y = s[i]
        BY <1>6 DEF ToSet
    <2>2. i + 1 \in DOMAIN a /\ a[i + 1] = y
        BY <2>1, <1>1
    <2>. QED  BY <2>2 DEF ToSet
<1>7. x \in ToSet(a)
    <2>1. 1 \in DOMAIN a
        BY <1>1
    <2>. QED  BY <2>1, <1>1 DEF ToSet
<1>8. ToSet(a) = ToSet(s) \cup {x}
    BY <1>5, <1>6, <1>7
<1>. QED  BY <1>1, <1>4, <1>8 DEF a

LEMMA QueueOne ==
    ASSUME NEW x
    PROVE  /\ \A S : x \in S => <<x>> \in Seq(S)
           /\ ToSet(<<x>>) = {x} /\ NoRepeat(<<x>>) /\ <<x>> # <<>>
<1>1. DOMAIN <<x>> = {1} /\ <<x>>[1] = x
    OBVIOUS
<1>. QED  BY <1>1 DEF ToSet, NoRepeat

LEMMA QueueEmpty ==
    /\ ToSet(<<>>) = {} /\ NoRepeat(<<>>)
    /\ \A S : <<>> \in Seq(S)
    /\ \A S : \A s \in Seq(S) : s # <<>> => ToSet(s) # {}
<1>1. DOMAIN <<>> = {}
    OBVIOUS
<1>2. ASSUME NEW S, NEW s \in Seq(S), s # <<>>
      PROVE  ToSet(s) # {}
    <2>1. 1 \in DOMAIN s
        BY <1>2
    <2>2. s[1] \in ToSet(s)
        BY <2>1 DEF ToSet
    <2>. QED  BY <2>2
<1>. QED  BY <1>1, <1>2 DEF ToSet, NoRepeat

\* The jobs of a queue of tabs.
LEMMA QueueOfJobs ==
    ASSUME NEW s \in Seq(Tabs), NoRepeat(s)
    PROVE  LET q == [i \in DOMAIN s |-> <<"job", s[i]>>]
           IN  /\ q \in Seq(Ops) /\ NoRepeat(q)
               /\ ToSet(q) = {<<"job", t>> : t \in ToSet(s)}
<1>. DEFINE q == [i \in DOMAIN s |-> <<"job", s[i]>>]
<1>1. Len(s) \in Nat /\ DOMAIN s = 1..Len(s) /\ \A i \in DOMAIN s : s[i] \in Tabs
    OBVIOUS
<1>2. \A i \in DOMAIN s : <<"job", s[i]>> \in Ops
    BY <1>1, OpsAre
<1>3. q \in Seq(Ops)
    BY <1>1, <1>2
<1>4. NoRepeat(q)
    BY DEF NoRepeat
<1>5. ToSet(q) = {<<"job", t>> : t \in ToSet(s)}
    BY DEF ToSet
<1>. QED  BY <1>3, <1>4, <1>5

-----------------------------------------------------------------------------
(* Enumerations of finite sets.                                            *)

LEMMA Enumeration ==
    ASSUME NEW S, IsFiniteSet(S)
    PROVE  LET s == SetToSeq(S) IN s \in Seq(S) /\ NoRepeat(s) /\ ToSet(s) = S
<1>. DEFINE n == Cardinality(S)
            s == SetToSeq(S)
<1>1. n \in Nat /\ ExistsBijection(1..n, S)
    BY FS_CardinalityType
<1>. HIDE DEF n
<1>2. PICK f \in [1..n -> S] : IsInjective(f)
    BY <1>1 DEF ExistsBijection, Bijection, Injection
<1>3. s \in [1..n -> S] /\ IsInjective(s)
    BY <1>2 DEF SetToSeq, n
<1>. HIDE DEF s
<1>4. s \in Seq(S) /\ DOMAIN s = 1..n
    BY <1>1, <1>3
<1>5. NoRepeat(s)
    BY <1>3 DEF NoRepeat, IsInjective
<1>6. s \in Injection(1..n, S)
    BY <1>3 DEF Injection
<1>7. IsFiniteSet(1..n) /\ Cardinality(1..n) = n
    BY <1>1, FS_Interval
<1>8. s \in Surjection(1..n, S)
    BY <1>6, <1>7, FS_Injection DEF n
<1>9. \A x \in S : \E i \in 1..n : s[i] = x
    BY <1>8 DEF Surjection
<1>10. ToSet(s) = S
    BY <1>3, <1>4, <1>9 DEF ToSet
<1>. QED  BY <1>4, <1>5, <1>10 DEF s

LEMMA Orders ==
    ASSUME NEW S \in SUBSET Tabs, NEW s \in SetToSeqs(S)
    PROVE  s \in Seq(S) /\ s \in Seq(Tabs) /\ NoRepeat(s)
<1>1. IsFiniteSet(S)
    BY SessionAssumption, FS_Subset
<1>2. Cardinality(S) \in Nat
    BY <1>1, FS_CardinalityType
<1>3. /\ s \in [1..Cardinality(S) -> S]
      /\ \A i, j \in 1..Cardinality(S) : i # j => s[i] # s[j]
    BY DEF SetToSeqs
<1>. QED  BY <1>2, <1>3 DEF NoRepeat

LEMMA OpsFinite == IsFiniteSet(Ops)
<1>1. IsFiniteSet({"job", "close"}) /\ IsFiniteSet({"drop"}) /\ IsFiniteSet(Drops)
    <2>1. IsFiniteSet({"job"}) /\ IsFiniteSet({"drop"}) /\ IsFiniteSet({"disconnect"})
        BY FS_Singleton
    <2>2. IsFiniteSet({"job"} \cup {"close"}) /\ IsFiniteSet({"disconnect"} \cup {"lost"})
        BY <2>1, FS_AddElement
    <2>3. {"job"} \cup {"close"} = {"job", "close"} /\ {"disconnect"} \cup {"lost"} = Drops
        BY DEF Drops
    <2>. QED  BY <2>1, <2>2, <2>3
<1>2. IsFiniteSet(Tabs)
    BY SessionAssumption
<1>3. IsFiniteSet({"job", "close"} \X Tabs) /\ IsFiniteSet({"drop"} \X Drops)
    BY <1>1, <1>2, FS_Product
<1>. QED  BY <1>3, FS_Union DEF Ops

-----------------------------------------------------------------------------
(* What the shared steps do.                                               *)

LEMMA Moves ==
    ASSUME SessionTypeOK, NEW o \in Ops, NEW p \in Places, NEW l \in Leases \cup {NoLease},
           GoesTo(o, p, l)
    PROVE  /\ pc' \in [Ops -> Places] /\ pc'[o] = p
           /\ at' \in [Ops -> Leases \cup {NoLease}] /\ at'[o] = l
           /\ \A q \in Ops : q # o => pc'[q] = pc[q] /\ at'[q] = at[q]
BY DEF SessionTypeOK, GoesTo

LEMMA Finalized ==
    ASSUME SessionTypeOK, NEW l \in Leases, finalizeClose(l)
    PROVE  /\ timer' = timer \ {l} /\ timer' \in SUBSET Leases
           /\ leases' \in [Keys -> Leases \cup {NoLease}] /\ leases'[KeyOf(l)] = NoLease
           /\ \A k \in Keys : k # KeyOf(l) => leases'[k] = leases[k]
           /\ closing' \in SUBSET Sessions
           /\ closing' = IF leases[KeyOf(l)] = NoLease THEN closing ELSE closing \cup {l[1]}
<1>1. KeyOf(l) \in Keys /\ l[1] \in Sessions
    BY KeysOfTabs, LeaseParts
<1>. DEFINE k == KeyOf(l)
<1>2. CASE leases[k] = NoLease
    BY <1>1, <1>2 DEF SessionTypeOK, finalizeClose
<1>3. CASE leases[k] # NoLease
    <2>1. timer' = timer \ {l} /\ leases' = [leases EXCEPT ![k] = NoLease] /\ closing' = closing \cup {l[1]}
        BY <1>3 DEF finalizeClose
    <2>. HIDE DEF k
    <2>. QED  BY <1>1, <1>3, <2>1 DEF SessionTypeOK, k
<1>. QED  BY <1>2, <1>3

LEMMA Released ==
    ASSUME SessionTypeOK, NEW o \in Ops, o[2] \in Tabs, at[o] \in Leases, NEW force, AfterRelease(o, force)
    PROVE  LET l == at[o]
               rest == bound[l] \ {o[2]}
           IN  /\ bound' \in [Leases -> SUBSET Tabs] /\ bound'[l] = rest
               /\ \A m \in Leases : m # l => bound'[m] = bound[m]
               /\ timer' \in SUBSET Leases
               /\ leases' \in [Keys -> Leases \cup {NoLease}]
               /\ \A k \in Keys : k # KeyOf(l) => leases'[k] = leases[k]
               /\ closing' \in SUBSET Sessions
               /\ \/ /\ rest # {}
                     /\ leases'[KeyOf(l)] = l /\ timer' = timer /\ closing' = closing
                  \/ /\ rest = {} /\ (force \/ policy.closeOnRelease)
                     /\ leases'[KeyOf(l)] = NoLease /\ timer' = timer \ {l}
                     /\ closing' = IF leases[KeyOf(l)] = NoLease THEN closing ELSE closing \cup {l[1]}
                  \/ /\ rest = {} /\ ~(force \/ policy.closeOnRelease)
                     /\ leases'[KeyOf(l)] = l /\ timer' = timer \cup {l} /\ closing' = closing
<1>. DEFINE l == at[o]
            rest == bound[l] \ {o[2]}
<1>1. /\ l \in Leases /\ KeyOf(l) \in Keys
      /\ bound' = [bound EXCEPT ![l] = rest]
    BY KeysOfTabs DEF AfterRelease
<1>2. /\ bound' \in [Leases -> SUBSET Tabs] /\ bound'[l] = rest
      /\ \A m \in Leases : m # l => bound'[m] = bound[m]
    BY <1>1 DEF SessionTypeOK
<1>3. CASE rest # {}
    <2>1. leases' = [leases EXCEPT ![KeyOf(l)] = l] /\ UNCHANGED <<timer, closing>>
        BY <1>3 DEF AfterRelease
    <2>. HIDE DEF l, rest
    <2>. QED  BY <1>1, <1>2, <1>3, <2>1 DEF SessionTypeOK, l, rest
<1>4. CASE rest = {} /\ (force \/ policy.closeOnRelease)
    <2>1. finalizeClose(l)
        BY <1>4 DEF AfterRelease
    <2>2. /\ timer' = timer \ {l} /\ timer' \in SUBSET Leases
          /\ leases' \in [Keys -> Leases \cup {NoLease}] /\ leases'[KeyOf(l)] = NoLease
          /\ \A k \in Keys : k # KeyOf(l) => leases'[k] = leases[k]
          /\ closing' \in SUBSET Sessions
          /\ closing' = IF leases[KeyOf(l)] = NoLease THEN closing ELSE closing \cup {l[1]}
        BY <1>1, <2>1, Finalized
    <2>. QED  BY <1>2, <1>4, <2>2
<1>5. CASE rest = {} /\ ~(force \/ policy.closeOnRelease)
    <2>1. leases' = [leases EXCEPT ![KeyOf(l)] = l] /\ timer' = timer \cup {l} /\ UNCHANGED closing
        BY <1>5 DEF AfterRelease
    <2>. HIDE DEF l, rest
    <2>. QED  BY <1>1, <1>2, <1>5, <2>1 DEF SessionTypeOK, l, rest
<1>. QED  BY <1>3, <1>4, <1>5

LEMMA Acquired ==
    ASSUME SessionTypeOK, NEW t \in Tabs, NEW queue, acquire(<<"job", t>>, t, queue)
    PROVE  LET o == <<"job", t>>
               k == buildSessionKey(t)
               l == leases[k]
           IN  /\ pc' \in [Ops -> Places] /\ at' \in [Ops -> Leases \cup {NoLease}] /\ at'[o] = NoLease
               /\ \A q \in Ops : q # o => pc'[q] = pc[q] /\ at'[q] = at[q]
               /\ micro' = queue
               /\ shown' \in [Tabs -> 0..MaxOpens] /\ \A u \in Tabs : u # t => shown'[u] = shown[u]
               /\ bound' \in [Leases -> SUBSET Tabs]
               /\ inflight' \in [Keys -> Seq(Tabs)] /\ \A h \in Keys : h # k => inflight'[h] = inflight[h]
               /\ timer' \in SUBSET Leases
               /\ \/ /\ l \in Leases /\ pc'[o] = "idle" /\ shown'[t] = l[1]
                     /\ timer' = timer \ {l} /\ bound'[l] = bound[l] \cup {t}
                     /\ \A m \in Leases : m # l => bound'[m] = bound[m]
                     /\ inflight' = inflight
                  \/ /\ l = NoLease /\ pc'[o] = "opening"
                     /\ inflight'[k] = Append(inflight[k], t)
                     /\ UNCHANGED <<timer, bound, shown>>
<1>. DEFINE o == <<"job", t>>
            k == buildSessionKey(t)
            l == leases[k]
<1>1. k \in Keys /\ o \in Ops /\ l \in Leases \cup {NoLease}
    BY KeysOfTabs, OpsAre DEF SessionTypeOK
<1>2. CASE l # NoLease
    <2>1. /\ timer' = timer \ {l}
          /\ bound' = [bound EXCEPT ![l] = @ \cup {t}]
          /\ shown' = [shown EXCEPT ![t] = l[1]]
          /\ GoesTo(o, "idle", NoLease)
          /\ micro' = queue
          /\ inflight' = inflight
        BY <1>2 DEF acquire
    <2>2. /\ pc' \in [Ops -> Places] /\ at' \in [Ops -> Leases \cup {NoLease}] /\ at'[o] = NoLease
          /\ pc'[o] = "idle"
          /\ \A q \in Ops : q # o => pc'[q] = pc[q] /\ at'[q] = at[q]
        BY <1>1, <2>1, Moves DEF Places
    <2>3. l \in Leases /\ l[1] \in 0..MaxOpens
        BY <1>1, <1>2, LeaseParts, SessionAssumption DEF Sessions
    <2>. HIDE DEF l, k, o
    <2>4. /\ shown' \in [Tabs -> 0..MaxOpens] /\ shown'[t] = l[1]
          /\ \A u \in Tabs : u # t => shown'[u] = shown[u]
        BY <2>1, <2>3 DEF SessionTypeOK
    <2>5. /\ bound' \in [Leases -> SUBSET Tabs] /\ bound'[l] = bound[l] \cup {t}
          /\ \A m \in Leases : m # l => bound'[m] = bound[m]
        BY <2>1, <2>3 DEF SessionTypeOK
    <2>6. timer' \in SUBSET Leases /\ inflight' \in [Keys -> Seq(Tabs)]
        BY <2>1 DEF SessionTypeOK
    <2>. QED  BY <2>1, <2>2, <2>3, <2>4, <2>5, <2>6 DEF l, k, o
<1>3. CASE l = NoLease
    <2>1. /\ inflight' = [inflight EXCEPT ![k] = Append(@, t)]
          /\ GoesTo(o, "opening", NoLease)
          /\ micro' = queue
          /\ UNCHANGED <<timer, bound, shown>>
        BY <1>3 DEF acquire
    <2>2. /\ pc' \in [Ops -> Places] /\ at' \in [Ops -> Leases \cup {NoLease}] /\ at'[o] = NoLease
          /\ pc'[o] = "opening"
          /\ \A q \in Ops : q # o => pc'[q] = pc[q] /\ at'[q] = at[q]
        BY <1>1, <2>1, Moves DEF Places
    <2>. HIDE DEF l, k, o
    <2>3. Append(inflight[k], t) \in Seq(Tabs)
        BY <1>1 DEF SessionTypeOK
    <2>4. /\ inflight' \in [Keys -> Seq(Tabs)] /\ inflight'[k] = Append(inflight[k], t)
          /\ \A h \in Keys : h # k => inflight'[h] = inflight[h]
        BY <1>1, <2>1, <2>3 DEF SessionTypeOK
    <2>5. timer' \in SUBSET Leases /\ bound' \in [Leases -> SUBSET Tabs] /\ shown' \in [Tabs -> 0..MaxOpens]
        BY <2>1 DEF SessionTypeOK
    <2>. QED  BY <1>3, <2>1, <2>2, <2>4, <2>5 DEF l, k, o
<1>. QED  BY <1>2, <1>3

\* A queue that an operation may have joined.
Joined(queue, o) ==
    /\ micro' \in Seq(Ops) /\ NoRepeat(micro')
    /\ ToSet(micro') = ToSet(queue) \/ ToSet(micro') = ToSet(queue) \cup {o}

LEMMA Awaits ==
    ASSUME SessionTypeOK, NEW o \in Ops, NEW l \in Leases, NEW queue \in Seq(Ops),
           o \notin ToSet(queue), NoRepeat(queue), AwaitHooks(o, l, queue)
    PROVE  /\ pc' \in [Ops -> Places] /\ pc'[o] = "cleanup"
           /\ at' \in [Ops -> Leases \cup {NoLease}] /\ at'[o] = l
           /\ \A q \in Ops : q # o => pc'[q] = pc[q] /\ at'[q] = at[q]
           /\ Joined(queue, o)
           /\ ~policy.slow => o \in ToSet(micro')
<1>1. GoesTo(o, "cleanup", l) /\ micro' = IF policy.slow THEN queue ELSE Append(queue, o)
    BY DEF AwaitHooks
<1>2. /\ pc' \in [Ops -> Places] /\ pc'[o] = "cleanup"
      /\ at' \in [Ops -> Leases \cup {NoLease}] /\ at'[o] = l
      /\ \A q \in Ops : q # o => pc'[q] = pc[q] /\ at'[q] = at[q]
    BY <1>1, Moves DEF Places
<1>3. /\ Append(queue, o) \in Seq(Ops) /\ NoRepeat(Append(queue, o))
      /\ ToSet(Append(queue, o)) = ToSet(queue) \cup {o}
    BY QueueAppend
<1>. QED  BY <1>1, <1>2, <1>3 DEF Joined

LEMMA NextLeaseStarts ==
    ASSUME SessionTypeOK, NEW d \in Drops, NEW rest \in SUBSET Leases, NEW queue \in Seq(Ops),
           <<"drop", d>> \notin ToSet(queue), NoRepeat(queue), NextLease(d, rest, queue)
    PROVE  LET o == <<"drop", d>>
           IN  /\ pc' \in [Ops -> Places] /\ at' \in [Ops -> Leases \cup {NoLease}]
               /\ \A q \in Ops : q # o => pc'[q] = pc[q] /\ at'[q] = at[q]
               /\ todo' \in [Drops -> SUBSET Leases] /\ \A e \in Drops : e # d => todo'[e] = todo[e]
               /\ Joined(queue, o)
               /\ \/ /\ rest = {} /\ todo'[d] = {} /\ pc'[o] = "idle" /\ at'[o] = NoLease
                  \/ /\ at'[o] \in rest /\ todo'[d] = rest \ {at'[o]} /\ pc'[o] = "cleanup"
                     /\ ~policy.slow => o \in ToSet(micro')
<1>. DEFINE o == <<"drop", d>>
<1>0. o \in Ops
    BY OpsAre
<1>1. CASE rest = {}
    <2>1. GoesTo(o, "idle", NoLease) /\ todo' = [todo EXCEPT ![d] = {}] /\ micro' = queue
        BY <1>1 DEF NextLease
    <2>2. /\ pc' \in [Ops -> Places] /\ pc'[o] = "idle"
          /\ at' \in [Ops -> Leases \cup {NoLease}] /\ at'[o] = NoLease
          /\ \A q \in Ops : q # o => pc'[q] = pc[q] /\ at'[q] = at[q]
        BY <1>0, <2>1, Moves DEF Places
    <2>3. /\ todo' \in [Drops -> SUBSET Leases] /\ todo'[d] = {}
          /\ \A e \in Drops : e # d => todo'[e] = todo[e]
        BY <2>1 DEF SessionTypeOK
    <2>. QED  BY <1>1, <2>1, <2>2, <2>3 DEF Joined
<1>2. CASE rest # {}
    <2>1. PICK l \in rest :
            /\ todo' = [todo EXCEPT ![d] = rest \ {l}]
            /\ IF bound[l] = {}
               THEN GoesTo(o, "cleanup", l) /\ micro' = <<o>> \o queue
               ELSE AwaitHooks(o, l, queue)
        BY <1>2 DEF NextLease
    <2>2. /\ todo' \in [Drops -> SUBSET Leases] /\ todo'[d] = rest \ {l}
          /\ \A e \in Drops : e # d => todo'[e] = todo[e]
        BY <2>1 DEF SessionTypeOK
    <2>3. /\ pc' \in [Ops -> Places] /\ pc'[o] = "cleanup"
          /\ at' \in [Ops -> Leases \cup {NoLease}] /\ at'[o] = l
          /\ \A q \in Ops : q # o => pc'[q] = pc[q] /\ at'[q] = at[q]
          /\ Joined(queue, o)
          /\ ~policy.slow => o \in ToSet(micro')
        <3>1. CASE bound[l] = {}
            <4>1. GoesTo(o, "cleanup", l) /\ micro' = <<o>> \o queue
                BY <2>1, <3>1
            <4>2. /\ pc' \in [Ops -> Places] /\ pc'[o] = "cleanup"
                  /\ at' \in [Ops -> Leases \cup {NoLease}] /\ at'[o] = l
                  /\ \A q \in Ops : q # o => pc'[q] = pc[q] /\ at'[q] = at[q]
                BY <1>0, <4>1, Moves DEF Places
            <4>3. /\ micro' \in Seq(Ops) /\ NoRepeat(micro')
                  /\ ToSet(micro') = ToSet(queue) \cup {o}
                BY <1>0, <4>1, QueueCons
            <4>. QED  BY <4>2, <4>3 DEF Joined
        <3>2. CASE bound[l] # {}
            BY <1>0, <2>1, <3>2, Awaits
        <3>. QED  BY <3>1, <3>2
    <2>. QED  BY <2>2, <2>3
<1>. QED  BY <1>1, <1>2

LEMMA Found ==
    ASSUME SessionTypeOK, NEW t \in Tabs, getLeaseByTabId(t) # NoLease
    PROVE  LET l == getLeaseByTabId(t)
           IN  l \in Leases /\ t \in bound[l] /\ \E k \in Keys : leases[k] = l
BY DEF SessionTypeOK, getLeaseByTabId

LEMMA NotFound ==
    ASSUME SessionTypeOK, NEW t \in Tabs, getLeaseByTabId(t) = NoLease
    PROVE  \A k \in Keys : leases[k] # NoLease => t \notin bound[leases[k]]
BY DEF SessionTypeOK, getLeaseByTabId

LEMMA InTable ==
    ASSUME SessionTypeOK, NEW S
    PROVE  /\ LeasesIn(S) \in SUBSET Leases
           /\ \A l \in LeasesIn(S) : l[1] \in S /\ \E k \in Keys : leases[k] = l
BY DEF SessionTypeOK, LeasesIn

-----------------------------------------------------------------------------
(* TypeInv is kept.                                                        *)

\* A step that changes the place of o only; `queue` is what is left of the queue.
LEMMA OnePlace ==
    ASSUME TypeInv, kind' = kind, NEW o \in Ops,
           \A q \in Ops : q # o => pc'[q] = pc[q] /\ at'[q] = at[q],
           o[1] = "close" => pc'[o] \in {"idle", "cleanup"},
           o[1] = "drop" => pc'[o] \in {"idle", "cleanup", "closing"},
           pc'[o] \in {"cleanup", "closing"} => at'[o] \in Leases,
           o = <<"drop", "lost">> => pc'[o] # "closing",
           o[1] # "drop" /\ pc'[o] = "cleanup" => KeyOf(at'[o]) = buildSessionKey(o[2])
    PROVE  PlaceInv'
<1>1. <<"drop", "lost">> \in Ops
    BY OpsAre DEF Drops
<1>. QED  BY <1>1, KindStays DEF TypeInv, PlaceInv

LEMMA OneQueued ==
    ASSUME TypeInv, kind' = kind, NEW o \in Ops,
           \A q \in Ops : q # o => pc'[q] = pc[q],
           \A k \in Keys : NoRepeat(inflight'[k]),
           NEW queue \in Seq(Ops), ToSet(queue) = Queued \ {o}, Joined(queue, o),
           pc'[o] \in {"reconnect", "reacquire", "opened"} \/ (pc'[o] = "cleanup" /\ ~policy.slow)
               => o \in ToSet(micro')
    PROVE  QueuedInv'
<1>1. NoRepeat(micro') /\ (ToSet(micro') = Queued \ {o} \/ ToSet(micro') = (Queued \ {o}) \cup {o})
    BY DEF Joined
<1>2. policy' = policy /\ Keys' = Keys
    BY KindStays
<1>3. ASSUME NEW q \in Ops,
             pc'[q] \in {"reconnect", "reacquire", "opened"} \/ (pc'[q] = "cleanup" /\ ~policy.slow)
      PROVE  q \in ToSet(micro')
    BY <1>1, <1>3 DEF TypeInv, QueuedInv
<1>. QED  BY <1>1, <1>2, <1>3 DEF QueuedInv, Queued, NoRepeat

LEMMA NotWaiting ==
    ASSUME TypeInv, NEW t \in Tabs, pc[<<"job", t>>] # "opening"
    PROVE  \A k \in Keys : t \notin ToSet(inflight[k])
BY DEF TypeInv, KeyedInv

\* What acquire does, by a callback or a microtask.
LEMMA AcquireType ==
    ASSUME TypeInv, kind' = kind, NEW t \in Tabs, pc[<<"job", t>>] # "opening",
           NEW queue \in Seq(Ops), NoRepeat(queue), ToSet(queue) = Queued \ {<<"job", t>>},
           acquire(<<"job", t>>, t, queue),
           UNCHANGED <<kind, tab, stray, leases, serviceVars, todo>>, troubles' = troubles
    PROVE  TypeInv'
<1>. DEFINE o == <<"job", t>>
            k == buildSessionKey(t)
            l == leases[k]
<1>0. SessionTypeOK /\ o \in Ops /\ k \in Keys /\ o[1] = "job" /\ o[2] = t
    BY OpsAre, KeysOfTabs DEF TypeInv
<1>1. /\ pc' \in [Ops -> Places] /\ at' \in [Ops -> Leases \cup {NoLease}] /\ at'[o] = NoLease
      /\ \A q \in Ops : q # o => pc'[q] = pc[q] /\ at'[q] = at[q]
      /\ micro' = queue
      /\ shown' \in [Tabs -> 0..MaxOpens]
      /\ bound' \in [Leases -> SUBSET Tabs]
      /\ inflight' \in [Keys -> Seq(Tabs)] /\ \A h \in Keys : h # k => inflight'[h] = inflight[h]
      /\ timer' \in SUBSET Leases
      /\ \/ /\ l \in Leases /\ pc'[o] = "idle"
            /\ bound'[l] = bound[l] \cup {t}
            /\ \A m \in Leases : m # l => bound'[m] = bound[m]
            /\ inflight' = inflight
         \/ /\ l = NoLease /\ pc'[o] = "opening"
            /\ inflight'[k] = Append(inflight[k], t)
            /\ UNCHANGED <<timer, bound, shown>>
    BY <1>0, Acquired
<1>. HIDE DEF o, k, l
<1>2. policy' = policy /\ Keys' = Keys /\ (\A u : buildSessionKey(u)' = buildSessionKey(u)) /\ (\A m : KeyOf(m)' = KeyOf(m))
    BY KindStays
<1>3. SessionTypeOK'
    BY <1>0, <1>1, <1>2 DEF SessionTypeOK, serviceVars
<1>4. PlaceInv'
    <2>. pc'[o] \in {"idle", "opening"}
        BY <1>1
    <2>. QED  BY <1>0, <1>1, OnePlace
<1>5. t \notin ToSet(inflight[k]) /\ NoRepeat(inflight[k]) /\ inflight[k] \in Seq(Tabs)
    BY <1>0, NotWaiting DEF TypeInv, QueuedInv, SessionTypeOK, o
<1>6. /\ ToSet(Append(inflight[k], t)) = ToSet(inflight[k]) \cup {t}
      /\ NoRepeat(Append(inflight[k], t))
    BY <1>5, QueueAppend
<1>7. KeyedInv'
    <2>1. ASSUME NEW h \in Keys, leases'[h] # NoLease
          PROVE  KeyOf(leases'[h]) = h
        BY <2>1 DEF TypeInv, KeyedInv
    <2>2. ASSUME NEW m \in Leases, NEW u \in bound'[m]
          PROVE  buildSessionKey(u) = KeyOf(m)
        <3>1. u \in bound[m] \/ (m = l /\ u = t)
            BY <1>1, <2>2
        <3>2. l \in Leases => KeyOf(l) = k
            BY <1>0, LeaseParts DEF TypeInv, KeyedInv, l
        <3>. QED  BY <2>2, <3>1, <3>2 DEF TypeInv, KeyedInv, k
    <2>3. ASSUME NEW h \in Keys, NEW u \in ToSet(inflight'[h])
          PROVE  buildSessionKey(u) = h /\ pc'[<<"job", u>>] = "opening"
        <3>1. CASE u \in ToSet(inflight[h])
            <4>1. u \in Tabs
                BY <3>1 DEF ToSet, TypeInv, SessionTypeOK
            <4>2. u # t
                BY <3>1, NotWaiting
            <4>3. <<"job", u>> \in Ops /\ <<"job", u>> # o
                BY <4>1, <4>2, OpsAre DEF o
            <4>. QED  BY <3>1, <4>3, <1>1 DEF TypeInv, KeyedInv
        <3>2. CASE u \notin ToSet(inflight[h])
            <4>1. h = k /\ inflight'[k] = Append(inflight[k], t) /\ pc'[o] = "opening"
                BY <1>1, <2>3, <3>2
            <4>2. u = t
                BY <4>1, <1>6, <2>3, <3>2
            <4>. QED  BY <4>1, <4>2 DEF o, k
        <3>. QED  BY <3>1, <3>2
    <2>. QED  BY <1>2, <2>1, <2>2, <2>3 DEF KeyedInv
<1>8. QueuedInv'
    <2>1. \A h \in Keys : NoRepeat(inflight'[h])
        BY <1>1, <1>6 DEF TypeInv, QueuedInv
    <2>2. pc'[o] \in {"idle", "opening"}
        BY <1>1
    <2>3. Joined(queue, o)
        BY <1>1 DEF Joined
    <2>4. ToSet(queue) = Queued \ {o}
        BY DEF o
    <2>. QED  BY <1>0, <1>1, <2>1, <2>2, <2>3, <2>4, OneQueued
<1>9. Opening' # {} => newest' \in Sessions
    <2>1. Opening' \subseteq Opening
        BY <1>1 DEF Opening
    <2>. QED  BY <2>1 DEF TypeInv, serviceVars, Sessions
<1>. QED  BY <1>3, <1>4, <1>7, <1>8, <1>9 DEF TypeInv, Sessions

LEMMA ProfileLoadedType ==
    ASSUME TypeInv, NEW t \in Tabs, ProfileLoaded(t)
    PROVE  TypeInv'
<1>1. /\ micro = <<>> /\ troubles' = troubles
      /\ pc[<<"job", t>>] = "loading"
      /\ acquire(<<"job", t>>, t, micro)
      /\ UNCHANGED <<kind, tab, stray, leases, serviceVars, todo>>
    BY DEF ProfileLoaded, Quiet
<1>2. micro \in Seq(Ops) /\ NoRepeat(micro) /\ ToSet(micro) = Queued \ {<<"job", t>>}
    BY <1>1, QueueEmpty DEF Queued
<1>. QED  BY <1>1, <1>2, AcquireType

LEMMA OpenTabType ==
    ASSUME TypeInv, TabInv, NEW t \in Tabs, OpenTab(t)
    PROVE  TypeInv'
<1>. DEFINE o == <<"job", t>>
<1>0. o \in Ops /\ o[1] = "job" /\ o[2] = t
    BY OpsAre
<1>1. /\ micro = <<>> /\ troubles' = troubles /\ tab[t] = "absent"
      /\ tab' = [tab EXCEPT ![t] = "open"]
      /\ pc' = [pc EXCEPT ![o] = "loading"]
      /\ UNCHANGED <<kind, shown, stray, registry, serviceVars, at, todo, micro>>
    BY DEF OpenTab, Quiet
<1>. HIDE DEF o
<1>2. pc' \in [Ops -> Places] /\ pc'[o] = "loading" /\ \A q \in Ops : q # o => pc'[q] = pc[q] /\ at'[q] = at[q]
    BY <1>0, <1>1 DEF TypeInv, SessionTypeOK, Places
<1>3. policy' = policy /\ Keys' = Keys /\ (\A u : buildSessionKey(u)' = buildSessionKey(u)) /\ (\A m : KeyOf(m)' = KeyOf(m))
    BY <1>1, KindStays
<1>4. SessionTypeOK'
    <2>1. tab' \in [Tabs -> {"absent", "open", "closed"}]
        BY <1>1 DEF TypeInv, SessionTypeOK
    <2>. QED  BY <1>1, <1>2, <1>3, <2>1 DEF TypeInv, SessionTypeOK, registry, serviceVars
<1>5. PlaceInv'
    BY <1>0, <1>1, <1>2, OnePlace
<1>6. KeyedInv'
    <2>1. pc[o] = "idle"
        BY <1>1 DEF TabInv, o
    <2>2. \A k \in Keys : \A u \in ToSet(inflight[k]) : <<"job", u>> # o
        <3>. SUFFICES ASSUME NEW k \in Keys, NEW u \in ToSet(inflight[k]), <<"job", u>> = o PROVE FALSE
            OBVIOUS
        <3>1. pc[<<"job", u>>] = "opening"
            BY DEF TypeInv, KeyedInv
        <3>. QED  BY <2>1, <3>1
    <2>3. \A k \in Keys : \A u \in ToSet(inflight[k]) : u \in Tabs
        BY DEF TypeInv, SessionTypeOK, ToSet
    <2>4. \A k \in Keys : \A u \in ToSet(inflight[k]) : <<"job", u>> \in Ops
        BY <2>3, OpsAre
    <2>5. ASSUME NEW k \in Keys, NEW u \in ToSet(inflight[k])
          PROVE  buildSessionKey(u) = k /\ pc'[<<"job", u>>] = "opening"
        BY <2>2, <2>4, <1>2 DEF TypeInv, KeyedInv
    <2>. QED  BY <1>1, <1>3, <2>5 DEF TypeInv, KeyedInv, registry
<1>7. QueuedInv'
    <2>1. micro \in Seq(Ops) /\ NoRepeat(micro) /\ ToSet(micro) = Queued \ {o}
        BY <1>1, QueueEmpty DEF Queued
    <2>2. Joined(micro, o)
        BY <1>1, <2>1 DEF Joined
    <2>3. \A k \in Keys : NoRepeat(inflight'[k])
        BY <1>1 DEF TypeInv, QueuedInv, registry
    <2>. QED  BY <1>0, <1>1, <1>2, <2>1, <2>2, <2>3, OneQueued
<1>8. Opening' \subseteq Opening
    BY <1>2 DEF Opening
<1>. QED  BY <1>1, <1>4, <1>5, <1>6, <1>7, <1>8 DEF TypeInv, serviceVars, Sessions

LEMMA CloseTabType ==
    ASSUME TypeInv, NEW t \in Tabs, CloseTab(t)
    PROVE  TypeInv'
<1>. DEFINE o == <<"close", t>>
            l == getLeaseByTabId(t)
<1>0. o \in Ops /\ o[1] = "close" /\ o[2] = t /\ <<"drop", "lost">> # o
    BY OpsAre
<1>1. /\ micro = <<>> /\ troubles' = troubles /\ tab[t] = "open"
      /\ tab' = [tab EXCEPT ![t] = "closed"]
      /\ stray' \in {stray, stray \cup {t}}
      /\ IF l = NoLease THEN UNCHANGED <<pc, at, micro>> ELSE AwaitHooks(o, l, micro)
      /\ UNCHANGED <<kind, shown, registry, serviceVars, todo>>
    BY DEF CloseTab, Quiet
<1>2. micro \in Seq(Ops) /\ NoRepeat(micro) /\ ToSet(micro) = Queued \ {o} /\ o \notin ToSet(micro)
    BY <1>1, QueueEmpty DEF Queued
<1>3. /\ pc' \in [Ops -> Places] /\ at' \in [Ops -> Leases \cup {NoLease}]
      /\ \A q \in Ops : q # o => pc'[q] = pc[q] /\ at'[q] = at[q]
      /\ Joined(micro, o)
      /\ \/ pc' = pc /\ at' = at /\ micro' = micro
         \/ /\ l \in Leases /\ t \in bound[l] /\ pc'[o] = "cleanup" /\ at'[o] = l
            /\ ~policy.slow => o \in ToSet(micro')
    <2>1. CASE l = NoLease
        BY <1>1, <1>2, <2>1 DEF TypeInv, SessionTypeOK, Joined
    <2>2. CASE l # NoLease
        <3>1. l \in Leases /\ t \in bound[l]
            BY <2>2, Found DEF TypeInv
        <3>2. AwaitHooks(o, l, micro)
            BY <1>1, <2>2
        <3>. HIDE DEF l, o
        <3>3. /\ pc' \in [Ops -> Places] /\ pc'[o] = "cleanup"
              /\ at' \in [Ops -> Leases \cup {NoLease}] /\ at'[o] = l
              /\ \A q \in Ops : q # o => pc'[q] = pc[q] /\ at'[q] = at[q]
              /\ Joined(micro, o)
              /\ ~policy.slow => o \in ToSet(micro')
            BY <1>0, <1>2, <3>1, <3>2, Awaits DEF TypeInv
        <3>. QED  BY <3>1, <3>3
    <2>. QED  BY <2>1, <2>2
<1>. HIDE DEF o, l
<1>4. policy' = policy /\ Keys' = Keys /\ (\A u : buildSessionKey(u)' = buildSessionKey(u)) /\ (\A m : KeyOf(m)' = KeyOf(m))
    BY <1>1, KindStays
<1>5. SessionTypeOK'
    <2>1. tab' \in [Tabs -> {"absent", "open", "closed"}] /\ micro' \in Seq(Ops)
        BY <1>1, <1>3 DEF TypeInv, SessionTypeOK, Joined
    <2>. QED  BY <1>1, <1>3, <1>4, <2>1 DEF TypeInv, SessionTypeOK, registry, serviceVars
<1>6. PlaceInv'
    <2>1. CASE pc' = pc /\ at' = at
        BY <1>4, <2>1 DEF TypeInv, PlaceInv
    <2>2. CASE l \in Leases /\ t \in bound[l] /\ pc'[o] = "cleanup" /\ at'[o] = l
        <3>1. KeyOf(l) = buildSessionKey(t)
            BY <2>2 DEF TypeInv, KeyedInv
        <3>. QED  BY <1>0, <1>1, <1>3, <2>2, <3>1, OnePlace
    <2>. QED  BY <1>3, <2>1, <2>2
<1>7. KeyedInv'
    <2>1. ASSUME NEW k \in Keys, NEW u \in ToSet(inflight[k])
          PROVE  buildSessionKey(u) = k /\ pc'[<<"job", u>>] = "opening"
        <3>1. u \in Tabs
            BY DEF TypeInv, SessionTypeOK, ToSet
        <3>2. <<"job", u>> \in Ops /\ <<"job", u>> # o
            BY <3>1, OpsAre DEF o
        <3>. QED  BY <3>2, <1>3 DEF TypeInv, KeyedInv
    <2>. QED  BY <1>1, <1>4, <2>1 DEF TypeInv, KeyedInv, registry
<1>8. QueuedInv'
    <2>1. \A k \in Keys : NoRepeat(inflight'[k])
        BY <1>1 DEF TypeInv, QueuedInv, registry
    <2>2. pc[o] \in {"idle", "cleanup"}
        BY <1>0 DEF TypeInv, PlaceInv
    <2>3. pc[o] = "cleanup" => policy.slow
        BY <1>0, <1>2 DEF TypeInv, QueuedInv, Queued
    <2>. QED  BY <1>0, <1>1, <1>2, <1>3, <2>1, <2>2, <2>3, OneQueued
<1>9. Opening' \subseteq Opening
    BY <1>0, <1>3 DEF Opening
<1>. QED  BY <1>1, <1>5, <1>6, <1>7, <1>8, <1>9 DEF TypeInv, serviceVars, Sessions

\* Steps that leave the places of the operations alone.
LEMMA SamePlaces ==
    ASSUME TypeInv, UNCHANGED <<kind, pc, at, bound, inflight>>,
           \A k \in Keys : leases'[k] \in {leases[k], NoLease}
    PROVE  PlaceInv' /\ KeyedInv' /\ Opening' = Opening
<1>1. policy' = policy /\ Keys' = Keys /\ (\A u : buildSessionKey(u)' = buildSessionKey(u)) /\ (\A m : KeyOf(m)' = KeyOf(m))
    BY KindStays
<1>2. PlaceInv'
    BY <1>1 DEF TypeInv, PlaceInv
<1>3. KeyedInv'
    BY <1>1 DEF TypeInv, KeyedInv
<1>. QED  BY <1>2, <1>3 DEF Opening

LEMMA ReconnectingType ==
    ASSUME TypeInv, NEW order \in Seq(Tabs), NoRepeat(order),
           \A t \in ToSet(order) : t \in Idling, Reconnecting(order)
    PROVE  TypeInv'
<1>. DEFINE J == {<<"job", t>> : t \in ToSet(order)}
<1>1. /\ micro = <<>> /\ troubles < MaxTroubles /\ troubles' = troubles + 1
      /\ pc' = [o \in Ops |-> IF o \in J THEN "reconnect" ELSE pc[o]]
      /\ micro' = [i \in DOMAIN order |-> <<"job", order[i]>>]
      /\ stray' = stray \cup {t \in ToSet(order) : tab[t] = "closed"}
      /\ UNCHANGED <<kind, tab, shown, registry, serviceVars, at, todo>>
    BY DEF Reconnecting, Trouble
<1>2. micro' \in Seq(Ops) /\ NoRepeat(micro') /\ ToSet(micro') = J
    BY <1>1, QueueOfJobs
<1>3. ToSet(order) \subseteq Tabs
    BY DEF ToSet
<1>4. \A o \in J : o \in Ops /\ o[1] = "job" /\ pc[o] = "idle"
    BY <1>3, OpsAre DEF Idling
<1>. HIDE DEF J
<1>5. policy' = policy /\ Keys' = Keys /\ (\A u : buildSessionKey(u)' = buildSessionKey(u)) /\ (\A m : KeyOf(m)' = KeyOf(m))
    BY <1>1, KindStays
<1>6. /\ pc' \in [Ops -> Places]
      /\ \A o \in J : pc'[o] = "reconnect"
      /\ \A o \in Ops \ J : pc'[o] = pc[o]
    BY <1>1, <1>4 DEF TypeInv, SessionTypeOK, Places
<1>7. SessionTypeOK'
    <2>1. troubles' \in 0..MaxTroubles
        BY <1>1, SessionAssumption DEF TypeInv, SessionTypeOK
    <2>2. stray' \subseteq Tabs
        BY <1>1, <1>3 DEF TypeInv, SessionTypeOK
    <2>. QED  BY <1>1, <1>2, <1>5, <1>6, <2>1, <2>2 DEF TypeInv, SessionTypeOK, registry, serviceVars
<1>8. PlaceInv'
    <2>1. <<"drop", "lost">> \in Ops \ J
        BY <1>4, OpsAre DEF Drops
    <2>2. \A o \in Ops : pc'[o] \in {"cleanup", "closing"} => pc'[o] = pc[o]
        BY <1>6
    <2>3. \A o \in Ops : o[1] \in {"close", "drop"} => pc'[o] = pc[o]
        BY <1>4, <1>6
    <2>. QED  BY <1>1, <1>5, <2>1, <2>2, <2>3, <1>6 DEF TypeInv, PlaceInv
<1>9. KeyedInv'
    <2>1. ASSUME NEW k \in Keys, NEW u \in ToSet(inflight[k])
          PROVE  buildSessionKey(u) = k /\ pc'[<<"job", u>>] = "opening"
        <3>1. u \in Tabs
            BY DEF TypeInv, SessionTypeOK, ToSet
        <3>2. <<"job", u>> \in Ops /\ pc[<<"job", u>>] = "opening"
            BY <3>1, OpsAre DEF TypeInv, KeyedInv
        <3>. QED  BY <3>2, <1>4, <1>6 DEF TypeInv, KeyedInv
    <2>. QED  BY <1>1, <1>5, <2>1 DEF TypeInv, KeyedInv, registry
<1>10. QueuedInv'
    <2>1. \A o \in Ops : ~(pc[o] \in {"reconnect", "reacquire", "opened"} \/ (pc[o] = "cleanup" /\ ~policy.slow))
        BY <1>1, QueueEmpty DEF TypeInv, QueuedInv, Queued
    <2>. QED  BY <1>1, <1>2, <1>5, <1>6, <2>1 DEF TypeInv, QueuedInv, Queued, registry
<1>11. Opening' \subseteq Opening
    BY <1>4, <1>6 DEF Opening
<1>. QED  BY <1>1, <1>7, <1>8, <1>9, <1>10, <1>11 DEF TypeInv, serviceVars, Sessions

LEMMA ReconnectType ==
    ASSUME TypeInv, NEW t \in Tabs, Reconnect(t)
    PROVE  TypeInv'
<1>1. t \in Idling /\ Reconnecting(<<t>>)
    BY DEF Reconnect
<1>2. <<t>> \in Seq(Tabs) /\ NoRepeat(<<t>>) /\ ToSet(<<t>>) = {t}
    BY QueueOne
<1>. QED  BY <1>1, <1>2, ReconnectingType

LEMMA RequestReconnectType ==
    ASSUME TypeInv, RequestReconnect
    PROVE  TypeInv'
<1>1. PICK order \in SetToSeqs(Idling) : Reconnecting(order)
    BY DEF RequestReconnect
<1>2. order \in Seq(Idling) /\ order \in Seq(Tabs) /\ NoRepeat(order)
    BY Orders DEF Idling
<1>3. ToSet(order) \subseteq Idling
    BY <1>2 DEF ToSet
<1>. QED  BY <1>1, <1>2, <1>3, ReconnectingType

LEMMA HooksDoneType ==
    ASSUME TypeInv, NEW o \in Ops, HooksDone(o)
    PROVE  TypeInv'
<1>1. /\ micro = <<>> /\ troubles' = troubles /\ policy.slow /\ pc[o] = "cleanup"
      /\ micro' = <<o>>
      /\ UNCHANGED <<kind, view, registry, serviceVars, pc, at, todo>>
    BY DEF HooksDone, Quiet
<1>2. micro' \in Seq(Ops) /\ NoRepeat(micro') /\ ToSet(micro') = {o}
    BY <1>1, QueueOne
<1>3. policy' = policy /\ Keys' = Keys
    BY <1>1, KindStays
<1>4. SessionTypeOK'
    BY <1>1, <1>2, <1>3 DEF TypeInv, SessionTypeOK, view, registry, serviceVars
<1>5. PlaceInv' /\ KeyedInv' /\ Opening' = Opening
    BY <1>1, SamePlaces DEF registry
<1>6. QueuedInv'
    <2>1. \A q \in Ops : ~(pc[q] \in {"reconnect", "reacquire", "opened"} \/ (pc[q] = "cleanup" /\ ~policy.slow))
        BY <1>1, QueueEmpty DEF TypeInv, QueuedInv, Queued
    <2>. QED  BY <1>1, <1>2, <1>3, <2>1 DEF TypeInv, QueuedInv, Queued, registry
<1>. QED  BY <1>1, <1>4, <1>5, <1>6 DEF TypeInv, serviceVars, Sessions

LEMMA WaitersAre ==
    ASSUME TypeInv, NEW k \in Keys
    PROVE  /\ inflight[k] \in Seq(Tabs) /\ NoRepeat(inflight[k]) /\ ToSet(inflight[k]) \subseteq Tabs
           /\ \A t \in ToSet(inflight[k]) : buildSessionKey(t) = k
           /\ \A o \in {<<"job", t>> : t \in ToSet(inflight[k])} : o \in Ops /\ o[1] = "job" /\ pc[o] = "opening"
<1>1. inflight[k] \in Seq(Tabs) /\ NoRepeat(inflight[k])
    BY DEF TypeInv, SessionTypeOK, QueuedInv
<1>2. ToSet(inflight[k]) \subseteq Tabs
    BY <1>1 DEF ToSet
<1>. QED  BY <1>1, <1>2, OpsAre DEF TypeInv, KeyedInv

LEMMA OpenReturnsType ==
    ASSUME TypeInv, NEW k \in Keys, OpenReturns(k)
    PROVE  TypeInv'
<1>. DEFINE J == {<<"job", t>> : t \in ToSet(inflight[k])}
<1>1. /\ micro = <<>> /\ troubles' = troubles /\ newest < MaxOpens
      /\ newest' = newest + 1
      /\ remote' = remote \cup {newest + 1}
      /\ overtaken' = IF exited THEN overtaken \cup {newest + 1} ELSE overtaken
      /\ raced' \in BOOLEAN
      /\ pc' = [o \in Ops |-> IF o \in J THEN "opened" ELSE pc[o]]
      /\ micro' = [i \in DOMAIN inflight[k] |-> <<"job", inflight[k][i]>>]
      /\ inflight' = [inflight EXCEPT ![k] = <<>>]
      /\ UNCHANGED <<kind, view, leases, bound, timer, closing, lost, exited, at, todo>>
    BY DEF OpenReturns, Quiet, TypeInv, SessionTypeOK
<1>2. micro' \in Seq(Ops) /\ NoRepeat(micro') /\ ToSet(micro') = J
    BY <1>1, WaitersAre, QueueOfJobs
<1>3. \A o \in J : o \in Ops /\ o[1] = "job" /\ pc[o] = "opening"
    BY WaitersAre
<1>4. \A u \in Tabs : <<"job", u>> \in J <=> u \in ToSet(inflight[k])
    OBVIOUS
<1>. HIDE DEF J
<1>5. policy' = policy /\ Keys' = Keys /\ (\A u : buildSessionKey(u)' = buildSessionKey(u)) /\ (\A m : KeyOf(m)' = KeyOf(m))
    BY <1>1, KindStays
<1>6. /\ pc' \in [Ops -> Places]
      /\ \A o \in J : pc'[o] = "opened"
      /\ \A o \in Ops \ J : pc'[o] = pc[o]
    BY <1>1, <1>3 DEF TypeInv, SessionTypeOK, Places
<1>7. /\ inflight' \in [Keys -> Seq(Tabs)] /\ inflight'[k] = <<>>
      /\ \A h \in Keys : h # k => inflight'[h] = inflight[h]
    BY <1>1 DEF TypeInv, SessionTypeOK
<1>8. newest' \in Sessions /\ newest + 1 \in Sessions
    BY <1>1, SessionAssumption DEF TypeInv, SessionTypeOK, Sessions
<1>9. SessionTypeOK'
    <2>1. newest' \in 0..MaxOpens
        BY <1>8, SessionAssumption DEF Sessions
    <2>2. remote' \subseteq Sessions /\ overtaken' \subseteq Sessions
        BY <1>1, <1>8 DEF TypeInv, SessionTypeOK
    <2>. QED  BY <1>1, <1>2, <1>5, <1>6, <1>7, <2>1, <2>2 DEF TypeInv, SessionTypeOK, view
<1>10. PlaceInv'
    <2>1. <<"drop", "lost">> \in Ops \ J
        BY <1>3, OpsAre DEF Drops
    <2>2. \A o \in Ops : pc'[o] \in {"cleanup", "closing"} => pc'[o] = pc[o]
        BY <1>6
    <2>3. \A o \in Ops : o[1] \in {"close", "drop"} => pc'[o] = pc[o]
        BY <1>3, <1>6
    <2>. QED  BY <1>1, <1>5, <2>1, <2>2, <2>3, <1>6 DEF TypeInv, PlaceInv
<1>11. KeyedInv'
    <2>1. ASSUME NEW h \in Keys, NEW u \in ToSet(inflight'[h])
          PROVE  buildSessionKey(u) = h /\ pc'[<<"job", u>>] = "opening"
        <3>1. h # k /\ inflight'[h] = inflight[h]
            BY <1>7, QueueEmpty
        <3>2. u \in Tabs /\ buildSessionKey(u) = h /\ <<"job", u>> \in Ops /\ pc[<<"job", u>>] = "opening"
            BY <3>1, WaitersAre
        <3>3. u \notin ToSet(inflight[k])
            BY <3>1, <3>2, WaitersAre
        <3>. QED  BY <3>2, <3>3, <1>4, <1>6
    <2>. QED  BY <1>1, <1>5, <2>1 DEF TypeInv, KeyedInv
<1>12. QueuedInv'
    <2>1. \A q \in Ops : ~(pc[q] \in {"reconnect", "reacquire", "opened"} \/ (pc[q] = "cleanup" /\ ~policy.slow))
        BY <1>1, QueueEmpty DEF TypeInv, QueuedInv, Queued
    <2>2. \A h \in Keys : NoRepeat(inflight'[h])
        BY <1>7, QueueEmpty DEF TypeInv, QueuedInv
    <2>3. NoRepeat(micro')
        BY <1>2
    <2>. QED  BY <1>2, <1>5, <1>6, <2>1, <2>2, <2>3 DEF QueuedInv, Queued, NoRepeat
<1>. QED  BY <1>5, <1>8, <1>9, <1>10, <1>11, <1>12 DEF TypeInv, Sessions

LEMMA OpenFailsType ==
    ASSUME TypeInv, NEW k \in Keys, OpenFails(k)
    PROVE  TypeInv'
<1>. DEFINE J == {<<"job", t>> : t \in ToSet(inflight[k])}
<1>1. /\ micro = <<>> /\ troubles < MaxTroubles /\ troubles' = troubles + 1
      /\ pc' = [o \in Ops |-> IF o \in J THEN "idle" ELSE pc[o]]
      /\ inflight' = [inflight EXCEPT ![k] = <<>>]
      /\ UNCHANGED <<kind, view, leases, bound, timer, serviceVars, at, todo, micro>>
    BY DEF OpenFails, Trouble
<1>3. \A o \in J : o \in Ops /\ o[1] = "job" /\ pc[o] = "opening"
    BY WaitersAre
<1>4. \A u \in Tabs : <<"job", u>> \in J <=> u \in ToSet(inflight[k])
    OBVIOUS
<1>. HIDE DEF J
<1>5. policy' = policy /\ Keys' = Keys /\ (\A u : buildSessionKey(u)' = buildSessionKey(u)) /\ (\A m : KeyOf(m)' = KeyOf(m))
    BY <1>1, KindStays
<1>6. /\ pc' \in [Ops -> Places]
      /\ \A o \in J : pc'[o] = "idle"
      /\ \A o \in Ops \ J : pc'[o] = pc[o]
    BY <1>1, <1>3 DEF TypeInv, SessionTypeOK, Places
<1>7. /\ inflight' \in [Keys -> Seq(Tabs)] /\ inflight'[k] = <<>>
      /\ \A h \in Keys : h # k => inflight'[h] = inflight[h]
    BY <1>1 DEF TypeInv, SessionTypeOK
<1>9. SessionTypeOK'
    <2>1. troubles' \in 0..MaxTroubles
        BY <1>1, SessionAssumption DEF TypeInv, SessionTypeOK
    <2>. QED  BY <1>1, <1>5, <1>6, <1>7, <2>1 DEF TypeInv, SessionTypeOK, view, serviceVars
<1>10. PlaceInv'
    <2>1. <<"drop", "lost">> \in Ops \ J
        BY <1>3, OpsAre DEF Drops
    <2>2. \A o \in Ops : pc'[o] \in {"cleanup", "closing"} => pc'[o] = pc[o]
        BY <1>6
    <2>3. \A o \in Ops : o[1] \in {"close", "drop"} => pc'[o] = pc[o]
        BY <1>3, <1>6
    <2>. QED  BY <1>1, <1>5, <2>1, <2>2, <2>3, <1>6 DEF TypeInv, PlaceInv
<1>11. KeyedInv'
    <2>1. ASSUME NEW h \in Keys, NEW u \in ToSet(inflight'[h])
          PROVE  buildSessionKey(u) = h /\ pc'[<<"job", u>>] = "opening"
        <3>1. h # k /\ inflight'[h] = inflight[h]
            BY <1>7, QueueEmpty
        <3>2. u \in Tabs /\ buildSessionKey(u) = h /\ <<"job", u>> \in Ops /\ pc[<<"job", u>>] = "opening"
            BY <3>1, WaitersAre
        <3>3. u \notin ToSet(inflight[k])
            BY <3>1, <3>2, WaitersAre
        <3>. QED  BY <3>2, <3>3, <1>4, <1>6
    <2>. QED  BY <1>1, <1>5, <2>1 DEF TypeInv, KeyedInv
<1>12. QueuedInv'
    <2>1. \A h \in Keys : NoRepeat(inflight'[h])
        BY <1>7, QueueEmpty DEF TypeInv, QueuedInv
    <2>. QED  BY <1>1, <1>5, <1>6, <2>1 DEF TypeInv, QueuedInv, Queued
<1>13. Opening' \subseteq Opening
    BY <1>6 DEF Opening
<1>. QED  BY <1>1, <1>5, <1>9, <1>10, <1>11, <1>12, <1>13 DEF TypeInv, Sessions, serviceVars

LEMMA CloseReturnsType ==
    ASSUME TypeInv, NEW s \in Sessions, CloseReturns(s)
    PROVE  TypeInv'
<1>. DEFINE A == {o \in Ops : pc[o] = "closing" /\ at[o][1] = s}
<1>1. /\ micro = <<>> /\ troubles' = troubles
      /\ remote' = remote \ {s} /\ closing' = closing \ {s}
      /\ micro' = SetToSeq(A)
      /\ UNCHANGED <<kind, view, registry, newest, lost, exited, overtaken, raced, pc, at, todo>>
    BY DEF CloseReturns, Quiet
<1>2. IsFiniteSet(A)
    BY OpsFinite, FS_Subset
<1>3. micro' \in Seq(A) /\ NoRepeat(micro')
    BY <1>1, <1>2, Enumeration
<1>4. micro' \in Seq(Ops)
    BY <1>3
<1>. HIDE DEF A
<1>5. policy' = policy /\ Keys' = Keys
    BY <1>1, KindStays
<1>6. SessionTypeOK'
    BY <1>1, <1>4, <1>5 DEF TypeInv, SessionTypeOK, view, registry
<1>7. PlaceInv' /\ KeyedInv' /\ Opening' = Opening
    BY <1>1, SamePlaces DEF registry
<1>8. QueuedInv'
    <2>1. \A q \in Ops : ~(pc[q] \in {"reconnect", "reacquire", "opened"} \/ (pc[q] = "cleanup" /\ ~policy.slow))
        BY <1>1, QueueEmpty DEF TypeInv, QueuedInv, Queued
    <2>. QED  BY <1>1, <1>3, <1>5, <2>1 DEF TypeInv, QueuedInv, NoRepeat, registry
<1>. QED  BY <1>1, <1>6, <1>7, <1>8 DEF TypeInv, Sessions

LEMMA IdleTimerFiresType ==
    ASSUME TypeInv, NEW l \in Leases, IdleTimerFires(l)
    PROVE  TypeInv'
<1>1. /\ micro = <<>> /\ troubles' = troubles /\ finalizeClose(l)
      /\ UNCHANGED <<kind, view, bound, inflight, newest, remote, lost, exited, overtaken, raced, pc, at, todo, micro>>
    BY DEF IdleTimerFires, Quiet
<1>2. /\ timer' \in SUBSET Leases
      /\ leases' \in [Keys -> Leases \cup {NoLease}] /\ leases'[KeyOf(l)] = NoLease
      /\ \A k \in Keys : k # KeyOf(l) => leases'[k] = leases[k]
      /\ closing' \in SUBSET Sessions
    BY <1>1, Finalized DEF TypeInv
<1>3. policy' = policy /\ Keys' = Keys
    BY <1>1, KindStays
<1>4. SessionTypeOK'
    BY <1>1, <1>2, <1>3 DEF TypeInv, SessionTypeOK, view
<1>5. PlaceInv' /\ KeyedInv' /\ Opening' = Opening
    <2>. \A k \in Keys : leases'[k] \in {leases[k], NoLease}
        BY <1>2
    <2>. QED  BY <1>1, SamePlaces
<1>6. QueuedInv'
    BY <1>1, <1>3 DEF TypeInv, QueuedInv, Queued
<1>. QED  BY <1>1, <1>4, <1>5, <1>6 DEF TypeInv, Sessions

LEMMA TroublesType ==
    ASSUME TypeInv, (\E s \in Sessions : SessionDies(s)) \/ ServiceExits
    PROVE  TypeInv'
<1>1. /\ troubles < MaxTroubles /\ troubles' = troubles + 1
      /\ remote' \subseteq remote /\ lost' \subseteq Sessions /\ exited' \in BOOLEAN
      /\ UNCHANGED <<kind, view, registry, newest, closing, overtaken, raced, pc, at, todo, micro>>
    BY DEF SessionDies, ServiceExits, Trouble, TypeInv, SessionTypeOK
<1>2. policy' = policy /\ Keys' = Keys
    BY <1>1, KindStays
<1>3. troubles' \in 0..MaxTroubles
    BY <1>1, SessionAssumption DEF TypeInv, SessionTypeOK
<1>4. SessionTypeOK'
    BY <1>1, <1>2, <1>3 DEF TypeInv, SessionTypeOK, view, registry
<1>5. PlaceInv' /\ KeyedInv' /\ Opening' = Opening
    BY <1>1, SamePlaces DEF registry
<1>6. QueuedInv'
    BY <1>1, <1>2 DEF TypeInv, QueuedInv, Queued, registry
<1>. QED  BY <1>1, <1>4, <1>5, <1>6 DEF TypeInv, Sessions

\* The loops of disconnect and markSessionLost, started or continued.
LEMMA NextLeaseType ==
    ASSUME TypeInv, kind' = kind, NEW d \in Drops, NEW rest \in SUBSET Leases,
           NEW queue \in Seq(Ops), NoRepeat(queue), ToSet(queue) = Queued \ {<<"drop", d>>},
           NextLease(d, rest, queue), inflight' = inflight
    PROVE  /\ pc' \in [Ops -> Places] /\ at' \in [Ops -> Leases \cup {NoLease}]
           /\ todo' \in [Drops -> SUBSET Leases] /\ micro' \in Seq(Ops)
           /\ PlaceInv' /\ QueuedInv' /\ Opening' = Opening
           /\ \A t \in Tabs : pc'[<<"job", t>>] = pc[<<"job", t>>]
<1>. DEFINE o == <<"drop", d>>
<1>0. o \in Ops /\ o[1] = "drop" /\ o \notin ToSet(queue) /\ (o = <<"drop", "lost">> <=> d = "lost")
    BY OpsAre
<1>1. /\ pc' \in [Ops -> Places] /\ at' \in [Ops -> Leases \cup {NoLease}]
      /\ \A q \in Ops : q # o => pc'[q] = pc[q] /\ at'[q] = at[q]
      /\ todo' \in [Drops -> SUBSET Leases]
      /\ Joined(queue, o)
      /\ \/ pc'[o] = "idle"
         \/ /\ at'[o] \in rest /\ pc'[o] = "cleanup"
            /\ ~policy.slow => o \in ToSet(micro')
    BY <1>0, NextLeaseStarts DEF TypeInv
<1>2. \A t \in Tabs : <<"job", t>> \in Ops /\ <<"job", t>> # o
    BY OpsAre
<1>3. ToSet(queue) = Queued \ {o}
    OBVIOUS
<1>. HIDE DEF o
<1>4. PlaceInv'
    BY <1>0, <1>1, OnePlace
<1>5. QueuedInv'
    <2>1. \A k \in Keys : NoRepeat(inflight'[k])
        BY DEF TypeInv, QueuedInv
    <2>. QED  BY <1>0, <1>1, <1>3, <2>1, OneQueued
<1>6. Opening' = Opening
    BY <1>0, <1>1 DEF Opening
<1>. QED  BY <1>1, <1>2, <1>4, <1>5, <1>6 DEF Joined

LEMMA KeyedStays ==
    ASSUME TypeInv, kind' = kind, inflight' = inflight,
           \A t \in Tabs : pc[<<"job", t>>] = "opening" => pc'[<<"job", t>>] = "opening",
           \A k \in Keys : leases'[k] # NoLease => leases'[k] = leases[k] \/ KeyOf(leases'[k]) = k,
           \A l \in Leases : \A t \in bound'[l] : t \in bound[l] \/ buildSessionKey(t) = KeyOf(l)
    PROVE  KeyedInv'
<1>1. policy' = policy /\ Keys' = Keys /\ (\A u : buildSessionKey(u)' = buildSessionKey(u)) /\ (\A m : KeyOf(m)' = KeyOf(m))
    BY KindStays
<1>2. \A k \in Keys : ToSet(inflight[k]) \subseteq Tabs
    BY WaitersAre
<1>3. ASSUME NEW k \in Keys, NEW u \in ToSet(inflight[k])
      PROVE  buildSessionKey(u) = k /\ pc'[<<"job", u>>] = "opening"
    BY <1>2 DEF TypeInv, KeyedInv
<1>4. \A k \in Keys : leases'[k] # NoLease => KeyOf(leases'[k]) = k
    BY DEF TypeInv, KeyedInv
<1>5. \A l \in Leases : \A t \in bound'[l] : buildSessionKey(t) = KeyOf(l)
    BY DEF TypeInv, KeyedInv
<1>. QED  BY <1>1, <1>3, <1>4, <1>5 DEF KeyedInv

LEMMA DisconnectType ==
    ASSUME TypeInv, Disconnect
    PROVE  TypeInv'
<1>1. /\ micro = <<>> /\ troubles < MaxTroubles /\ troubles' = troubles + 1
      /\ NextLease("disconnect", LeasesIn(Sessions), micro)
      /\ UNCHANGED <<kind, view, registry, serviceVars>>
    BY DEF Disconnect, Trouble
<1>2. LeasesIn(Sessions) \in SUBSET Leases /\ "disconnect" \in Drops
    BY InTable DEF TypeInv, Drops
<1>3. micro \in Seq(Ops) /\ NoRepeat(micro) /\ ToSet(micro) = Queued \ {<<"drop", "disconnect">>}
    BY <1>1, QueueEmpty DEF Queued
<1>4. /\ pc' \in [Ops -> Places] /\ at' \in [Ops -> Leases \cup {NoLease}]
      /\ todo' \in [Drops -> SUBSET Leases] /\ micro' \in Seq(Ops)
      /\ PlaceInv' /\ QueuedInv' /\ Opening' = Opening
      /\ \A t \in Tabs : pc'[<<"job", t>>] = pc[<<"job", t>>]
    BY <1>1, <1>2, <1>3, NextLeaseType DEF registry
<1>5. policy' = policy /\ Keys' = Keys
    BY <1>1, KindStays
<1>6. troubles' \in 0..MaxTroubles
    BY <1>1, SessionAssumption DEF TypeInv, SessionTypeOK
<1>7. SessionTypeOK'
    BY <1>1, <1>4, <1>5, <1>6 DEF TypeInv, SessionTypeOK, view, registry, serviceVars
<1>8. KeyedInv'
    BY <1>1, <1>4, KeyedStays DEF registry
<1>. QED  BY <1>1, <1>4, <1>7, <1>8 DEF TypeInv, serviceVars, Sessions

LEMMA LostEventType ==
    ASSUME TypeInv, LostEvent
    PROVE  TypeInv'
<1>1. PICK S : NextLease("lost", LeasesIn(S), micro)
    BY DEF LostEvent
<1>2. /\ micro = <<>> /\ troubles' = troubles
      /\ lost' \subseteq Sessions /\ exited' \in BOOLEAN
      /\ UNCHANGED <<kind, view, registry, newest, remote, closing, overtaken, raced>>
    BY DEF LostEvent, Quiet, TypeInv, SessionTypeOK
<1>3. LeasesIn(S) \in SUBSET Leases /\ "lost" \in Drops
    BY InTable DEF TypeInv, Drops
<1>4. micro \in Seq(Ops) /\ NoRepeat(micro) /\ ToSet(micro) = Queued \ {<<"drop", "lost">>}
    BY <1>2, QueueEmpty DEF Queued
<1>5. /\ pc' \in [Ops -> Places] /\ at' \in [Ops -> Leases \cup {NoLease}]
      /\ todo' \in [Drops -> SUBSET Leases] /\ micro' \in Seq(Ops)
      /\ PlaceInv' /\ QueuedInv' /\ Opening' = Opening
      /\ \A t \in Tabs : pc'[<<"job", t>>] = pc[<<"job", t>>]
    BY <1>1, <1>2, <1>3, <1>4, NextLeaseType DEF registry
<1>6. policy' = policy /\ Keys' = Keys
    BY <1>2, KindStays
<1>7. SessionTypeOK'
    BY <1>2, <1>5, <1>6 DEF TypeInv, SessionTypeOK, view, registry
<1>8. KeyedInv'
    BY <1>2, <1>5, KeyedStays DEF registry
<1>. QED  BY <1>2, <1>5, <1>7, <1>8 DEF TypeInv, Sessions

-----------------------------------------------------------------------------
(* The code after an await.                                                *)

\* The head of the queue.
LEMMA HeadOfQueue ==
    ASSUME TypeInv, micro # <<>>
    PROVE  LET o == Head(micro)
           IN  /\ o \in Ops /\ o \in Queued
               /\ Tail(micro) \in Seq(Ops) /\ NoRepeat(Tail(micro))
               /\ ToSet(Tail(micro)) = Queued \ {o} /\ o \notin ToSet(Tail(micro))
BY QueueHead DEF TypeInv, SessionTypeOK, QueuedInv, Queued

LEMMA ReleaseKeyed ==
    ASSUME TypeInv, kind' = kind, NEW o \in Ops, o[2] \in Tabs, pc[o] = "cleanup", NEW force,
           AfterRelease(o, force), inflight' = inflight,
           \A t \in Tabs : pc[<<"job", t>>] = "opening" => pc'[<<"job", t>>] = "opening"
    PROVE  /\ KeyedInv'
           /\ bound' \in [Leases -> SUBSET Tabs] /\ timer' \in SUBSET Leases
           /\ leases' \in [Keys -> Leases \cup {NoLease}] /\ closing' \in SUBSET Sessions
<1>. DEFINE l == at[o]
<1>1. l \in Leases
    BY DEF TypeInv, PlaceInv
<1>. HIDE DEF l
<1>2. /\ bound' \in [Leases -> SUBSET Tabs] /\ bound'[l] = bound[l] \ {o[2]}
      /\ \A m \in Leases : m # l => bound'[m] = bound[m]
      /\ timer' \in SUBSET Leases
      /\ leases' \in [Keys -> Leases \cup {NoLease}]
      /\ \A k \in Keys : k # KeyOf(l) => leases'[k] = leases[k]
      /\ closing' \in SUBSET Sessions
      /\ leases'[KeyOf(l)] \in {l, NoLease}
    BY <1>1, Released DEF TypeInv, l
<1>3. KeyedInv'
    <2>1. \A k \in Keys : leases'[k] # NoLease => leases'[k] = leases[k] \/ KeyOf(leases'[k]) = k
        BY <1>1, <1>2
    <2>2. \A m \in Leases : \A t \in bound'[m] : t \in bound[m]
        BY <1>2
    <2>. QED  BY <2>1, <2>2, KeyedStays
<1>. QED  BY <1>2, <1>3

LEMMA ResumeCloseType ==
    ASSUME TypeInv, micro # <<>>, troubles' = troubles, Head(micro)[1] = "close", ResumeClose(Head(micro))
    PROVE  TypeInv'
<1>. DEFINE o == Head(micro)
<1>1. /\ pc[o] = "cleanup"
      /\ AfterRelease(o, FALSE)
      /\ GoesTo(o, "idle", NoLease)
      /\ micro' = Tail(micro)
      /\ UNCHANGED <<kind, view, inflight, newest, remote, lost, exited, overtaken, raced, todo>>
    BY DEF ResumeClose
<1>2. /\ o \in Ops /\ Tail(micro) \in Seq(Ops) /\ NoRepeat(Tail(micro))
      /\ ToSet(Tail(micro)) = Queued \ {o}
    BY HeadOfQueue
<1>3. o[1] = "close" /\ o[2] \in Tabs /\ \A t \in Tabs : <<"job", t>> \in Ops /\ <<"job", t>> # o
    BY <1>2, OpsAre
<1>. HIDE DEF o
<1>4. /\ pc' \in [Ops -> Places] /\ pc'[o] = "idle"
      /\ at' \in [Ops -> Leases \cup {NoLease}]
      /\ \A q \in Ops : q # o => pc'[q] = pc[q] /\ at'[q] = at[q]
    BY <1>1, <1>2, Moves DEF Places, TypeInv
<1>5. /\ KeyedInv'
      /\ bound' \in [Leases -> SUBSET Tabs] /\ timer' \in SUBSET Leases
      /\ leases' \in [Keys -> Leases \cup {NoLease}] /\ closing' \in SUBSET Sessions
    BY <1>1, <1>2, <1>3, <1>4, ReleaseKeyed
<1>6. policy' = policy /\ Keys' = Keys
    BY <1>1, KindStays
<1>7. SessionTypeOK'
    BY <1>1, <1>2, <1>4, <1>5, <1>6 DEF TypeInv, SessionTypeOK, view
<1>8. PlaceInv'
    BY <1>1, <1>2, <1>3, <1>4, OnePlace
<1>9. QueuedInv'
    <2>1. \A k \in Keys : NoRepeat(inflight'[k])
        BY <1>1 DEF TypeInv, QueuedInv
    <2>2. Joined(Tail(micro), o)
        BY <1>1, <1>2 DEF Joined
    <2>. QED  BY <1>1, <1>2, <1>4, <2>1, <2>2, OneQueued
<1>10. Opening' = Opening
    BY <1>3, <1>4 DEF Opening
<1>. QED  BY <1>1, <1>5, <1>7, <1>8, <1>9, <1>10 DEF TypeInv, Sessions

LEMMA HeadJob ==
    ASSUME TypeInv, micro # <<>>, Head(micro)[1] = "job"
    PROVE  LET o == Head(micro)
           IN  /\ o[2] \in Tabs /\ o = <<"job", o[2]>> /\ o # <<"drop", "lost">> /\ o # <<"drop", "disconnect">>
               /\ \A t \in Tabs : <<"job", t>> \in Ops /\ (t # o[2] => <<"job", t>> # o)
BY HeadOfQueue, OpsAre

\* A job that awaits nothing of the bridge: no acquire waits with it.
LEMMA NobodyWaits ==
    ASSUME TypeInv, kind' = kind, NEW t \in Tabs, pc[<<"job", t>>] # "opening",
           \A q \in Ops : q # <<"job", t>> => pc'[q] = pc[q]
    PROVE  \A u \in Tabs : pc[<<"job", u>>] = "opening" => pc'[<<"job", u>>] = "opening"
<1>. SUFFICES ASSUME NEW u \in Tabs, pc[<<"job", u>>] = "opening"
              PROVE  pc'[<<"job", u>>] = "opening"
    OBVIOUS
<1>1. u # t /\ <<"job", u>> \in Ops
    BY OpsAre
<1>. QED  BY <1>1

LEMMA ResumeReconnectType ==
    ASSUME TypeInv, micro # <<>>, troubles' = troubles, Head(micro)[1] = "job", ResumeReconnect(Head(micro))
    PROVE  TypeInv'
<1>. DEFINE o == Head(micro)
            t == o[2]
            l == getLeaseByTabId(t)
<1>1. /\ pc[o] = "reconnect"
      /\ IF l = NoLease
         THEN GoesTo(o, "reacquire", NoLease) /\ micro' = Append(Tail(micro), o)
         ELSE AwaitHooks(o, l, Tail(micro))
      /\ UNCHANGED <<kind, view, registry, serviceVars, todo>>
    BY DEF ResumeReconnect
<1>2. /\ o \in Ops /\ Tail(micro) \in Seq(Ops) /\ NoRepeat(Tail(micro))
      /\ ToSet(Tail(micro)) = Queued \ {o} /\ o \notin ToSet(Tail(micro))
    BY HeadOfQueue
<1>3. t \in Tabs /\ o = <<"job", t>> /\ o[1] = "job" /\ o # <<"drop", "lost">>
    BY HeadJob
<1>4. l = NoLease \/ (l \in Leases /\ t \in bound[l])
    BY <1>3, Found DEF TypeInv
<1>. HIDE DEF o, l, t
<1>5. /\ pc' \in [Ops -> Places] /\ pc'[o] \in {"cleanup", "reacquire"}
      /\ at' \in [Ops -> Leases \cup {NoLease}] /\ at'[o] = l
      /\ \A q \in Ops : q # o => pc'[q] = pc[q] /\ at'[q] = at[q]
      /\ Joined(Tail(micro), o)
      /\ pc'[o] = "cleanup" => l \in Leases /\ t \in bound[l]
      /\ ~policy.slow \/ pc'[o] = "reacquire" => o \in ToSet(micro')
    <2>1. CASE l = NoLease
        <3>1. GoesTo(o, "reacquire", NoLease) /\ micro' = Append(Tail(micro), o)
            BY <1>1, <2>1
        <3>2. /\ pc' \in [Ops -> Places] /\ pc'[o] = "reacquire"
              /\ at' \in [Ops -> Leases \cup {NoLease}] /\ at'[o] = NoLease
              /\ \A q \in Ops : q # o => pc'[q] = pc[q] /\ at'[q] = at[q]
            BY <1>2, <3>1, Moves DEF Places, TypeInv
        <3>3. /\ micro' \in Seq(Ops) /\ NoRepeat(micro') /\ ToSet(micro') = ToSet(Tail(micro)) \cup {o}
            BY <1>2, <3>1, QueueAppend
        <3>. QED  BY <2>1, <3>2, <3>3 DEF Joined
    <2>2. CASE l # NoLease
        <3>1. AwaitHooks(o, l, Tail(micro)) /\ l \in Leases /\ t \in bound[l]
            BY <1>1, <1>4, <2>2
        <3>2. /\ pc' \in [Ops -> Places] /\ pc'[o] = "cleanup"
              /\ at' \in [Ops -> Leases \cup {NoLease}] /\ at'[o] = l
              /\ \A q \in Ops : q # o => pc'[q] = pc[q] /\ at'[q] = at[q]
              /\ Joined(Tail(micro), o)
              /\ ~policy.slow => o \in ToSet(micro')
            BY <1>2, <3>1, Awaits DEF TypeInv
        <3>. QED  BY <3>1, <3>2
    <2>. QED  BY <2>1, <2>2
<1>6. policy' = policy /\ Keys' = Keys
    BY <1>1, KindStays
<1>7. SessionTypeOK'
    BY <1>1, <1>5, <1>6 DEF TypeInv, SessionTypeOK, view, registry, serviceVars, Joined
<1>8. PlaceInv'
    <2>1. pc'[o] = "cleanup" => KeyOf(l) = buildSessionKey(o[2])
        BY <1>5 DEF TypeInv, KeyedInv, t
    <2>. QED  BY <1>1, <1>2, <1>3, <1>5, <2>1, OnePlace
<1>9. QueuedInv'
    <2>1. \A k \in Keys : NoRepeat(inflight'[k])
        BY <1>1 DEF TypeInv, QueuedInv, registry
    <2>. QED  BY <1>1, <1>2, <1>5, <2>1, OneQueued
<1>10. KeyedInv'
    <2>1. \A u \in Tabs : pc[<<"job", u>>] = "opening" => pc'[<<"job", u>>] = "opening"
        BY <1>1, <1>3, <1>5, NobodyWaits
    <2>. QED  BY <1>1, <2>1, KeyedStays DEF registry
<1>11. Opening' \subseteq Opening
    BY <1>5 DEF Opening
<1>. QED  BY <1>1, <1>7, <1>8, <1>9, <1>10, <1>11 DEF TypeInv, Sessions, serviceVars

\* forceReconnect goes on to acquire, at once or once the session is closed.
LEMMA ReleaseGoesOn ==
    ASSUME TypeInv, micro # <<>>, Head(micro)[1] = "job", ResumeRelease(Head(micro))
    PROVE  LET o == Head(micro)
           IN  /\ pc[o] = "cleanup" /\ AfterRelease(o, TRUE)
               /\ pc' \in [Ops -> Places] /\ at' \in [Ops -> Leases \cup {NoLease}]
               /\ \A q \in Ops : q # o => pc'[q] = pc[q] /\ at'[q] = at[q]
               /\ Joined(Tail(micro), o)
               /\ \/ /\ bound'[at[o]] = {} /\ leases[KeyOf(at[o])] # NoLease
                     /\ pc'[o] = "closing" /\ at'[o] = at[o]
                     /\ ToSet(micro') = ToSet(Tail(micro))
                  \/ /\ bound'[at[o]] # {} \/ leases[KeyOf(at[o])] = NoLease
                     /\ pc'[o] = "reacquire" /\ at'[o] = NoLease
                     /\ o \in ToSet(micro')
               /\ UNCHANGED <<kind, view, inflight, newest, remote, lost, exited, overtaken, raced, todo>>
<1>. DEFINE o == Head(micro)
            l == at[o]
<1>1. /\ pc[o] = "cleanup"
      /\ AfterRelease(o, TRUE)
      /\ IF bound'[l] = {} /\ leases[KeyOf(l)] # NoLease
         THEN GoesTo(o, "closing", l) /\ micro' = Tail(micro)
         ELSE GoesTo(o, "reacquire", NoLease) /\ micro' = Append(Tail(micro), o)
      /\ UNCHANGED <<kind, view, inflight, newest, remote, lost, exited, overtaken, raced, todo>>
    BY DEF ResumeRelease
<1>2. /\ o \in Ops /\ Tail(micro) \in Seq(Ops) /\ NoRepeat(Tail(micro))
      /\ o \notin ToSet(Tail(micro))
    BY HeadOfQueue
<1>3. l \in Leases
    BY <1>1, <1>2 DEF TypeInv, PlaceInv
<1>. HIDE DEF o, l
<1>4. CASE bound'[l] = {} /\ leases[KeyOf(l)] # NoLease
    <2>1. GoesTo(o, "closing", l) /\ micro' = Tail(micro)
        BY <1>1, <1>4
    <2>2. /\ pc' \in [Ops -> Places] /\ pc'[o] = "closing"
          /\ at' \in [Ops -> Leases \cup {NoLease}] /\ at'[o] = l
          /\ \A q \in Ops : q # o => pc'[q] = pc[q] /\ at'[q] = at[q]
        BY <1>2, <1>3, <2>1, Moves DEF Places, TypeInv
    <2>. QED  BY <1>1, <1>2, <1>4, <2>1, <2>2 DEF Joined, o, l
<1>5. CASE ~(bound'[l] = {} /\ leases[KeyOf(l)] # NoLease)
    <2>1. GoesTo(o, "reacquire", NoLease) /\ micro' = Append(Tail(micro), o)
        BY <1>1, <1>5
    <2>2. /\ pc' \in [Ops -> Places] /\ pc'[o] = "reacquire"
          /\ at' \in [Ops -> Leases \cup {NoLease}] /\ at'[o] = NoLease
          /\ \A q \in Ops : q # o => pc'[q] = pc[q] /\ at'[q] = at[q]
        BY <1>2, <1>3, <2>1, Moves DEF Places, TypeInv
    <2>3. /\ micro' \in Seq(Ops) /\ NoRepeat(micro') /\ ToSet(micro') = ToSet(Tail(micro)) \cup {o}
        BY <1>2, <2>1, QueueAppend
    <2>. QED  BY <1>1, <1>5, <2>2, <2>3 DEF Joined, o, l
<1>. QED  BY <1>4, <1>5

LEMMA ResumeReleaseType ==
    ASSUME TypeInv, micro # <<>>, troubles' = troubles, Head(micro)[1] = "job", ResumeRelease(Head(micro))
    PROVE  TypeInv'
<1>. DEFINE o == Head(micro)
<1>1. /\ pc[o] = "cleanup" /\ AfterRelease(o, TRUE)
      /\ pc' \in [Ops -> Places] /\ at' \in [Ops -> Leases \cup {NoLease}]
      /\ \A q \in Ops : q # o => pc'[q] = pc[q] /\ at'[q] = at[q]
      /\ Joined(Tail(micro), o)
      /\ \/ pc'[o] = "closing" /\ at'[o] = at[o]
         \/ pc'[o] = "reacquire" /\ at'[o] = NoLease /\ o \in ToSet(micro')
      /\ UNCHANGED <<kind, view, inflight, newest, remote, lost, exited, overtaken, raced, todo>>
    BY ReleaseGoesOn
<1>2. /\ o \in Ops /\ Tail(micro) \in Seq(Ops) /\ NoRepeat(Tail(micro))
      /\ ToSet(Tail(micro)) = Queued \ {o}
    BY HeadOfQueue
<1>3. o[2] \in Tabs /\ o = <<"job", o[2]>> /\ o[1] = "job" /\ o # <<"drop", "lost">>
    BY HeadJob
<1>. HIDE DEF o
<1>4. /\ KeyedInv'
      /\ bound' \in [Leases -> SUBSET Tabs] /\ timer' \in SUBSET Leases
      /\ leases' \in [Keys -> Leases \cup {NoLease}] /\ closing' \in SUBSET Sessions
    <2>1. \A u \in Tabs : pc[<<"job", u>>] = "opening" => pc'[<<"job", u>>] = "opening"
        BY <1>1, <1>3, NobodyWaits
    <2>. QED  BY <1>1, <1>2, <1>3, <2>1, ReleaseKeyed
<1>5. policy' = policy /\ Keys' = Keys
    BY <1>1, KindStays
<1>6. SessionTypeOK'
    BY <1>1, <1>4, <1>5 DEF TypeInv, SessionTypeOK, view, Joined
<1>7. PlaceInv'
    <2>1. at[o] \in Leases
        BY <1>1, <1>2 DEF TypeInv, PlaceInv
    <2>. QED  BY <1>1, <1>2, <1>3, <2>1, OnePlace
<1>8. QueuedInv'
    <2>1. \A k \in Keys : NoRepeat(inflight'[k])
        BY <1>1 DEF TypeInv, QueuedInv
    <2>. QED  BY <1>1, <1>2, <2>1, OneQueued
<1>9. Opening' \subseteq Opening
    BY <1>1 DEF Opening
<1>. QED  BY <1>1, <1>4, <1>6, <1>7, <1>8, <1>9 DEF TypeInv, Sessions

LEMMA ResumeAcquireType ==
    ASSUME TypeInv, micro # <<>>, troubles' = troubles, Head(micro)[1] = "job", ResumeAcquire(Head(micro))
    PROVE  TypeInv'
<1>. DEFINE t == Head(micro)[2]
<1>1. t \in Tabs /\ Head(micro) = <<"job", t>>
    BY HeadJob
<1>2. /\ pc[<<"job", t>>] \in {"closing", "reacquire"}
      /\ acquire(<<"job", t>>, t, Tail(micro))
      /\ UNCHANGED <<kind, tab, stray, leases, serviceVars, todo>>
    BY <1>1 DEF ResumeAcquire
<1>3. /\ Tail(micro) \in Seq(Ops) /\ NoRepeat(Tail(micro))
      /\ ToSet(Tail(micro)) = Queued \ {<<"job", t>>}
    BY <1>1, HeadOfQueue
<1>. HIDE DEF t
<1>. QED  BY <1>1, <1>2, <1>3, AcquireType

LEMMA ResumeOpenedType ==
    ASSUME TypeInv, micro # <<>>, troubles' = troubles, Head(micro)[1] = "job", ResumeOpened(Head(micro))
    PROVE  TypeInv'
<1>. DEFINE o == Head(micro)
            l == <<newest, o[2]>>
<1>1. /\ pc[o] = "opened"
      /\ bound' = [bound EXCEPT ![l] = {o[2]}]
      /\ leases' = [leases EXCEPT ![KeyOf(l)] = l]
      /\ shown' = [shown EXCEPT ![o[2]] = newest]
      /\ GoesTo(o, "idle", NoLease)
      /\ micro' = Tail(micro)
      /\ UNCHANGED <<kind, tab, stray, timer, inflight, serviceVars, todo>>
    BY DEF ResumeOpened
<1>2. /\ o \in Ops /\ Tail(micro) \in Seq(Ops) /\ NoRepeat(Tail(micro))
      /\ ToSet(Tail(micro)) = Queued \ {o}
    BY HeadOfQueue
<1>3. o[2] \in Tabs /\ o = <<"job", o[2]>> /\ o[1] = "job" /\ o # <<"drop", "lost">>
    BY HeadJob
<1>4. l[2] = o[2]
    OBVIOUS
<1>5. l \in Leases /\ KeyOf(l) \in Keys /\ KeyOf(l) = buildSessionKey(o[2])
    <2>1. newest \in Sessions
        BY <1>1, <1>2, <1>3 DEF TypeInv, Opening
    <2>2. l \in Leases
        BY <1>3, <2>1 DEF Leases
    <2>. QED  BY <2>2, KeysOfTabs DEF KeyOf
<1>. HIDE DEF o, l
<1>6. /\ pc' \in [Ops -> Places] /\ pc'[o] = "idle"
      /\ at' \in [Ops -> Leases \cup {NoLease}]
      /\ \A q \in Ops : q # o => pc'[q] = pc[q] /\ at'[q] = at[q]
    BY <1>1, <1>2, Moves DEF Places, TypeInv
<1>7. /\ bound' \in [Leases -> SUBSET Tabs] /\ bound'[l] = {o[2]}
      /\ \A m \in Leases : m # l => bound'[m] = bound[m]
      /\ leases' \in [Keys -> Leases \cup {NoLease}] /\ leases'[KeyOf(l)] = l
      /\ \A k \in Keys : k # KeyOf(l) => leases'[k] = leases[k]
      /\ shown' \in [Tabs -> 0..MaxOpens]
    BY <1>1, <1>3, <1>5 DEF TypeInv, SessionTypeOK
<1>8. policy' = policy /\ Keys' = Keys
    BY <1>1, KindStays
<1>9. SessionTypeOK'
    BY <1>1, <1>2, <1>6, <1>7, <1>8 DEF TypeInv, SessionTypeOK, serviceVars
<1>10. PlaceInv'
    BY <1>1, <1>2, <1>3, <1>6, OnePlace
<1>11. KeyedInv'
    <2>1. \A u \in Tabs : pc[<<"job", u>>] = "opening" => pc'[<<"job", u>>] = "opening"
        BY <1>1, <1>3, <1>6, NobodyWaits
    <2>2. \A k \in Keys : leases'[k] # NoLease => leases'[k] = leases[k] \/ KeyOf(leases'[k]) = k
        BY <1>7
    <2>3. \A m \in Leases : \A t \in bound'[m] : t \in bound[m] \/ buildSessionKey(t) = KeyOf(m)
        BY <1>5, <1>7
    <2>. QED  BY <1>1, <2>1, <2>2, <2>3, KeyedStays
<1>12. QueuedInv'
    <2>1. \A k \in Keys : NoRepeat(inflight'[k])
        BY <1>1 DEF TypeInv, QueuedInv
    <2>2. Joined(Tail(micro), o)
        BY <1>1, <1>2 DEF Joined
    <2>. QED  BY <1>1, <1>2, <1>6, <2>1, <2>2, OneQueued
<1>13. Opening' \subseteq Opening
    BY <1>6 DEF Opening
<1>. QED  BY <1>1, <1>9, <1>10, <1>11, <1>12, <1>13 DEF TypeInv, Sessions, serviceVars

LEMMA HeadDrop ==
    ASSUME TypeInv, micro # <<>>, Head(micro)[1] = "drop"
    PROVE  LET o == Head(micro)
           IN  /\ o[2] \in Drops /\ o = <<"drop", o[2]>>
               /\ o = <<"drop", "disconnect">> \/ o = <<"drop", "lost">>
               /\ \A t \in Tabs : <<"job", t>> \in Ops /\ <<"job", t>> # o /\ <<"close", t>> \in Ops /\ <<"close", t>> # o
BY HeadOfQueue, OpsAre DEF Drops

\* The body of the loops: the lease is closed, or only forgotten, and the loop
\* awaits the close or goes on.
LEMMA DropGoesOn ==
    ASSUME TypeInv, micro # <<>>, Head(micro)[1] = "drop", ResumeDrop(Head(micro))
    PROVE  LET o == Head(micro)
               l == at[o]
           IN  /\ pc[o] = "cleanup" /\ l \in Leases
               /\ bound' \in [Leases -> SUBSET Tabs] /\ bound'[l] = {}
               /\ \A m \in Leases : m # l => bound'[m] = bound[m]
               /\ timer' \in SUBSET Leases /\ timer' = timer \ {l}
               /\ leases' \in [Keys -> Leases \cup {NoLease}] /\ leases'[KeyOf(l)] = NoLease
               /\ \A k \in Keys : k # KeyOf(l) => leases'[k] = leases[k]
               /\ closing' \in SUBSET Sessions
               /\ closing' = IF o[2] = "disconnect" /\ leases[KeyOf(l)] # NoLease THEN closing \cup {l[1]} ELSE closing
               /\ UNCHANGED <<kind, view, inflight, newest, remote, lost, exited, overtaken, raced>>
               /\ \/ /\ o[2] = "disconnect" /\ leases[KeyOf(l)] # NoLease
                     /\ GoesTo(o, "closing", l) /\ micro' = Tail(micro) /\ UNCHANGED todo
                  \/ /\ o[2] = "lost" \/ leases[KeyOf(l)] = NoLease
                     /\ NextLease(o[2], todo[o[2]], Tail(micro))
<1>. DEFINE o == Head(micro)
            l == at[o]
            k == KeyOf(l)
<1>1. /\ pc[o] = "cleanup"
      /\ bound' = [bound EXCEPT ![l] = {}]
      /\ IF o[2] = "disconnect"
         THEN /\ finalizeClose(l)
              /\ IF leases[k] # NoLease
                 THEN GoesTo(o, "closing", l) /\ micro' = Tail(micro) /\ UNCHANGED todo
                 ELSE NextLease(o[2], todo[o[2]], Tail(micro))
         ELSE /\ leases' = [leases EXCEPT ![k] = NoLease]
              /\ timer' = timer \ {l}
              /\ NextLease(o[2], todo[o[2]], Tail(micro))
              /\ UNCHANGED closing
      /\ UNCHANGED <<kind, view, inflight, newest, remote, lost, exited, overtaken, raced>>
    BY DEF ResumeDrop
<1>2. o \in Ops /\ o[2] \in {"disconnect", "lost"}
    BY HeadOfQueue, HeadDrop DEF Drops
<1>3. l \in Leases
    BY <1>1, <1>2 DEF TypeInv, PlaceInv
<1>4. k \in Keys
    BY <1>3, KeysOfTabs
<1>. HIDE DEF o, l, k
<1>5. /\ bound' \in [Leases -> SUBSET Tabs] /\ bound'[l] = {}
      /\ \A m \in Leases : m # l => bound'[m] = bound[m]
    BY <1>1, <1>3 DEF TypeInv, SessionTypeOK
<1>6. CASE o[2] = "disconnect"
    <2>1. /\ timer' \in SUBSET Leases /\ timer' = timer \ {l}
          /\ leases' \in [Keys -> Leases \cup {NoLease}] /\ leases'[k] = NoLease
          /\ \A h \in Keys : h # k => leases'[h] = leases[h]
          /\ closing' \in SUBSET Sessions
          /\ closing' = IF leases[k] = NoLease THEN closing ELSE closing \cup {l[1]}
        BY <1>1, <1>3, <1>6, Finalized DEF TypeInv, k
    <2>. QED  BY <1>1, <1>3, <1>5, <1>6, <2>1 DEF o, l, k
<1>7. CASE o[2] = "lost"
    <2>1. leases' = [leases EXCEPT ![k] = NoLease] /\ timer' = timer \ {l} /\ closing' = closing
        BY <1>1, <1>7
    <2>2. /\ timer' \in SUBSET Leases
          /\ leases' \in [Keys -> Leases \cup {NoLease}] /\ leases'[k] = NoLease
          /\ \A h \in Keys : h # k => leases'[h] = leases[h]
          /\ closing' \in SUBSET Sessions
        BY <2>1, <1>4 DEF TypeInv, SessionTypeOK
    <2>. QED  BY <1>1, <1>3, <1>5, <1>7, <2>1, <2>2 DEF o, l, k
<1>. QED  BY <1>2, <1>6, <1>7

LEMMA ResumeDropType ==
    ASSUME TypeInv, micro # <<>>, troubles' = troubles, Head(micro)[1] = "drop", ResumeDrop(Head(micro))
    PROVE  TypeInv'
<1>. DEFINE o == Head(micro)
            l == at[o]
<1>1. /\ pc[o] = "cleanup" /\ l \in Leases
      /\ bound' \in [Leases -> SUBSET Tabs] /\ bound'[l] = {}
      /\ \A m \in Leases : m # l => bound'[m] = bound[m]
      /\ timer' \in SUBSET Leases
      /\ leases' \in [Keys -> Leases \cup {NoLease}] /\ leases'[KeyOf(l)] = NoLease
      /\ \A k \in Keys : k # KeyOf(l) => leases'[k] = leases[k]
      /\ closing' \in SUBSET Sessions
      /\ UNCHANGED <<kind, view, inflight, newest, remote, lost, exited, overtaken, raced>>
      /\ \/ /\ o[2] = "disconnect"
            /\ GoesTo(o, "closing", l) /\ micro' = Tail(micro) /\ UNCHANGED todo
         \/ NextLease(o[2], todo[o[2]], Tail(micro))
    BY DropGoesOn
<1>2. /\ o \in Ops /\ Tail(micro) \in Seq(Ops) /\ NoRepeat(Tail(micro))
      /\ ToSet(Tail(micro)) = Queued \ {o}
    BY HeadOfQueue
<1>3. o[2] \in Drops /\ o = <<"drop", o[2]>> /\ o[1] = "drop"
      /\ \A t \in Tabs : <<"job", t>> \in Ops /\ <<"job", t>> # o
    BY HeadDrop
<1>. HIDE DEF o, l
<1>4. todo[o[2]] \in SUBSET Leases
    BY <1>3 DEF TypeInv, SessionTypeOK
<1>5. /\ pc' \in [Ops -> Places] /\ at' \in [Ops -> Leases \cup {NoLease}]
      /\ todo' \in [Drops -> SUBSET Leases] /\ micro' \in Seq(Ops)
      /\ PlaceInv' /\ QueuedInv' /\ Opening' = Opening
      /\ \A t \in Tabs : pc'[<<"job", t>>] = pc[<<"job", t>>]
    <2>1. CASE NextLease(o[2], todo[o[2]], Tail(micro))
        <3>1. ToSet(Tail(micro)) = Queued \ {<<"drop", o[2]>>}
            BY <1>2, <1>3
        <3>. QED  BY <1>1, <1>2, <1>3, <1>4, <2>1, <3>1, NextLeaseType
    <2>2. CASE o[2] = "disconnect" /\ GoesTo(o, "closing", l) /\ micro' = Tail(micro) /\ UNCHANGED todo
        <3>1. /\ pc' \in [Ops -> Places] /\ pc'[o] = "closing"
              /\ at' \in [Ops -> Leases \cup {NoLease}] /\ at'[o] = l
              /\ \A q \in Ops : q # o => pc'[q] = pc[q] /\ at'[q] = at[q]
            BY <1>1, <1>2, <2>2, Moves DEF Places, TypeInv
        <3>2. PlaceInv'
            BY <1>1, <1>2, <1>3, <2>2, <3>1, OnePlace
        <3>3. QueuedInv'
            <4>1. \A k \in Keys : NoRepeat(inflight'[k])
                BY <1>1 DEF TypeInv, QueuedInv
            <4>2. Joined(Tail(micro), o)
                BY <1>2, <2>2 DEF Joined
            <4>. QED  BY <1>1, <1>2, <3>1, <4>1, <4>2, OneQueued
        <3>4. Opening' = Opening
            BY <1>3, <3>1 DEF Opening
        <3>. QED  BY <1>2, <1>3, <2>2, <3>1, <3>2, <3>3, <3>4 DEF TypeInv, SessionTypeOK
    <2>. QED  BY <1>1, <2>1, <2>2
<1>6. policy' = policy /\ Keys' = Keys
    BY <1>1, KindStays
<1>7. SessionTypeOK'
    BY <1>1, <1>5, <1>6 DEF TypeInv, SessionTypeOK, view
<1>8. KeyedInv'
    <2>1. \A k \in Keys : leases'[k] # NoLease => leases'[k] = leases[k]
        BY <1>1
    <2>2. \A m \in Leases : \A t \in bound'[m] : t \in bound[m]
        BY <1>1
    <2>. QED  BY <1>1, <1>5, <2>1, <2>2, KeyedStays
<1>. QED  BY <1>1, <1>5, <1>7, <1>8 DEF TypeInv, Sessions

LEMMA ResumeDropClosedType ==
    ASSUME TypeInv, micro # <<>>, troubles' = troubles, Head(micro)[1] = "drop", ResumeDropClosed(Head(micro))
    PROVE  TypeInv'
<1>. DEFINE o == Head(micro)
<1>1. /\ NextLease(o[2], todo[o[2]], Tail(micro))
      /\ UNCHANGED <<kind, view, registry, serviceVars>>
    BY DEF ResumeDropClosed
<1>2. /\ o \in Ops /\ Tail(micro) \in Seq(Ops) /\ NoRepeat(Tail(micro))
      /\ ToSet(Tail(micro)) = Queued \ {o}
    BY HeadOfQueue
<1>3. o[2] \in Drops /\ o = <<"drop", o[2]>>
    BY HeadDrop
<1>. HIDE DEF o
<1>4. todo[o[2]] \in SUBSET Leases
    BY <1>3 DEF TypeInv, SessionTypeOK
<1>5. ToSet(Tail(micro)) = Queued \ {<<"drop", o[2]>>}
    BY <1>2, <1>3
<1>6. /\ pc' \in [Ops -> Places] /\ at' \in [Ops -> Leases \cup {NoLease}]
      /\ todo' \in [Drops -> SUBSET Leases] /\ micro' \in Seq(Ops)
      /\ PlaceInv' /\ QueuedInv' /\ Opening' = Opening
      /\ \A t \in Tabs : pc'[<<"job", t>>] = pc[<<"job", t>>]
    BY <1>1, <1>2, <1>3, <1>4, <1>5, NextLeaseType DEF registry
<1>7. policy' = policy /\ Keys' = Keys
    BY <1>1, KindStays
<1>8. SessionTypeOK'
    BY <1>1, <1>6, <1>7 DEF TypeInv, SessionTypeOK, view, registry, serviceVars
<1>9. KeyedInv'
    BY <1>1, <1>6, KeyedStays DEF registry
<1>. QED  BY <1>1, <1>6, <1>8, <1>9 DEF TypeInv, Sessions, serviceVars

LEMMA TypeStep ==
    ASSUME TypeInv, TabInv, SessionNext
    PROVE  TypeInv'
<1>1. CASE Resume
    <2>1. /\ micro # <<>> /\ troubles' = troubles
          /\ LET o == Head(micro)
             IN  \/ o[1] = "close" /\ ResumeClose(o)
                 \/ o[1] = "job" /\ (ResumeReconnect(o) \/ ResumeRelease(o) \/ ResumeAcquire(o) \/ ResumeOpened(o))
                 \/ o[1] = "drop" /\ (ResumeDrop(o) \/ ResumeDropClosed(o))
        BY <1>1 DEF Resume
    <2>. QED  BY <2>1, ResumeCloseType, ResumeReconnectType, ResumeReleaseType, ResumeAcquireType,
                 ResumeOpenedType, ResumeDropType, ResumeDropClosedType
<1>2. ASSUME NEW t \in Tabs, OpenTab(t) \/ ProfileLoaded(t) \/ CloseTab(t) \/ Reconnect(t)
      PROVE  TypeInv'
    BY <1>2, OpenTabType, ProfileLoadedType, CloseTabType, ReconnectType
<1>3. ASSUME NEW k \in Keys, OpenReturns(k) \/ OpenFails(k)
      PROVE  TypeInv'
    BY <1>3, OpenReturnsType, OpenFailsType
<1>4. ASSUME NEW s \in Sessions, CloseReturns(s) \/ SessionDies(s)
      PROVE  TypeInv'
    BY <1>4, CloseReturnsType, TroublesType
<1>. QED  BY <1>1, <1>2, <1>3, <1>4, RequestReconnectType, HooksDoneType, IdleTimerFiresType,
             DisconnectType, LostEventType, TroublesType DEF SessionNext

LEMMA TypeStutters ==
    ASSUME TypeInv, UNCHANGED sessionVars
    PROVE  TypeInv'
<1>1. UNCHANGED <<kind, tab, shown, stray, leases, bound, timer, inflight, newest, remote, closing,
                  lost, exited, overtaken, raced, pc, at, todo, micro, troubles>>
    BY DEF sessionVars, view, registry, serviceVars
<1>2. policy' = policy /\ Keys' = Keys
    BY <1>1, KindStays
<1>3. SessionTypeOK'
    BY <1>1, <1>2 DEF TypeInv, SessionTypeOK
<1>4. PlaceInv' /\ KeyedInv' /\ Opening' = Opening
    BY <1>1, SamePlaces
<1>5. QueuedInv'
    BY <1>1, <1>2 DEF TypeInv, QueuedInv, Queued
<1>. QED  BY <1>1, <1>3, <1>4, <1>5 DEF TypeInv, Sessions

-----------------------------------------------------------------------------
(* GeneralInv is kept.                                                     *)

\* The queue after a microtask of the same phase.
LEMMA PhaseGoesOn ==
    ASSUME TypeInv, PhaseInv, NEW o \in Ops, o \in Queued,
           \A q \in Ops : q # o => pc'[q] = pc[q],
           ToSet(micro') \subseteq Queued,
           o \in ToSet(micro') /\ o[1] = "job" => o \in Restarting /\ pc'[o] \in {"cleanup", "reacquire"}
    PROVE  PhaseInv'
<1>1. Queued \subseteq Ops
    BY DEF TypeInv, SessionTypeOK, Queued, ToSet
<1>2. CASE Queued \subseteq Restarting
    BY <1>1, <1>2 DEF PhaseInv, Queued, Restarting
<1>3. CASE Queued \subseteq Opening
    <2>1. o \notin ToSet(micro')
        BY <1>3 DEF Opening, Restarting
    <2>2. ToSet(micro') \subseteq Opening'
        BY <1>1, <1>3, <2>1 DEF Opening
    <2>. QED  BY <2>2 DEF PhaseInv, Queued
<1>4. CASE Queued \subseteq TabClosing
    BY <1>1, <1>4 DEF PhaseInv, Queued, TabClosing
<1>5. CASE Queued \subseteq {<<"drop", "lost">>}
    BY <1>1, <1>5 DEF PhaseInv, Queued
<1>6. CASE Queued \subseteq Disconnecting
    <2>1. o \in ToSet(micro') => o = <<"drop", "disconnect">>
        BY <1>6 DEF Disconnecting, Restarting
    <2>2. ToSet(micro') \subseteq Disconnecting'
        BY <1>1, <1>6, <2>1 DEF Disconnecting
    <2>. QED  BY <2>2 DEF PhaseInv, Queued
<1>. QED  BY <1>2, <1>3, <1>4, <1>5, <1>6 DEF PhaseInv

LEMMA UsedHere ==
    ASSUME TypeInv
    PROVE  /\ \A l \in timer : l \in Leases /\ Used(l)
           /\ \A l \in Leases : bound[l] # {} => Used(l)
           /\ \A k \in Keys : leases[k] # NoLease => leases[k] \in Leases /\ Used(leases[k])
           /\ \A o \in Ops : at[o] # NoLease => at[o] \in Leases /\ Used(at[o])
           /\ \A d \in Drops : \A l \in todo[d] : l \in Leases /\ Used(l)
<1>1. ASSUME NEW k \in Keys, leases[k] # NoLease
      PROVE  leases[k] \in Leases /\ Used(leases[k])
    <2>1. KeyOf(leases[k]) = k
        BY <1>1 DEF TypeInv, KeyedInv
    <2>. QED  BY <1>1, <2>1 DEF Used, TypeInv, SessionTypeOK
<1>. QED  BY <1>1 DEF Used, TypeInv, SessionTypeOK

LEMMA UsedShrinks ==
    ASSUME kind' = kind,
           \A l \in timer' : Used(l),
           \A l \in Leases : bound'[l] # {} => Used(l),
           \A k \in Keys : leases'[k] # NoLease => Used(leases'[k]),
           \A o \in Ops : at'[o] # NoLease => Used(at'[o]),
           \A d \in Drops : \A l \in todo'[d] : Used(l)
    PROVE  \A l \in Leases : Used(l)' => Used(l)
<1>. SUFFICES ASSUME NEW l \in Leases, Used(l)'
              PROVE  Used(l)
    OBVIOUS
<1>1. KeyOf(l)' = KeyOf(l) /\ KeyOf(l) \in Keys /\ l # NoLease
    BY KindStays, KeysOfTabs, LeaseParts
<1>2. \/ l \in timer'
      \/ bound'[l] # {}
      \/ leases'[KeyOf(l)] = l
      \/ \E o \in Ops : at'[o] = l
      \/ \E d \in Drops : l \in todo'[d]
    BY <1>1 DEF Used
<1>. QED  BY <1>1, <1>2

LEMMA ClaimsShrink ==
    ASSUME TypeInv, FreshInv, ClaimInv, kind' = kind, newest' = newest,
           \A l \in Leases : Used(l)' => Used(l),
           \A t \in Tabs : pc'[<<"job", t>>] = "opened" => pc[<<"job", t>>] = "opened",
           \A t \in Tabs : \/ shown'[t] = shown[t]
                           \/ \E l \in Leases : Used(l) /\ l[1] = shown'[t] /\ KeyOf(l) = buildSessionKey(t)
    PROVE  FreshInv' /\ ClaimInv'
<1>1. policy' = policy /\ Keys' = Keys /\ (\A u : buildSessionKey(u)' = buildSessionKey(u)) /\ (\A m : KeyOf(m)' = KeyOf(m))
    BY KindStays
<1>2. FreshInv'
    <2>. SUFFICES ASSUME NEW l \in Leases, l[1] > newest \/ (l[1] = newest /\ pc'[<<"job", l[2]>>] = "opened")
                  PROVE  ~Used(l)'
        BY DEF FreshInv
    <2>1. ~Used(l)
        BY LeaseParts DEF FreshInv
    <2>. QED  BY <2>1
<1>3. ASSUME NEW s \in Sessions, NEW k \in Keys, Claim(s, k)'
      PROVE  Claim(s, k)
    <2>1. \/ \E l \in Leases : Used(l)' /\ l[1] = s /\ KeyOf(l) = k
          \/ \E t \in Tabs : shown'[t] = s /\ buildSessionKey(t) = k
          \/ \E t \in Tabs : pc'[<<"job", t>>] = "opened" /\ newest = s /\ buildSessionKey(t) = k
        BY <1>1, <1>3 DEF Claim
    <2>. QED  BY <2>1 DEF Claim
<1>4. ClaimInv'
    BY <1>1, <1>3 DEF ClaimInv
<1>. QED  BY <1>2, <1>4

\* Leases of different keys differ.
LEMMA OtherLeases ==
    ASSUME TypeInv, NEW l \in Leases, NEW k \in Keys, k # KeyOf(l)
    PROVE  leases[k] # l
BY LeaseParts DEF TypeInv, KeyedInv

LEMMA OwnKeys ==
    ASSUME policy.sharing = "per_tab", NEW t \in Tabs, NEW u \in Tabs, buildSessionKey(t) = buildSessionKey(u)
    PROVE  t = u
BY DEF buildSessionKey

\* A release, of a tab that was closed or of forceReconnect.
LEMMA ReleaseGeneral ==
    ASSUME TypeInv, GeneralInv, NEW o \in Ops, o[1] \in {"close", "job"}, pc[o] = "cleanup",
           AfterRelease(o, o[1] = "job"),
           at' \in [Ops -> Leases \cup {NoLease}], at'[o] \in {at[o], NoLease},
           \A q \in Ops : q # o => pc'[q] = pc[q] /\ at'[q] = at[q],
           o[1] = "close" => pc'[o] = "idle",
           o[1] = "job" => pc'[o] \in {"closing", "reacquire"},
           UNCHANGED <<kind, view, newest, todo>>
    PROVE  FreshInv' /\ ClaimInv' /\ TimerInv' /\ UnusedIffTimed' /\ TabInv' /\ OwnInv'
<1>. DEFINE l == at[o]
            t == o[2]
            k == KeyOf(l)
<1>1. /\ t \in Tabs /\ o = <<o[1], t>> /\ l \in Leases /\ k = buildSessionKey(t) /\ k \in Keys
      /\ \A u \in Tabs : <<"job", u>> \in Ops /\ <<"close", u>> \in Ops
    BY OpsAre, KeysOfTabs DEF TypeInv, PlaceInv
<1>. HIDE DEF l, k, t
<1>2. /\ bound'[l] = bound[l] \ {t}
      /\ \A m \in Leases : m # l => bound'[m] = bound[m]
      /\ \A h \in Keys : h # k => leases'[h] = leases[h]
      /\ \/ bound'[l] # {} /\ leases'[k] = l /\ timer' = timer
         \/ /\ bound'[l] = {} /\ (o[1] = "job" \/ policy.closeOnRelease)
            /\ leases'[k] = NoLease /\ timer' = timer \ {l}
         \/ /\ bound'[l] = {} /\ ~(o[1] = "job" \/ policy.closeOnRelease)
            /\ leases'[k] = l /\ timer' = timer \cup {l}
    BY <1>1, Released DEF TypeInv, l, k, t
<1>3. policy' = policy /\ Keys' = Keys /\ (\A u : buildSessionKey(u)' = buildSessionKey(u)) /\ (\A m : KeyOf(m)' = KeyOf(m))
    BY KindStays
<1>4. \A m \in Leases : Used(m)' => Used(m)
    <2>1. Used(l) /\ l # NoLease
        BY <1>1, UsedHere, LeaseParts DEF l
    <2>2. \A m \in timer' : Used(m)
        BY <1>2, <2>1, UsedHere
    <2>3. \A m \in Leases : bound'[m] # {} => Used(m)
        BY <1>2, <2>1, UsedHere
    <2>4. \A h \in Keys : leases'[h] # NoLease => Used(leases'[h])
        BY <1>2, <2>1, UsedHere
    <2>5. \A q \in Ops : at'[q] # NoLease => Used(at'[q])
        BY <2>1, UsedHere DEF l
    <2>6. \A d \in Drops : \A m \in todo'[d] : Used(m)
        BY UsedHere
    <2>. QED  BY <2>2, <2>3, <2>4, <2>5, <2>6, UsedShrinks
<1>5. FreshInv' /\ ClaimInv'
    <2>1. \A u \in Tabs : pc'[<<"job", u>>] = "opened" => pc[<<"job", u>>] = "opened"
        BY <1>1
    <2>2. \A u \in Tabs : shown'[u] = shown[u]
        BY DEF view
    <2>. QED  BY <1>4, <2>1, <2>2, ClaimsShrink DEF GeneralInv
<1>6. TimerInv'
    <2>. SUFFICES ASSUME NEW m \in timer'
                  PROVE  bound'[m] = {}
        BY DEF TimerInv
    <2>1. m = l \/ (m \in timer /\ m \in Leases)
        BY <1>2, UsedHere
    <2>2. m \in timer => bound[m] = {}
        BY DEF TimerInv, GeneralInv
    <2>. QED  BY <1>1, <1>2, <2>1, <2>2
<1>7. UnusedIffTimed'
    <2>. SUFFICES ASSUME NEW h \in Keys, leases'[h] # NoLease
                  PROVE  bound'[leases'[h]] = {} <=> leases'[h] \in timer'
        BY <1>3 DEF UnusedIffTimed
    <2>1. CASE h = k
        <3>1. l \in timer => bound[l] = {}
            BY DEF GeneralInv, TimerInv
        <3>. QED  BY <1>2, <2>1, <3>1
    <2>2. CASE h # k
        <3>1. leases[h] # l /\ leases'[h] = leases[h] /\ leases[h] \in Leases
            BY <1>1, <1>2, <2>2, OtherLeases DEF k, TypeInv, SessionTypeOK
        <3>2. bound[leases[h]] = {} <=> leases[h] \in timer
            BY <3>1 DEF GeneralInv, UnusedIffTimed
        <3>. QED  BY <1>2, <3>1, <3>2
    <2>. QED  BY <2>1, <2>2
<1>8. TabInv'
    <2>1. \A u \in Tabs : pc'[<<"job", u>>] # "idle" => pc[<<"job", u>>] # "idle"
        BY <1>1
    <2>2. \A u \in Tabs : pc'[<<"close", u>>] # "idle" => pc[<<"close", u>>] # "idle"
        BY <1>1
    <2>3. \A m \in Leases : bound'[m] \subseteq bound[m]
        BY <1>2
    <2>4. TabInv /\ tab' = tab /\ stray' = stray
        BY DEF GeneralInv, view
    <2>. QED  BY <2>1, <2>2, <2>3, <2>4 DEF TabInv
<1>9. OwnInv'
    <2>. SUFFICES ASSUME policy.sharing = "per_tab", NEW u \in Tabs, tab[u] # "closed",
                         leases'[buildSessionKey(u)] # NoLease
                  PROVE  u \in bound'[leases'[buildSessionKey(u)]]
        BY <1>3 DEF OwnInv, view
    <2>1. CASE u = t
        <3>1. o[1] = "job"
            BY <1>1, <2>1 DEF GeneralInv, TabInv
        <3>2. bound'[l] = {}
            <4>1. \A v \in bound[l] : v \in Tabs /\ buildSessionKey(v) = buildSessionKey(t)
                BY <1>1 DEF TypeInv, KeyedInv, SessionTypeOK, k
            <4>2. \A v \in bound[l] : v = t
                BY <1>1, <4>1, OwnKeys
            <4>. QED  BY <1>2, <4>2
        <3>. QED  BY <1>1, <1>2, <2>1, <3>1, <3>2
    <2>2. CASE u # t
        <3>1. buildSessionKey(u) # k /\ buildSessionKey(u) \in Keys
            BY <1>1, <2>2, OwnKeys, KeysOfTabs
        <3>2. /\ leases'[buildSessionKey(u)] = leases[buildSessionKey(u)] /\ leases[buildSessionKey(u)] # l
              /\ leases[buildSessionKey(u)] \in Leases
            BY <1>1, <1>2, <3>1, OtherLeases DEF k, TypeInv, SessionTypeOK
        <3>3. u \in bound[leases[buildSessionKey(u)]]
            BY <3>2 DEF GeneralInv, OwnInv
        <3>. QED  BY <1>2, <3>2, <3>3
    <2>. QED  BY <2>1, <2>2
<1>. QED  BY <1>5, <1>6, <1>7, <1>8, <1>9

\* An acquire, by the view that mounts or by forceReconnect.
LEMMA AcquireGeneral ==
    ASSUME TypeInv, GeneralInv, NEW t \in Tabs, pc[<<"job", t>>] \in {"loading", "closing", "reacquire"},
           NEW queue, acquire(<<"job", t>>, t, queue),
           UNCHANGED <<kind, tab, stray, leases, serviceVars, todo>>
    PROVE  FreshInv' /\ ClaimInv' /\ TimerInv' /\ UnusedIffTimed' /\ TabInv' /\ OwnInv'
<1>. DEFINE o == <<"job", t>>
            k == buildSessionKey(t)
            l == leases[k]
<1>1. k \in Keys /\ o \in Ops /\ \A u \in Tabs : <<"job", u>> \in Ops /\ <<"close", u>> \in Ops
                                                 /\ <<"close", u>> # o /\ (u # t => <<"job", u>> # o)
    BY OpsAre, KeysOfTabs
<1>2. /\ at'[o] = NoLease /\ pc'[o] \in {"idle", "opening"}
      /\ \A q \in Ops : q # o => pc'[q] = pc[q] /\ at'[q] = at[q]
      /\ \A u \in Tabs : u # t => shown'[u] = shown[u]
      /\ timer' \subseteq timer
      /\ \/ /\ l \in Leases /\ shown'[t] = l[1]
            /\ timer' = timer \ {l} /\ bound'[l] = bound[l] \cup {t}
            /\ \A m \in Leases : m # l => bound'[m] = bound[m]
         \/ l = NoLease /\ UNCHANGED <<timer, bound, shown>>
    BY Acquired DEF TypeInv
<1>3. l \in Leases => Used(l) /\ KeyOf(l) = k
    BY <1>1, LeaseParts, UsedHere DEF TypeInv, KeyedInv
<1>. HIDE DEF o, k, l
<1>4. policy' = policy /\ Keys' = Keys /\ (\A u : buildSessionKey(u)' = buildSessionKey(u)) /\ (\A m : KeyOf(m)' = KeyOf(m))
    BY KindStays
<1>5. \A m \in Leases : Used(m)' => Used(m)
    <2>1. \A m \in timer' : Used(m)
        BY <1>2, UsedHere
    <2>2. \A m \in Leases : bound'[m] # {} => Used(m)
        BY <1>2, <1>3, UsedHere
    <2>3. \A h \in Keys : leases'[h] # NoLease => Used(leases'[h])
        BY UsedHere
    <2>4. \A q \in Ops : at'[q] # NoLease => Used(at'[q])
        BY <1>2, UsedHere
    <2>5. \A d \in Drops : \A m \in todo'[d] : Used(m)
        BY UsedHere
    <2>. QED  BY <2>1, <2>2, <2>3, <2>4, <2>5, UsedShrinks
<1>6. FreshInv' /\ ClaimInv'
    <2>1. \A u \in Tabs : pc'[<<"job", u>>] = "opened" => pc[<<"job", u>>] = "opened"
        BY <1>1, <1>2 DEF o
    <2>2. \A u \in Tabs : \/ shown'[u] = shown[u]
                          \/ \E m \in Leases : Used(m) /\ m[1] = shown'[u] /\ KeyOf(m) = buildSessionKey(u)
        BY <1>2, <1>3 DEF k
    <2>. QED  BY <1>5, <2>1, <2>2, ClaimsShrink DEF GeneralInv, serviceVars
<1>7. TimerInv'
    <2>. SUFFICES ASSUME NEW m \in timer'
                  PROVE  bound'[m] = {}
        BY DEF TimerInv
    <2>1. m \in Leases /\ bound[m] = {}
        BY <1>2, UsedHere DEF GeneralInv, TimerInv
    <2>. QED  BY <1>2, <2>1
<1>8. UnusedIffTimed'
    <2>. SUFFICES ASSUME NEW h \in Keys, leases[h] # NoLease
                  PROVE  bound'[leases[h]] = {} <=> leases[h] \in timer'
        BY <1>4 DEF UnusedIffTimed
    <2>1. leases[h] \in Leases /\ (bound[leases[h]] = {} <=> leases[h] \in timer)
        BY DEF GeneralInv, UnusedIffTimed, TypeInv, SessionTypeOK
    <2>. QED  BY <1>2, <2>1
<1>9. TabInv'
    <2>. SUFFICES ASSUME NEW u \in Tabs
                  PROVE  /\ tab[u] = "closed" /\ pc'[<<"job", u>>] # "idle" => u \in stray
                         /\ tab[u] = "absent" => pc'[<<"job", u>>] = "idle" /\ pc'[<<"close", u>>] = "idle"
                                                 /\ \A m \in Leases : u \notin bound'[m]
                         /\ pc'[<<"close", u>>] # "idle" => tab[u] = "closed"
        BY DEF TabInv
    <2>1. /\ tab[u] = "closed" /\ pc[<<"job", u>>] # "idle" => u \in stray
          /\ tab[u] = "absent" => pc[<<"job", u>>] = "idle" /\ pc[<<"close", u>>] = "idle"
                                  /\ \A m \in Leases : u \notin bound[m]
          /\ pc[<<"close", u>>] # "idle" => tab[u] = "closed"
        BY DEF GeneralInv, TabInv
    <2>2. pc'[<<"close", u>>] = pc[<<"close", u>>]
        BY <1>1, <1>2
    <2>3. CASE u = t
        BY <2>1, <2>2, <2>3
    <2>4. CASE u # t
        <3>1. pc'[<<"job", u>>] = pc[<<"job", u>>]
            BY <1>1, <1>2, <2>4
        <3>2. \A m \in Leases : u \in bound'[m] => u \in bound[m]
            BY <1>2, <2>4
        <3>. QED  BY <2>1, <2>2, <3>1, <3>2
    <2>. QED  BY <2>3, <2>4
<1>10. OwnInv'
    <2>. SUFFICES ASSUME policy.sharing = "per_tab", NEW u \in Tabs, tab[u] # "closed",
                         leases[buildSessionKey(u)] # NoLease
                  PROVE  u \in bound'[leases[buildSessionKey(u)]]
        BY <1>4 DEF OwnInv
    <2>1. leases[buildSessionKey(u)] \in Leases /\ u \in bound[leases[buildSessionKey(u)]]
        BY KeysOfTabs DEF GeneralInv, OwnInv, TypeInv, SessionTypeOK
    <2>. QED  BY <1>2, <2>1
<1>. QED  BY <1>6, <1>7, <1>8, <1>9, <1>10

\* The body of the loops of disconnect and markSessionLost.
LEMMA DropGeneral ==
    ASSUME TypeInv, GeneralInv, NEW o \in Ops, o[1] = "drop", NEW l \in Leases,
           bound' \in [Leases -> SUBSET Tabs], bound'[l] = {},
           \A m \in Leases : m # l => bound'[m] = bound[m],
           timer' = timer \ {l},
           leases'[KeyOf(l)] = NoLease,
           \A k \in Keys : k # KeyOf(l) => leases'[k] = leases[k],
           \A q \in Ops : q # o => pc'[q] = pc[q] /\ at'[q] = at[q],
           at'[o] = NoLease \/ at'[o] = at[o] \/ at'[o] \in todo[o[2]],
           \A d \in Drops : todo'[d] \subseteq todo[d],
           UNCHANGED <<kind, view, newest>>
    PROVE  FreshInv' /\ ClaimInv' /\ TimerInv' /\ UnusedIffTimed' /\ TabInv' /\ OwnInv'
<1>. DEFINE k == KeyOf(l)
<1>1. k \in Keys /\ o[2] \in Drops /\ \A u \in Tabs : /\ <<"job", u>> \in Ops /\ <<"job", u>> # o
                                                       /\ <<"close", u>> \in Ops /\ <<"close", u>> # o
    BY OpsAre, KeysOfTabs
<1>2. policy' = policy /\ Keys' = Keys /\ (\A u : buildSessionKey(u)' = buildSessionKey(u)) /\ (\A m : KeyOf(m)' = KeyOf(m))
    BY KindStays
<1>. HIDE DEF k
<1>3. \A m \in Leases : Used(m)' => Used(m)
    <2>1. \A m \in timer' : Used(m)
        BY UsedHere
    <2>2. \A m \in Leases : bound'[m] # {} => Used(m)
        BY UsedHere
    <2>3. \A h \in Keys : leases'[h] # NoLease => Used(leases'[h])
        BY UsedHere
    <2>4. \A q \in Ops : at'[q] # NoLease => Used(at'[q])
        BY <1>1, UsedHere
    <2>5. \A d \in Drops : \A m \in todo'[d] : Used(m)
        BY UsedHere
    <2>. QED  BY <2>1, <2>2, <2>3, <2>4, <2>5, UsedShrinks
<1>4. FreshInv' /\ ClaimInv'
    <2>1. \A u \in Tabs : pc'[<<"job", u>>] = "opened" => pc[<<"job", u>>] = "opened"
        BY <1>1
    <2>2. \A u \in Tabs : shown'[u] = shown[u]
        BY DEF view
    <2>. QED  BY <1>3, <2>1, <2>2, ClaimsShrink DEF GeneralInv
<1>5. TimerInv'
    <2>. SUFFICES ASSUME NEW m \in timer'
                  PROVE  bound'[m] = {}
        BY DEF TimerInv
    <2>1. m \in Leases /\ bound[m] = {}
        BY UsedHere DEF GeneralInv, TimerInv
    <2>. QED  BY <2>1
<1>6. \A h \in Keys : leases'[h] # NoLease => leases'[h] = leases[h] /\ leases[h] \in Leases /\ leases[h] # l
    BY OtherLeases DEF TypeInv, SessionTypeOK
<1>7. UnusedIffTimed'
    <2>. SUFFICES ASSUME NEW h \in Keys, leases'[h] # NoLease
                  PROVE  bound'[leases'[h]] = {} <=> leases'[h] \in timer'
        BY <1>2 DEF UnusedIffTimed
    <2>1. bound[leases[h]] = {} <=> leases[h] \in timer
        BY <1>6 DEF GeneralInv, UnusedIffTimed
    <2>. QED  BY <1>6, <2>1
<1>8. TabInv'
    <2>1. \A m \in Leases : bound'[m] \subseteq bound[m]
        OBVIOUS
    <2>2. TabInv /\ tab' = tab /\ stray' = stray
        BY DEF GeneralInv, view
    <2>. QED  BY <1>1, <2>1, <2>2 DEF TabInv
<1>9. OwnInv'
    <2>. SUFFICES ASSUME policy.sharing = "per_tab", NEW u \in Tabs, tab[u] # "closed",
                         leases'[buildSessionKey(u)] # NoLease
                  PROVE  u \in bound'[leases'[buildSessionKey(u)]]
        BY <1>2 DEF OwnInv, view
    <2>1. buildSessionKey(u) \in Keys
        BY KeysOfTabs
    <2>2. u \in bound[leases[buildSessionKey(u)]]
        BY <1>6, <2>1 DEF GeneralInv, OwnInv
    <2>. QED  BY <1>6, <2>1, <2>2
<1>. QED  BY <1>4, <1>5, <1>7, <1>8, <1>9

\* A step that makes no lease, and after which less is referred to.
LEMMA LessGeneral ==
    ASSUME TypeInv, GeneralInv,
           UNCHANGED <<kind, shown, bound, timer, newest, leases>>,
           \A o \in Ops : at'[o] # NoLease => Used(at'[o]),
           \A d \in Drops : \A l \in todo'[d] : Used(l),
           \A t \in Tabs : pc'[<<"job", t>>] = "opened" => pc[<<"job", t>>] = "opened",
           \A t \in Tabs : tab[t] = "closed" => tab'[t] = "closed"
    PROVE  FreshInv' /\ ClaimInv' /\ TimerInv' /\ UnusedIffTimed' /\ OwnInv'
<1>1. policy' = policy /\ Keys' = Keys /\ (\A u : buildSessionKey(u)' = buildSessionKey(u)) /\ (\A m : KeyOf(m)' = KeyOf(m))
    BY KindStays
<1>2. \A m \in Leases : Used(m)' => Used(m)
    BY UsedHere, UsedShrinks
<1>3. FreshInv' /\ ClaimInv'
    BY <1>2, ClaimsShrink DEF GeneralInv
<1>4. TimerInv' /\ UnusedIffTimed' /\ OwnInv'
    BY <1>1 DEF GeneralInv, TimerInv, UnusedIffTimed, OwnInv
<1>. QED  BY <1>3, <1>4

LEMMA SameTabs ==
    ASSUME GeneralInv, UNCHANGED <<tab, stray, bound>>,
           \A t \in Tabs : /\ pc'[<<"job", t>>] # "idle" => pc[<<"job", t>>] # "idle"
                           /\ pc'[<<"close", t>>] # "idle" => pc[<<"close", t>>] # "idle"
    PROVE  TabInv'
BY DEF GeneralInv, TabInv

LEMMA PhaseOfNone ==
    ASSUME micro' = <<>>
    PROVE  PhaseInv'
BY QueueEmpty DEF PhaseInv, Queued

LEMMA OpenTabGeneral ==
    ASSUME TypeInv, GeneralInv, NEW t \in Tabs, OpenTab(t)
    PROVE  GeneralInv'
<1>1. /\ micro = <<>> /\ tab[t] = "absent"
      /\ tab' = [tab EXCEPT ![t] = "open"]
      /\ pc' = [pc EXCEPT ![<<"job", t>>] = "loading"]
      /\ UNCHANGED <<kind, shown, stray, leases, bound, timer, inflight, newest, at, todo, micro>>
    BY DEF OpenTab, Quiet, registry, serviceVars
<1>2. \A u \in Tabs : /\ u # t => pc'[<<"job", u>>] = pc[<<"job", u>>] /\ tab'[u] = tab[u]
                      /\ pc'[<<"close", u>>] = pc[<<"close", u>>]
    BY <1>1, OpsAre DEF TypeInv, SessionTypeOK
<1>3. pc'[<<"job", t>>] = "loading" /\ tab'[t] = "open"
    BY <1>1, OpsAre DEF TypeInv, SessionTypeOK
<1>4. FreshInv' /\ ClaimInv' /\ TimerInv' /\ UnusedIffTimed' /\ OwnInv'
    BY <1>1, <1>2, <1>3, LessGeneral, UsedHere
<1>5. TabInv'
    <2>1. pc[<<"close", t>>] = "idle"
        BY <1>1 DEF GeneralInv, TabInv
    <2>. QED  BY <1>1, <1>2, <1>3, <2>1 DEF GeneralInv, TabInv
<1>6. PhaseInv'
    BY <1>1, PhaseOfNone
<1>. QED  BY <1>4, <1>5, <1>6 DEF GeneralInv

LEMMA ProfileLoadedGeneral ==
    ASSUME TypeInv, GeneralInv, NEW t \in Tabs, ProfileLoaded(t)
    PROVE  GeneralInv'
<1>1. /\ micro = <<>>
      /\ pc[<<"job", t>>] = "loading"
      /\ acquire(<<"job", t>>, t, micro)
      /\ UNCHANGED <<kind, tab, stray, leases, serviceVars, todo>>
    BY DEF ProfileLoaded, Quiet
<1>2. FreshInv' /\ ClaimInv' /\ TimerInv' /\ UnusedIffTimed' /\ TabInv' /\ OwnInv'
    BY <1>1, AcquireGeneral
<1>3. micro' = <<>>
    BY <1>1 DEF acquire
<1>. QED  BY <1>2, <1>3, PhaseOfNone DEF GeneralInv

LEMMA CloseTabGeneral ==
    ASSUME TypeInv, GeneralInv, NEW t \in Tabs, CloseTab(t)
    PROVE  GeneralInv'
<1>. DEFINE o == <<"close", t>>
            l == getLeaseByTabId(t)
<1>0. o \in Ops /\ \A u \in Tabs : <<"job", u>> \in Ops /\ <<"job", u>> # o /\ (u # t => <<"close", u>> # o) /\ <<"close", u>> \in Ops
    BY OpsAre
<1>1. /\ micro = <<>> /\ tab[t] = "open"
      /\ tab' = [tab EXCEPT ![t] = "closed"]
      /\ stray' = IF pc[<<"job", t>>] = "idle" THEN stray ELSE stray \cup {t}
      /\ IF l = NoLease THEN UNCHANGED <<pc, at, micro>> ELSE AwaitHooks(o, l, micro)
      /\ UNCHANGED <<kind, shown, leases, bound, timer, newest, todo>>
    BY DEF CloseTab, Quiet, registry, serviceVars
<1>2. micro \in Seq(Ops) /\ NoRepeat(micro) /\ o \notin ToSet(micro) /\ ToSet(micro) = {}
    BY <1>1, QueueEmpty
<1>3. /\ \A q \in Ops : q # o => pc'[q] = pc[q] /\ at'[q] = at[q]
      /\ ToSet(micro') \subseteq {o}
      /\ at'[o] = at[o] \/ \E k \in Keys : leases[k] = at'[o]
    <2>1. CASE l = NoLease
        BY <1>1, <1>2, <2>1
    <2>2. CASE l # NoLease
        <3>1. l \in Leases /\ \E k \in Keys : leases[k] = l
            BY <2>2, Found DEF TypeInv
        <3>2. AwaitHooks(o, l, micro)
            BY <1>1, <2>2
        <3>. HIDE DEF l, o
        <3>3. /\ at'[o] = l
              /\ \A q \in Ops : q # o => pc'[q] = pc[q] /\ at'[q] = at[q]
              /\ Joined(micro, o)
            BY <1>0, <1>2, <3>1, <3>2, Awaits DEF TypeInv
        <3>. QED  BY <1>2, <3>1, <3>3 DEF Joined
    <2>. QED  BY <2>1, <2>2
<1>4. \A u \in Tabs : u # t => tab'[u] = tab[u]
    BY <1>1 DEF TypeInv, SessionTypeOK
<1>5. tab'[t] = "closed"
    BY <1>1 DEF TypeInv, SessionTypeOK
<1>. HIDE DEF l
<1>6. FreshInv' /\ ClaimInv' /\ TimerInv' /\ UnusedIffTimed' /\ OwnInv'
    <2>1. \A q \in Ops : at'[q] # NoLease => Used(at'[q])
        BY <1>3, UsedHere
    <2>2. \A u \in Tabs : pc'[<<"job", u>>] = "opened" => pc[<<"job", u>>] = "opened"
        BY <1>0, <1>3
    <2>3. \A u \in Tabs : tab[u] = "closed" => tab'[u] = "closed"
        BY <1>4, <1>5
    <2>4. UNCHANGED <<kind, shown, bound, timer, newest, leases>> /\ todo' = todo
        BY <1>1
    <2>5. \A d \in Drops : \A m \in todo'[d] : Used(m)
        BY <2>4, UsedHere
    <2>. QED  BY <2>1, <2>2, <2>3, <2>4, <2>5, LessGeneral
<1>7. TabInv'
    <2>. SUFFICES ASSUME NEW u \in Tabs
                  PROVE  /\ tab'[u] = "closed" /\ pc'[<<"job", u>>] # "idle" => u \in stray'
                         /\ tab'[u] = "absent" => pc'[<<"job", u>>] = "idle" /\ pc'[<<"close", u>>] = "idle"
                                                 /\ \A m \in Leases : u \notin bound[m]
                         /\ pc'[<<"close", u>>] # "idle" => tab'[u] = "closed"
        BY <1>1 DEF TabInv
    <2>1. pc'[<<"job", u>>] = pc[<<"job", u>>]
        BY <1>0, <1>3
    <2>2. CASE u = t
        BY <1>1, <1>5, <2>1, <2>2
    <2>3. CASE u # t
        <3>1. tab'[u] = tab[u] /\ pc'[<<"close", u>>] = pc[<<"close", u>>] /\ (u \in stray => u \in stray')
            BY <1>0, <1>1, <1>3, <1>4, <2>3
        <3>. QED  BY <2>1, <3>1 DEF GeneralInv, TabInv
    <2>. QED  BY <2>2, <2>3
<1>8. PhaseInv'
    <2>1. ToSet(micro') \subseteq TabClosing'
        BY <1>0, <1>3 DEF TabClosing
    <2>. QED  BY <2>1 DEF PhaseInv, Queued
<1>. QED  BY <1>6, <1>7, <1>8 DEF GeneralInv

LEMMA ReconnectingGeneral ==
    ASSUME TypeInv, GeneralInv, NEW order \in Seq(Tabs), NoRepeat(order),
           \A t \in ToSet(order) : t \in Idling, Reconnecting(order)
    PROVE  GeneralInv'
<1>. DEFINE J == {<<"job", t>> : t \in ToSet(order)}
<1>1. /\ pc' = [o \in Ops |-> IF o \in J THEN "reconnect" ELSE pc[o]]
      /\ micro' = [i \in DOMAIN order |-> <<"job", order[i]>>]
      /\ stray' = stray \cup {t \in ToSet(order) : tab[t] = "closed"}
      /\ UNCHANGED <<kind, tab, shown, leases, bound, timer, newest, at, todo>>
    BY DEF Reconnecting, Trouble, registry, serviceVars
<1>2. ToSet(micro') = J
    BY <1>1, QueueOfJobs
<1>3. ToSet(order) \subseteq Tabs
    BY DEF ToSet
<1>4. \A u \in Tabs : /\ u \in ToSet(order) => pc'[<<"job", u>>] = "reconnect"
                      /\ u \notin ToSet(order) => pc'[<<"job", u>>] = pc[<<"job", u>>]
                      /\ pc'[<<"close", u>>] = pc[<<"close", u>>]
    BY <1>1, OpsAre
<1>5. FreshInv' /\ ClaimInv' /\ TimerInv' /\ UnusedIffTimed' /\ OwnInv'
    BY <1>1, <1>4, LessGeneral, UsedHere
<1>6. TabInv'
    <2>. SUFFICES ASSUME NEW u \in Tabs
                  PROVE  /\ tab[u] = "closed" /\ pc'[<<"job", u>>] # "idle" => u \in stray'
                         /\ tab[u] = "absent" => pc'[<<"job", u>>] = "idle" /\ pc'[<<"close", u>>] = "idle"
                                                 /\ \A m \in Leases : u \notin bound[m]
                         /\ pc'[<<"close", u>>] # "idle" => tab[u] = "closed"
        BY <1>1 DEF TabInv
    <2>1. CASE u \in ToSet(order)
        <3>1. tab[u] # "absent"
            BY <2>1 DEF Idling
        <3>. QED  BY <1>1, <1>4, <2>1, <3>1 DEF GeneralInv, TabInv
    <2>2. CASE u \notin ToSet(order)
        BY <1>1, <1>4, <2>2 DEF GeneralInv, TabInv
    <2>. QED  BY <2>1, <2>2
<1>7. PhaseInv'
    <2>1. J \subseteq Restarting'
        BY <1>1, <1>3, OpsAre DEF Restarting
    <2>. QED  BY <1>2, <2>1 DEF PhaseInv, Queued
<1>. QED  BY <1>5, <1>6, <1>7 DEF GeneralInv

LEMMA ReconnectGeneral ==
    ASSUME TypeInv, GeneralInv, NEW t \in Tabs, Reconnect(t)
    PROVE  GeneralInv'
<1>1. t \in Idling /\ Reconnecting(<<t>>)
    BY DEF Reconnect
<1>2. <<t>> \in Seq(Tabs) /\ NoRepeat(<<t>>) /\ ToSet(<<t>>) = {t}
    BY QueueOne
<1>. QED  BY <1>1, <1>2, ReconnectingGeneral

LEMMA RequestReconnectGeneral ==
    ASSUME TypeInv, GeneralInv, RequestReconnect
    PROVE  GeneralInv'
<1>1. PICK order \in SetToSeqs(Idling) : Reconnecting(order)
    BY DEF RequestReconnect
<1>2. order \in Seq(Idling) /\ order \in Seq(Tabs) /\ NoRepeat(order)
    BY Orders DEF Idling
<1>3. ToSet(order) \subseteq Idling
    BY <1>2 DEF ToSet
<1>. QED  BY <1>1, <1>2, <1>3, ReconnectingGeneral

LEMMA HooksDoneGeneral ==
    ASSUME TypeInv, GeneralInv, NEW o \in Ops, HooksDone(o)
    PROVE  GeneralInv'
<1>1. /\ pc[o] = "cleanup"
      /\ micro' = <<o>>
      /\ UNCHANGED <<kind, tab, shown, stray, leases, bound, timer, newest, pc, at, todo>>
    BY DEF HooksDone, view, registry, serviceVars
<1>2. FreshInv' /\ ClaimInv' /\ TimerInv' /\ UnusedIffTimed' /\ OwnInv' /\ TabInv'
    BY <1>1, LessGeneral, UsedHere, SameTabs
<1>3. PhaseInv'
    <2>1. ToSet(micro') = {o}
        BY <1>1, QueueOne
    <2>2. o \in Restarting' \/ o \in TabClosing' \/ o \in {<<"drop", "lost">>} \/ o \in Disconnecting'
        BY <1>1, OpsAre DEF Restarting, TabClosing, Disconnecting, Drops
    <2>. QED  BY <2>1, <2>2 DEF PhaseInv, Queued
<1>. QED  BY <1>2, <1>3 DEF GeneralInv

LEMMA OpenReturnsGeneral ==
    ASSUME TypeInv, GeneralInv, NEW k \in Keys, OpenReturns(k)
    PROVE  GeneralInv'
<1>. DEFINE J == {<<"job", t>> : t \in ToSet(inflight[k])}
<1>1. /\ micro = <<>> /\ newest < MaxOpens
      /\ newest' = newest + 1
      /\ pc' = [o \in Ops |-> IF o \in J THEN "opened" ELSE pc[o]]
      /\ micro' = [i \in DOMAIN inflight[k] |-> <<"job", inflight[k][i]>>]
      /\ UNCHANGED <<kind, tab, shown, stray, leases, bound, timer, at, todo>>
    BY DEF OpenReturns, Quiet, view
<1>2. ToSet(micro') = J
    BY <1>1, WaitersAre, QueueOfJobs
<1>3. \A o \in J : o \in Ops /\ o[1] = "job" /\ pc[o] = "opening"
    BY WaitersAre
<1>4. \A u \in Tabs : <<"job", u>> \in J <=> u \in ToSet(inflight[k])
    OBVIOUS
<1>. HIDE DEF J
<1>5. policy' = policy /\ Keys' = Keys /\ (\A u : buildSessionKey(u)' = buildSessionKey(u)) /\ (\A m : KeyOf(m)' = KeyOf(m))
    BY <1>1, KindStays
<1>6. newest \in Nat
    BY SessionAssumption DEF TypeInv, SessionTypeOK
<1>7. \A u \in Tabs : pc[<<"job", u>>] # "opened"
    BY <1>1, OpsAre, QueueEmpty DEF TypeInv, QueuedInv, Queued
<1>8. \A u \in Tabs : pc'[<<"job", u>>] = "opened" => u \in ToSet(inflight[k]) /\ buildSessionKey(u) = k
    BY <1>1, <1>4, <1>7, OpsAre, WaitersAre
<1>9. \A m \in Leases : Used(m)' => Used(m)
    BY <1>1, UsedHere, UsedShrinks
<1>10. FreshInv'
    <2>. SUFFICES ASSUME NEW l \in Leases, l[1] > newest' \/ l[1] = newest'
                  PROVE  ~Used(l)'
        BY DEF FreshInv
    <2>1. l[1] > newest /\ l[1] \in Int
        BY <1>1, <1>6, LeaseParts, SessionAssumption DEF Sessions
    <2>. QED  BY <1>9, <2>1 DEF GeneralInv, FreshInv
<1>11. ClaimInv'
    <2>1. ASSUME NEW s \in Sessions, NEW j \in Keys, Claim(s, j)'
          PROVE  (s <= newest /\ Claim(s, j)) \/ (s = newest' /\ j = k)
        <3>1. \/ \E l \in Leases : Used(l)' /\ l[1] = s /\ KeyOf(l) = j
              \/ \E t \in Tabs : shown[t] = s /\ buildSessionKey(t) = j
              \/ \E t \in Tabs : pc'[<<"job", t>>] = "opened" /\ newest' = s /\ buildSessionKey(t) = j
            BY <1>1, <1>5, <2>1 DEF Claim
        <3>2. Claim(s, j) \/ (s = newest' /\ j = k)
            BY <1>8, <1>9, <3>1 DEF Claim
        <3>. QED  BY <3>2 DEF GeneralInv, ClaimInv
    <2>. SUFFICES ASSUME NEW s \in Sessions, NEW i \in Keys, NEW j \in Keys, Claim(s, i)'
                  PROVE  s <= newest' /\ (Claim(s, j)' => i = j)
        BY <1>5 DEF ClaimInv
    <2>2. s \in Int
        BY DEF Sessions
    <2>3. (s <= newest /\ Claim(s, i)) \/ (s = newest' /\ i = k)
        BY <2>1
    <2>4. Claim(s, j)' => (s <= newest /\ Claim(s, j)) \/ (s = newest' /\ j = k)
        BY <2>1
    <2>. QED  BY <1>1, <1>6, <2>2, <2>3, <2>4 DEF GeneralInv, ClaimInv
<1>12. TimerInv' /\ UnusedIffTimed' /\ OwnInv'
    BY <1>1, <1>5 DEF GeneralInv, TimerInv, UnusedIffTimed, OwnInv
<1>13. TabInv'
    <2>1. \A u \in Tabs : /\ pc'[<<"job", u>>] # "idle" => pc[<<"job", u>>] # "idle"
                          /\ pc'[<<"close", u>>] # "idle" => pc[<<"close", u>>] # "idle"
        BY <1>1, <1>3, OpsAre
    <2>. QED  BY <1>1, <2>1, SameTabs
<1>14. PhaseInv'
    <2>1. J \subseteq Opening'
        BY <1>1, <1>3 DEF Opening
    <2>. QED  BY <1>2, <2>1 DEF PhaseInv, Queued
<1>. QED  BY <1>10, <1>11, <1>12, <1>13, <1>14 DEF GeneralInv

LEMMA OpenFailsGeneral ==
    ASSUME TypeInv, GeneralInv, NEW k \in Keys, OpenFails(k)
    PROVE  GeneralInv'
<1>1. /\ micro' = <<>>
      /\ pc' = [o \in Ops |-> IF \E t \in ToSet(inflight[k]) : o = <<"job", t>> THEN "idle" ELSE pc[o]]
      /\ UNCHANGED <<kind, tab, shown, stray, leases, bound, timer, newest, at, todo>>
    BY DEF OpenFails, Trouble, view, serviceVars
<1>2. \A u \in Tabs : /\ pc'[<<"job", u>>] = pc[<<"job", u>>] \/ pc'[<<"job", u>>] = "idle"
                      /\ pc'[<<"close", u>>] = pc[<<"close", u>>]
    BY <1>1, OpsAre
<1>3. FreshInv' /\ ClaimInv' /\ TimerInv' /\ UnusedIffTimed' /\ OwnInv'
    BY <1>1, <1>2, LessGeneral, UsedHere
<1>4. TabInv'
    BY <1>1, <1>2, SameTabs
<1>. QED  BY <1>1, <1>3, <1>4, PhaseOfNone DEF GeneralInv

LEMMA CloseReturnsGeneral ==
    ASSUME TypeInv, GeneralInv, NEW s \in Sessions, CloseReturns(s)
    PROVE  GeneralInv'
<1>. DEFINE A == {o \in Ops : pc[o] = "closing" /\ at[o][1] = s}
<1>1. /\ micro' = SetToSeq(A)
      /\ UNCHANGED <<kind, tab, shown, stray, leases, bound, timer, newest, pc, at, todo>>
    BY DEF CloseReturns, view, registry
<1>2. FreshInv' /\ ClaimInv' /\ TimerInv' /\ UnusedIffTimed' /\ OwnInv' /\ TabInv'
    BY <1>1, LessGeneral, UsedHere, SameTabs
<1>3. PhaseInv'
    <2>1. IsFiniteSet(A)
        BY OpsFinite, FS_Subset
    <2>2. ToSet(micro') = A
        BY <1>1, <2>1, Enumeration
    <2>3. A \subseteq Disconnecting'
        <3>. SUFFICES ASSUME NEW o \in A
                      PROVE  o \in Ops /\ (o = <<"drop", "disconnect">> \/ (o[1] = "job" /\ pc'[o] = "closing"))
            BY DEF Disconnecting
        <3>1. o \in Ops /\ pc[o] = "closing"
            OBVIOUS
        <3>2. o[1] # "close" /\ o # <<"drop", "lost">>
            BY <3>1 DEF TypeInv, PlaceInv
        <3>. QED  BY <1>1, <3>1, <3>2, OpsAre DEF Drops
    <2>. QED  BY <2>2, <2>3 DEF PhaseInv, Queued
<1>. QED  BY <1>2, <1>3 DEF GeneralInv

LEMMA IdleTimerFiresGeneral ==
    ASSUME TypeInv, GeneralInv, NEW l \in Leases, IdleTimerFires(l)
    PROVE  GeneralInv'
<1>1. /\ micro' = <<>> /\ bound[l] = {} /\ finalizeClose(l)
      /\ UNCHANGED <<kind, view, bound, newest, pc, at, todo>>
    BY DEF IdleTimerFires, Quiet
<1>2. /\ timer' = timer \ {l} /\ leases'[KeyOf(l)] = NoLease
      /\ \A k \in Keys : k # KeyOf(l) => leases'[k] = leases[k]
    BY <1>1, Finalized DEF TypeInv
<1>3. <<"drop", "lost">> \in Ops /\ bound' \in [Leases -> SUBSET Tabs]
    BY <1>1, OpsAre DEF Drops, TypeInv, SessionTypeOK
<1>4. FreshInv' /\ ClaimInv' /\ TimerInv' /\ UnusedIffTimed' /\ TabInv' /\ OwnInv'
    BY <1>1, <1>2, <1>3, DropGeneral
<1>. QED  BY <1>1, <1>4, PhaseOfNone DEF GeneralInv

LEMMA TroublesGeneral ==
    ASSUME TypeInv, GeneralInv, (\E s \in Sessions : SessionDies(s)) \/ ServiceExits
    PROVE  GeneralInv'
<1>1. /\ micro' = <<>>
      /\ UNCHANGED <<kind, tab, shown, stray, leases, bound, timer, newest, pc, at, todo>>
    BY DEF SessionDies, ServiceExits, Trouble, view, registry
<1>2. FreshInv' /\ ClaimInv' /\ TimerInv' /\ UnusedIffTimed' /\ OwnInv' /\ TabInv'
    BY <1>1, LessGeneral, UsedHere, SameTabs
<1>. QED  BY <1>1, <1>2, PhaseOfNone DEF GeneralInv

LEMMA LoopGeneral ==
    ASSUME TypeInv, GeneralInv, NEW d \in Drops, NEW S, NEW queue \in Seq(Ops), NoRepeat(queue),
           <<"drop", d>> \notin ToSet(queue),
           NextLease(d, LeasesIn(S), queue) \/ NextLease(d, todo[d], queue),
           UNCHANGED <<kind, view, registry, newest>>
    PROVE  /\ FreshInv' /\ ClaimInv' /\ TimerInv' /\ UnusedIffTimed' /\ OwnInv' /\ TabInv'
           /\ ToSet(micro') \subseteq ToSet(queue) \cup {<<"drop", d>>}
           /\ \A q \in Ops : q # <<"drop", d>> => pc'[q] = pc[q]
<1>. DEFINE o == <<"drop", d>>
<1>1. PICK rest \in {LeasesIn(S), todo[d]} : NextLease(d, rest, queue)
    OBVIOUS
<1>2. /\ rest \in SUBSET Leases
      /\ \A l \in rest : l # NoLease /\ (l \in todo[d] \/ \E k \in Keys : leases[k] = l)
    BY InTable, LeaseParts DEF TypeInv, SessionTypeOK
<1>3. /\ \A q \in Ops : q # o => pc'[q] = pc[q] /\ at'[q] = at[q]
      /\ todo'[d] \subseteq rest /\ \A e \in Drops : e # d => todo'[e] = todo[e]
      /\ Joined(queue, o)
      /\ at'[o] = NoLease \/ at'[o] \in rest
    BY <1>1, <1>2, NextLeaseStarts DEF TypeInv
<1>4. \A u \in Tabs : <<"job", u>> \in Ops /\ <<"job", u>> # o /\ <<"close", u>> \in Ops /\ <<"close", u>> # o
    BY OpsAre
<1>. HIDE DEF o
<1>5. FreshInv' /\ ClaimInv' /\ TimerInv' /\ UnusedIffTimed' /\ OwnInv'
    <2>1. \A q \in Ops : at'[q] # NoLease => Used(at'[q])
        BY <1>2, <1>3, UsedHere
    <2>2. \A e \in Drops : \A l \in todo'[e] : Used(l)
        BY <1>2, <1>3, UsedHere
    <2>3. \A u \in Tabs : pc'[<<"job", u>>] = "opened" => pc[<<"job", u>>] = "opened"
        BY <1>3, <1>4
    <2>4. UNCHANGED <<kind, shown, bound, timer, newest, leases>> /\ tab' = tab
        BY DEF view, registry
    <2>. QED  BY <2>1, <2>2, <2>3, <2>4, LessGeneral
<1>6. TabInv'
    BY <1>3, <1>4, SameTabs DEF view, registry
<1>. QED  BY <1>3, <1>5, <1>6 DEF Joined, o

LEMMA DisconnectGeneral ==
    ASSUME TypeInv, GeneralInv, Disconnect
    PROVE  GeneralInv'
<1>1. /\ micro = <<>>
      /\ NextLease("disconnect", LeasesIn(Sessions), micro)
      /\ UNCHANGED <<kind, view, registry, newest>>
    BY DEF Disconnect, Trouble, serviceVars
<1>2. "disconnect" \in Drops /\ micro \in Seq(Ops) /\ NoRepeat(micro) /\ ToSet(micro) = {}
    BY <1>1, QueueEmpty DEF Drops
<1>3. /\ FreshInv' /\ ClaimInv' /\ TimerInv' /\ UnusedIffTimed' /\ OwnInv' /\ TabInv'
      /\ ToSet(micro') \subseteq {<<"drop", "disconnect">>}
    BY <1>1, <1>2, LoopGeneral
<1>4. PhaseInv'
    <2>1. <<"drop", "disconnect">> \in Disconnecting'
        BY <1>2, OpsAre DEF Disconnecting
    <2>. QED  BY <1>3, <2>1 DEF PhaseInv, Queued
<1>. QED  BY <1>3, <1>4 DEF GeneralInv

LEMMA LostEventGeneral ==
    ASSUME TypeInv, GeneralInv, LostEvent
    PROVE  GeneralInv'
<1>1. PICK S : NextLease("lost", LeasesIn(S), micro)
    BY DEF LostEvent
<1>2. micro = <<>> /\ UNCHANGED <<kind, view, registry, newest>>
    BY DEF LostEvent, Quiet
<1>3. "lost" \in Drops /\ micro \in Seq(Ops) /\ NoRepeat(micro) /\ ToSet(micro) = {}
    BY <1>2, QueueEmpty DEF Drops
<1>4. /\ FreshInv' /\ ClaimInv' /\ TimerInv' /\ UnusedIffTimed' /\ OwnInv' /\ TabInv'
      /\ ToSet(micro') \subseteq {<<"drop", "lost">>}
    BY <1>1, <1>2, <1>3, LoopGeneral
<1>5. PhaseInv'
    BY <1>4 DEF PhaseInv, Queued
<1>. QED  BY <1>4, <1>5 DEF GeneralInv

LEMMA ResumeCloseGeneral ==
    ASSUME TypeInv, GeneralInv, micro # <<>>, Head(micro)[1] = "close", ResumeClose(Head(micro))
    PROVE  GeneralInv'
<1>. DEFINE o == Head(micro)
<1>1. /\ pc[o] = "cleanup" /\ o[1] = "close"
      /\ AfterRelease(o, FALSE)
      /\ GoesTo(o, "idle", NoLease)
      /\ micro' = Tail(micro)
      /\ UNCHANGED <<kind, view, newest, todo>>
    BY DEF ResumeClose
<1>2. o \in Ops /\ o \in Queued /\ ToSet(Tail(micro)) = Queued \ {o}
    BY HeadOfQueue
<1>. HIDE DEF o
<1>3. /\ pc'[o] = "idle"
      /\ at' \in [Ops -> Leases \cup {NoLease}] /\ at'[o] = NoLease
      /\ \A q \in Ops : q # o => pc'[q] = pc[q] /\ at'[q] = at[q]
    BY <1>1, <1>2, Moves DEF Places, TypeInv
<1>4. AfterRelease(o, o[1] = "job")
    <2>1. (o[1] = "job") = FALSE
        BY <1>1
    <2>. QED  BY <1>1, <2>1
<1>5. FreshInv' /\ ClaimInv' /\ TimerInv' /\ UnusedIffTimed' /\ TabInv' /\ OwnInv'
    BY <1>1, <1>2, <1>3, <1>4, ReleaseGeneral
<1>6. PhaseInv'
    BY <1>1, <1>2, <1>3, PhaseGoesOn DEF GeneralInv
<1>. QED  BY <1>5, <1>6 DEF GeneralInv

LEMMA ResumeReconnectGeneral ==
    ASSUME TypeInv, GeneralInv, micro # <<>>, Head(micro)[1] = "job", ResumeReconnect(Head(micro))
    PROVE  GeneralInv'
<1>. DEFINE o == Head(micro)
            t == o[2]
            l == getLeaseByTabId(t)
<1>1. /\ pc[o] = "reconnect"
      /\ IF l = NoLease
         THEN GoesTo(o, "reacquire", NoLease) /\ micro' = Append(Tail(micro), o)
         ELSE AwaitHooks(o, l, Tail(micro))
      /\ UNCHANGED <<kind, tab, shown, stray, leases, bound, timer, newest, todo>>
    BY DEF ResumeReconnect, view, registry, serviceVars
<1>2. /\ o \in Ops /\ o \in Queued /\ Tail(micro) \in Seq(Ops) /\ NoRepeat(Tail(micro))
      /\ ToSet(Tail(micro)) = Queued \ {o} /\ o \notin ToSet(Tail(micro))
    BY HeadOfQueue
<1>3. t \in Tabs /\ o = <<"job", t>> /\ o[1] = "job"
      /\ \A u \in Tabs : /\ <<"job", u>> \in Ops /\ (u # t => <<"job", u>> # o)
                         /\ <<"close", u>> \in Ops /\ <<"close", u>> # o
    BY HeadJob, OpsAre
<1>4. l = NoLease \/ (l \in Leases /\ \E k \in Keys : leases[k] = l)
    BY <1>3, Found DEF TypeInv
<1>. HIDE DEF o, l, t
<1>5. /\ pc'[o] \in {"cleanup", "reacquire"} /\ at'[o] = l
      /\ \A q \in Ops : q # o => pc'[q] = pc[q] /\ at'[q] = at[q]
      /\ Joined(Tail(micro), o)
    <2>1. CASE l = NoLease
        <3>1. GoesTo(o, "reacquire", NoLease) /\ micro' = Append(Tail(micro), o)
            BY <1>1, <2>1
        <3>2. /\ pc'[o] = "reacquire" /\ at'[o] = NoLease
              /\ \A q \in Ops : q # o => pc'[q] = pc[q] /\ at'[q] = at[q]
            BY <1>2, <3>1, Moves DEF Places, TypeInv
        <3>3. /\ Append(Tail(micro), o) \in Seq(Ops) /\ NoRepeat(Append(Tail(micro), o))
              /\ ToSet(Append(Tail(micro), o)) = ToSet(Tail(micro)) \cup {o}
            <4>1. Tail(micro) \in Seq(Ops) /\ NoRepeat(Tail(micro)) /\ o \in Ops /\ o \notin ToSet(Tail(micro))
                BY <1>2
            <4>. QED  BY <4>1, QueueAppend
        <3>. QED  BY <2>1, <3>1, <3>2, <3>3 DEF Joined
    <2>2. CASE l # NoLease
        <3>1. AwaitHooks(o, l, Tail(micro)) /\ l \in Leases
            BY <1>1, <1>4, <2>2
        <3>2. /\ pc'[o] = "cleanup" /\ at'[o] = l
              /\ \A q \in Ops : q # o => pc'[q] = pc[q] /\ at'[q] = at[q]
              /\ Joined(Tail(micro), o)
            BY <1>2, <3>1, Awaits DEF TypeInv
        <3>. QED  BY <3>1, <3>2
    <2>. QED  BY <2>1, <2>2
<1>6. FreshInv' /\ ClaimInv' /\ TimerInv' /\ UnusedIffTimed' /\ OwnInv'
    <2>1. \A q \in Ops : at'[q] # NoLease => Used(at'[q])
        BY <1>4, <1>5, UsedHere
    <2>2. \A u \in Tabs : pc'[<<"job", u>>] = "opened" => pc[<<"job", u>>] = "opened"
        BY <1>3, <1>5
    <2>3. UNCHANGED <<kind, shown, bound, timer, newest, leases>> /\ todo' = todo /\ tab' = tab
        BY <1>1
    <2>4. \A d \in Drops : \A m \in todo'[d] : Used(m)
        BY <2>3, UsedHere
    <2>. QED  BY <2>1, <2>2, <2>3, <2>4, LessGeneral
<1>7. TabInv'
    <2>1. \A u \in Tabs : /\ pc'[<<"job", u>>] # "idle" => pc[<<"job", u>>] # "idle"
                          /\ pc'[<<"close", u>>] # "idle" => pc[<<"close", u>>] # "idle"
        BY <1>1, <1>3, <1>5
    <2>. QED  BY <1>1, <2>1, SameTabs
<1>8. PhaseInv'
    <2>1. o \in Restarting
        BY <1>1, <1>2, <1>3 DEF Restarting
    <2>2. ToSet(micro') \subseteq Queued
        BY <1>2, <1>5 DEF Joined
    <2>. QED  BY <1>2, <1>5, <2>1, <2>2, PhaseGoesOn DEF GeneralInv
<1>. QED  BY <1>6, <1>7, <1>8 DEF GeneralInv

LEMMA ResumeReleaseGeneral ==
    ASSUME TypeInv, GeneralInv, micro # <<>>, Head(micro)[1] = "job", ResumeRelease(Head(micro))
    PROVE  GeneralInv'
<1>. DEFINE o == Head(micro)
<1>1. /\ pc[o] = "cleanup" /\ AfterRelease(o, TRUE)
      /\ at' \in [Ops -> Leases \cup {NoLease}]
      /\ \A q \in Ops : q # o => pc'[q] = pc[q] /\ at'[q] = at[q]
      /\ Joined(Tail(micro), o)
      /\ \/ pc'[o] = "closing" /\ at'[o] = at[o] /\ ToSet(micro') = ToSet(Tail(micro))
         \/ pc'[o] = "reacquire" /\ at'[o] = NoLease
      /\ UNCHANGED <<kind, view, newest, todo>>
    BY ReleaseGoesOn
<1>2. /\ o \in Ops /\ o \in Queued /\ ToSet(Tail(micro)) = Queued \ {o}
    BY HeadOfQueue
<1>3. o[1] = "job"
    OBVIOUS
<1>. HIDE DEF o
<1>4. AfterRelease(o, o[1] = "job")
    <2>1. (o[1] = "job") = TRUE
        BY <1>3
    <2>. QED  BY <1>1, <2>1
<1>5. FreshInv' /\ ClaimInv' /\ TimerInv' /\ UnusedIffTimed' /\ TabInv' /\ OwnInv'
    <2>1. at'[o] \in {at[o], NoLease} /\ pc'[o] \in {"closing", "reacquire"} /\ o[1] \in {"close", "job"} /\ o[1] # "close"
        BY <1>1, <1>3
    <2>. QED  BY <1>1, <1>2, <1>4, <2>1, ReleaseGeneral
<1>6. PhaseInv'
    <2>1. o \in Restarting
        BY <1>1, <1>2, <1>3 DEF Restarting
    <2>2. ToSet(micro') \subseteq Queued
        BY <1>1, <1>2 DEF Joined
    <2>3. o \in ToSet(micro') => pc'[o] \in {"cleanup", "reacquire"}
        BY <1>1, <1>2
    <2>. QED  BY <1>1, <1>2, <2>1, <2>2, <2>3, PhaseGoesOn DEF GeneralInv
<1>. QED  BY <1>5, <1>6 DEF GeneralInv

LEMMA ResumeAcquireGeneral ==
    ASSUME TypeInv, GeneralInv, micro # <<>>, Head(micro)[1] = "job", ResumeAcquire(Head(micro))
    PROVE  GeneralInv'
<1>. DEFINE t == Head(micro)[2]
<1>1. t \in Tabs /\ Head(micro) = <<"job", t>>
    BY HeadJob
<1>2. /\ pc[<<"job", t>>] \in {"closing", "reacquire"}
      /\ acquire(<<"job", t>>, t, Tail(micro))
      /\ UNCHANGED <<kind, tab, stray, leases, serviceVars, todo>>
    BY <1>1 DEF ResumeAcquire
<1>3. <<"job", t>> \in Ops /\ <<"job", t>> \in Queued /\ ToSet(Tail(micro)) = Queued \ {<<"job", t>>}
    BY <1>1, HeadOfQueue
<1>. HIDE DEF t
<1>4. FreshInv' /\ ClaimInv' /\ TimerInv' /\ UnusedIffTimed' /\ TabInv' /\ OwnInv'
    BY <1>1, <1>2, AcquireGeneral
<1>5. /\ micro' = Tail(micro)
      /\ \A q \in Ops : q # <<"job", t>> => pc'[q] = pc[q]
    BY <1>1, <1>2, Acquired DEF TypeInv
<1>6. PhaseInv'
    BY <1>3, <1>5, PhaseGoesOn DEF GeneralInv
<1>. QED  BY <1>4, <1>6 DEF GeneralInv

\* What ResumeOpened does.
LEMMA OpenedGoesOn ==
    ASSUME TypeInv, GeneralInv, micro # <<>>, Head(micro)[1] = "job", ResumeOpened(Head(micro))
    PROVE  LET o == Head(micro)
               t == o[2]
               l == <<newest, t>>
           IN  /\ t \in Tabs /\ o = <<"job", t>> /\ o \in Ops /\ pc[o] = "opened"
               /\ l \in Leases /\ KeyOf(l) = buildSessionKey(t) /\ KeyOf(l) \in Keys /\ ~Used(l) /\ newest \in Sessions
               /\ bound' \in [Leases -> SUBSET Tabs] /\ bound'[l] = {t}
               /\ \A m \in Leases : m # l => bound'[m] = bound[m]
               /\ leases'[KeyOf(l)] = l
               /\ \A k \in Keys : k # KeyOf(l) => leases'[k] = leases[k]
               /\ shown'[t] = newest /\ \A u \in Tabs : u # t => shown'[u] = shown[u]
               /\ pc'[o] = "idle" /\ at'[o] = NoLease
               /\ \A q \in Ops : q # o => pc'[q] = pc[q] /\ at'[q] = at[q]
               /\ micro' = Tail(micro)
               /\ UNCHANGED <<kind, tab, stray, timer, inflight, serviceVars, todo>>
<1>. DEFINE o == Head(micro)
            t == o[2]
            l == <<newest, t>>
<1>1. /\ pc[o] = "opened"
      /\ bound' = [bound EXCEPT ![l] = {t}]
      /\ leases' = [leases EXCEPT ![KeyOf(l)] = l]
      /\ shown' = [shown EXCEPT ![t] = newest]
      /\ GoesTo(o, "idle", NoLease)
      /\ micro' = Tail(micro)
      /\ UNCHANGED <<kind, tab, stray, timer, inflight, serviceVars, todo>>
    BY DEF ResumeOpened
<1>2. o \in Ops
    BY HeadOfQueue
<1>3. t \in Tabs /\ o = <<"job", t>>
    BY HeadJob
<1>4. l[1] = newest /\ l[2] = t
    OBVIOUS
<1>5. newest \in Sessions
    BY <1>1, <1>2 DEF TypeInv, Opening
<1>6. l \in Leases /\ KeyOf(l) \in Keys /\ KeyOf(l) = buildSessionKey(t)
    <2>1. l \in Leases
        BY <1>3, <1>5 DEF Leases
    <2>. QED  BY <2>1, KeysOfTabs DEF KeyOf
<1>. HIDE DEF o, l, t
<1>7. ~Used(l)
    BY <1>1, <1>3, <1>4, <1>6 DEF GeneralInv, FreshInv
<1>8. /\ pc'[o] = "idle" /\ at'[o] = NoLease
      /\ \A q \in Ops : q # o => pc'[q] = pc[q] /\ at'[q] = at[q]
    BY <1>1, <1>2, Moves DEF Places, TypeInv
<1>9. /\ bound' \in [Leases -> SUBSET Tabs] /\ bound'[l] = {t}
      /\ \A m \in Leases : m # l => bound'[m] = bound[m]
      /\ leases'[KeyOf(l)] = l
      /\ \A k \in Keys : k # KeyOf(l) => leases'[k] = leases[k]
      /\ shown'[t] = newest /\ \A u \in Tabs : u # t => shown'[u] = shown[u]
    BY <1>1, <1>3, <1>6 DEF TypeInv, SessionTypeOK
<1>. QED  BY <1>1, <1>2, <1>3, <1>5, <1>6, <1>7, <1>8, <1>9 DEF o, l, t

LEMMA ResumeOpenedGeneral ==
    ASSUME TypeInv, GeneralInv, micro # <<>>, Head(micro)[1] = "job", ResumeOpened(Head(micro))
    PROVE  GeneralInv'
<1>. DEFINE o == Head(micro)
            t == o[2]
            l == <<newest, t>>
<1>1. /\ t \in Tabs /\ o = <<"job", t>> /\ o \in Ops /\ pc[o] = "opened"
      /\ l \in Leases /\ KeyOf(l) = buildSessionKey(t) /\ KeyOf(l) \in Keys /\ ~Used(l) /\ newest \in Sessions
      /\ bound' \in [Leases -> SUBSET Tabs] /\ bound'[l] = {t}
      /\ \A m \in Leases : m # l => bound'[m] = bound[m]
      /\ leases'[KeyOf(l)] = l
      /\ \A k \in Keys : k # KeyOf(l) => leases'[k] = leases[k]
      /\ shown'[t] = newest /\ \A u \in Tabs : u # t => shown'[u] = shown[u]
      /\ pc'[o] = "idle" /\ at'[o] = NoLease
      /\ \A q \in Ops : q # o => pc'[q] = pc[q] /\ at'[q] = at[q]
      /\ micro' = Tail(micro)
      /\ kind' = kind /\ tab' = tab /\ stray' = stray /\ timer' = timer /\ newest' = newest /\ todo' = todo
    BY OpenedGoesOn DEF serviceVars
<1>2. l[1] = newest /\ l[2] = t /\ \A m \in Leases : m # l => m[1] # newest \/ m[2] # t
    BY LeaseParts
<1>3. o \in Queued /\ ToSet(Tail(micro)) = Queued \ {o}
    BY HeadOfQueue
<1>4. \A u \in Tabs : /\ <<"job", u>> \in Ops /\ (u # t => <<"job", u>> # o)
                      /\ <<"close", u>> \in Ops /\ <<"close", u>> # o
    BY <1>1, OpsAre
<1>. HIDE DEF o, l, t
<1>5. policy' = policy /\ Keys' = Keys /\ (\A u : buildSessionKey(u)' = buildSessionKey(u)) /\ (\A m : KeyOf(m)' = KeyOf(m))
    BY <1>1, KindStays
<1>6. \A m \in Leases : Used(m)' => Used(m) \/ m = l
    <2>. SUFFICES ASSUME NEW m \in Leases, Used(m)', m # l
                  PROVE  Used(m)
        OBVIOUS
    <2>1. \/ m \in timer
          \/ bound'[m] # {}
          \/ leases'[KeyOf(m)] = m
          \/ \E q \in Ops : at'[q] = m
          \/ \E d \in Drops : m \in todo[d]
        BY <1>1, <1>5 DEF Used
    <2>2. m # NoLease /\ KeyOf(m) \in Keys
        BY LeaseParts, KeysOfTabs
    <2>3. leases'[KeyOf(m)] = m => leases[KeyOf(m)] = m
        BY <1>1, <2>2
    <2>. QED  BY <1>1, <2>1, <2>2, <2>3 DEF Used
<1>7. \A u \in Tabs : pc'[<<"job", u>>] = "opened" => pc[<<"job", u>>] = "opened" /\ u # t
    BY <1>1, <1>4
<1>8. FreshInv'
    <2>. SUFFICES ASSUME NEW m \in Leases, m[1] > newest \/ (m[1] = newest /\ pc'[<<"job", m[2]>>] = "opened")
                  PROVE  ~Used(m)'
        BY <1>1 DEF FreshInv
    <2>1. m # l /\ m[2] \in Tabs /\ newest \in Nat
        BY <1>1, <1>2, <1>7, LeaseParts, SessionAssumption DEF TypeInv, SessionTypeOK
    <2>2. ~Used(m)
        BY <1>7, <2>1 DEF GeneralInv, FreshInv
    <2>. QED  BY <1>6, <2>1, <2>2
<1>9. ClaimInv'
    <2>1. Claim(newest, buildSessionKey(t))
        BY <1>1 DEF Claim
    <2>2. ASSUME NEW s \in Sessions, NEW k \in Keys, Claim(s, k)'
          PROVE  Claim(s, k)
        <3>1. \/ \E m \in Leases : Used(m)' /\ m[1] = s /\ KeyOf(m) = k
              \/ \E u \in Tabs : shown'[u] = s /\ buildSessionKey(u) = k
              \/ \E u \in Tabs : pc'[<<"job", u>>] = "opened" /\ newest = s /\ buildSessionKey(u) = k
            BY <1>1, <1>5, <2>2 DEF Claim
        <3>2. CASE \E m \in Leases : Used(m)' /\ m[1] = s /\ KeyOf(m) = k
            BY <1>1, <1>2, <1>6, <2>1, <3>2 DEF Claim
        <3>3. CASE \E u \in Tabs : shown'[u] = s /\ buildSessionKey(u) = k
            BY <1>1, <2>1, <3>3 DEF Claim
        <3>4. CASE \E u \in Tabs : pc'[<<"job", u>>] = "opened" /\ newest = s /\ buildSessionKey(u) = k
            BY <1>7, <3>4 DEF Claim
        <3>. QED  BY <3>1, <3>2, <3>3, <3>4
    <2>. QED  BY <1>1, <1>5, <2>2 DEF GeneralInv, ClaimInv
<1>10. l \notin timer
    BY <1>1 DEF Used
<1>11. TimerInv'
    <2>. SUFFICES ASSUME NEW m \in timer
                  PROVE  bound'[m] = {}
        BY <1>1 DEF TimerInv
    <2>. QED  BY <1>1, <1>10, UsedHere DEF GeneralInv, TimerInv
<1>12. UnusedIffTimed'
    <2>. SUFFICES ASSUME NEW h \in Keys, leases'[h] # NoLease
                  PROVE  bound'[leases'[h]] = {} <=> leases'[h] \in timer
        BY <1>1, <1>5 DEF UnusedIffTimed
    <2>1. CASE h = KeyOf(l)
        BY <1>1, <1>10, <2>1
    <2>2. CASE h # KeyOf(l)
        <3>1. leases'[h] = leases[h] /\ leases[h] # l /\ leases[h] \in Leases
            BY <1>1, <2>2, OtherLeases DEF TypeInv, SessionTypeOK
        <3>2. bound[leases[h]] = {} <=> leases[h] \in timer
            BY <2>2, <3>1, LeaseParts DEF GeneralInv, UnusedIffTimed
        <3>. QED  BY <1>1, <3>1, <3>2
    <2>. QED  BY <2>1, <2>2
<1>13. TabInv'
    <2>. SUFFICES ASSUME NEW u \in Tabs
                  PROVE  /\ tab[u] = "closed" /\ pc'[<<"job", u>>] # "idle" => u \in stray
                         /\ tab[u] = "absent" => pc'[<<"job", u>>] = "idle" /\ pc'[<<"close", u>>] = "idle"
                                                 /\ \A m \in Leases : u \notin bound'[m]
                         /\ pc'[<<"close", u>>] # "idle" => tab[u] = "closed"
        BY <1>1 DEF TabInv
    <2>1. /\ tab[u] = "closed" /\ pc[<<"job", u>>] # "idle" => u \in stray
          /\ tab[u] = "absent" => pc[<<"job", u>>] = "idle" /\ pc[<<"close", u>>] = "idle"
                                  /\ \A m \in Leases : u \notin bound[m]
          /\ pc[<<"close", u>>] # "idle" => tab[u] = "closed"
        BY DEF GeneralInv, TabInv
    <2>2. pc'[<<"close", u>>] = pc[<<"close", u>>] /\ (u # t => pc'[<<"job", u>>] = pc[<<"job", u>>])
        BY <1>1, <1>4
    <2>3. u # t => \A m \in Leases : u \in bound'[m] => u \in bound[m]
        BY <1>1
    <2>4. u = t => tab[u] # "absent" /\ pc'[<<"job", u>>] = "idle"
        BY <1>1, <2>1
    <2>. QED  BY <2>1, <2>2, <2>3, <2>4
<1>14. OwnInv'
    <2>. SUFFICES ASSUME policy.sharing = "per_tab", NEW u \in Tabs, tab[u] # "closed",
                         leases'[buildSessionKey(u)] # NoLease
                  PROVE  u \in bound'[leases'[buildSessionKey(u)]]
        BY <1>1, <1>5 DEF OwnInv
    <2>1. CASE u = t
        BY <1>1, <2>1
    <2>2. CASE u # t
        <3>1. buildSessionKey(u) # KeyOf(l) /\ buildSessionKey(u) \in Keys
            BY <1>1, <2>2, OwnKeys, KeysOfTabs
        <3>2. /\ leases'[buildSessionKey(u)] = leases[buildSessionKey(u)] /\ leases[buildSessionKey(u)] # l
              /\ leases[buildSessionKey(u)] \in Leases
            BY <1>1, <3>1, OtherLeases DEF TypeInv, SessionTypeOK
        <3>. QED  BY <1>1, <3>2 DEF GeneralInv, OwnInv
    <2>. QED  BY <2>1, <2>2
<1>15. PhaseInv'
    BY <1>1, <1>3, PhaseGoesOn DEF GeneralInv
<1>. QED  BY <1>8, <1>9, <1>11, <1>12, <1>13, <1>14, <1>15 DEF GeneralInv

LEMMA ResumeDropGeneral ==
    ASSUME TypeInv, GeneralInv, micro # <<>>, Head(micro)[1] = "drop", ResumeDrop(Head(micro))
    PROVE  GeneralInv'
<1>. DEFINE o == Head(micro)
            l == at[o]
<1>1. /\ pc[o] = "cleanup" /\ l \in Leases
      /\ bound' \in [Leases -> SUBSET Tabs] /\ bound'[l] = {}
      /\ \A m \in Leases : m # l => bound'[m] = bound[m]
      /\ timer' = timer \ {l}
      /\ leases'[KeyOf(l)] = NoLease
      /\ \A k \in Keys : k # KeyOf(l) => leases'[k] = leases[k]
      /\ UNCHANGED <<kind, view, newest>>
      /\ \/ GoesTo(o, "closing", l) /\ micro' = Tail(micro) /\ UNCHANGED todo
         \/ NextLease(o[2], todo[o[2]], Tail(micro))
    BY DropGoesOn
<1>2. /\ o \in Ops /\ o \in Queued /\ Tail(micro) \in Seq(Ops) /\ NoRepeat(Tail(micro))
      /\ ToSet(Tail(micro)) = Queued \ {o} /\ o \notin ToSet(Tail(micro))
    BY HeadOfQueue
<1>3. o[2] \in Drops /\ o = <<"drop", o[2]>> /\ o[1] = "drop"
    BY HeadDrop
<1>. HIDE DEF o, l
<1>4. todo[o[2]] \in SUBSET Leases
    BY <1>3 DEF TypeInv, SessionTypeOK
<1>5. /\ \A q \in Ops : q # o => pc'[q] = pc[q] /\ at'[q] = at[q]
      /\ at'[o] = NoLease \/ at'[o] = l \/ at'[o] \in todo[o[2]]
      /\ \A d \in Drops : todo'[d] \subseteq todo[d]
      /\ ToSet(micro') \subseteq Queued
    <2>1. CASE NextLease(o[2], todo[o[2]], Tail(micro))
        <3>1. /\ \A q \in Ops : q # o => pc'[q] = pc[q] /\ at'[q] = at[q]
              /\ \A d \in Drops : d # o[2] => todo'[d] = todo[d]
              /\ Joined(Tail(micro), o)
              /\ \/ todo'[o[2]] = {} /\ at'[o] = NoLease
                 \/ at'[o] \in todo[o[2]] /\ todo'[o[2]] = todo[o[2]] \ {at'[o]}
            <4>1. /\ Tail(micro) \in Seq(Ops) /\ NoRepeat(Tail(micro)) /\ <<"drop", o[2]>> \notin ToSet(Tail(micro))
                  /\ SessionTypeOK
                BY <1>2, <1>3 DEF TypeInv
            <4>2. PICK d \in Drops : d = o[2]
                BY <1>3
            <4>3. o = <<"drop", d>> /\ todo[d] \in SUBSET Leases /\ NextLease(d, todo[d], Tail(micro))
                BY <1>3, <1>4, <2>1, <4>2
            <4>4. /\ \A q \in Ops : q # <<"drop", d>> => pc'[q] = pc[q] /\ at'[q] = at[q]
                  /\ \A e \in Drops : e # d => todo'[e] = todo[e]
                  /\ Joined(Tail(micro), <<"drop", d>>)
                  /\ \/ todo'[d] = {} /\ at'[<<"drop", d>>] = NoLease
                     \/ at'[<<"drop", d>>] \in todo[d] /\ todo'[d] = todo[d] \ {at'[<<"drop", d>>]}
                BY <4>1, <4>2, <4>3, NextLeaseStarts
            <4>. QED  BY <4>2, <4>3, <4>4
        <3>. QED  BY <1>2, <3>1 DEF Joined
    <2>2. CASE GoesTo(o, "closing", l) /\ micro' = Tail(micro) /\ UNCHANGED todo
        <3>1. /\ at'[o] = l
              /\ \A q \in Ops : q # o => pc'[q] = pc[q] /\ at'[q] = at[q]
            BY <1>1, <1>2, <2>2, Moves DEF Places, TypeInv
        <3>. QED  BY <1>2, <2>2, <3>1
    <2>. QED  BY <1>1, <2>1, <2>2
<1>6. FreshInv' /\ ClaimInv' /\ TimerInv' /\ UnusedIffTimed' /\ TabInv' /\ OwnInv'
    BY <1>1, <1>2, <1>3, <1>5, DropGeneral DEF l
<1>7. PhaseInv'
    BY <1>2, <1>3, <1>5, PhaseGoesOn DEF GeneralInv
<1>. QED  BY <1>6, <1>7 DEF GeneralInv

LEMMA ResumeDropClosedGeneral ==
    ASSUME TypeInv, GeneralInv, micro # <<>>, Head(micro)[1] = "drop", ResumeDropClosed(Head(micro))
    PROVE  GeneralInv'
<1>. DEFINE o == Head(micro)
<1>1. /\ NextLease(o[2], todo[o[2]], Tail(micro))
      /\ UNCHANGED <<kind, view, registry, newest>>
    BY DEF ResumeDropClosed, serviceVars
<1>2. /\ o \in Ops /\ o \in Queued /\ Tail(micro) \in Seq(Ops) /\ NoRepeat(Tail(micro))
      /\ ToSet(Tail(micro)) = Queued \ {o} /\ o \notin ToSet(Tail(micro))
    BY HeadOfQueue
<1>3. o[2] \in Drops /\ o = <<"drop", o[2]>> /\ o[1] = "drop"
    BY HeadDrop
<1>. HIDE DEF o
<1>4. /\ FreshInv' /\ ClaimInv' /\ TimerInv' /\ UnusedIffTimed' /\ OwnInv' /\ TabInv'
      /\ ToSet(micro') \subseteq ToSet(Tail(micro)) \cup {o}
      /\ \A q \in Ops : q # o => pc'[q] = pc[q]
    BY <1>1, <1>2, <1>3, LoopGeneral
<1>5. PhaseInv'
    <2>1. ToSet(micro') \subseteq Queued
        BY <1>2, <1>4
    <2>. QED  BY <1>2, <1>3, <1>4, <2>1, PhaseGoesOn DEF GeneralInv
<1>. QED  BY <1>4, <1>5 DEF GeneralInv

LEMMA GeneralStep ==
    ASSUME TypeInv, GeneralInv, SessionNext
    PROVE  GeneralInv'
<1>1. CASE Resume
    <2>1. /\ micro # <<>>
          /\ LET o == Head(micro)
             IN  \/ o[1] = "close" /\ ResumeClose(o)
                 \/ o[1] = "job" /\ (ResumeReconnect(o) \/ ResumeRelease(o) \/ ResumeAcquire(o) \/ ResumeOpened(o))
                 \/ o[1] = "drop" /\ (ResumeDrop(o) \/ ResumeDropClosed(o))
        BY <1>1 DEF Resume
    <2>. QED  BY <2>1, ResumeCloseGeneral, ResumeReconnectGeneral, ResumeReleaseGeneral, ResumeAcquireGeneral,
                 ResumeOpenedGeneral, ResumeDropGeneral, ResumeDropClosedGeneral
<1>2. ASSUME NEW t \in Tabs, OpenTab(t) \/ ProfileLoaded(t) \/ CloseTab(t) \/ Reconnect(t)
      PROVE  GeneralInv'
    BY <1>2, OpenTabGeneral, ProfileLoadedGeneral, CloseTabGeneral, ReconnectGeneral
<1>3. ASSUME NEW k \in Keys, OpenReturns(k) \/ OpenFails(k)
      PROVE  GeneralInv'
    BY <1>3, OpenReturnsGeneral, OpenFailsGeneral
<1>4. ASSUME NEW s \in Sessions, CloseReturns(s) \/ SessionDies(s)
      PROVE  GeneralInv'
    BY <1>4, CloseReturnsGeneral, TroublesGeneral
<1>. QED  BY <1>1, <1>2, <1>3, <1>4, RequestReconnectGeneral, HooksDoneGeneral, IdleTimerFiresGeneral,
             DisconnectGeneral, LostEventGeneral, TroublesGeneral DEF SessionNext

LEMMA GeneralStutters ==
    ASSUME TypeInv, GeneralInv, UNCHANGED sessionVars
    PROVE  GeneralInv'
<1>1. UNCHANGED <<kind, tab, shown, stray, leases, bound, timer, newest, pc, at, todo, micro>>
    BY DEF sessionVars, view, registry, serviceVars
<1>2. FreshInv' /\ ClaimInv' /\ TimerInv' /\ UnusedIffTimed' /\ OwnInv' /\ TabInv'
    BY <1>1, LessGeneral, SameTabs, UsedHere
<1>3. PhaseInv'
    BY <1>1 DEF GeneralInv, PhaseInv, Queued, Restarting, Opening, TabClosing, Disconnecting
<1>. QED  BY <1>2, <1>3 DEF GeneralInv

-----------------------------------------------------------------------------
(* EndedInv is kept.                                                       *)

\* Sessions of leases that are referred to were opened.
LEMMA UsedWasOpened ==
    ASSUME TypeInv, GeneralInv, NEW l \in Leases, Used(l)
    PROVE  l[1] \in Sessions /\ l[1] <= newest /\ Claim(l[1], KeyOf(l))
<1>1. l[1] \in Sessions /\ KeyOf(l) \in Keys
    BY LeaseParts, KeysOfTabs
<1>2. Claim(l[1], KeyOf(l))
    BY DEF Claim
<1>. QED  BY <1>1, <1>2 DEF GeneralInv, ClaimInv

LEMMA EndedSteps ==
    ASSUME TypeInv, EndedInv, newest' = newest, remote' \subseteq remote, overtaken' = overtaken,
           \A s \in lost' : s \in lost \/ (s \in remote /\ s \notin remote'),
           \A s \in closing' : s \in closing \/ s <= newest,
           exited' => exited \/ remote' = {}
    PROVE  EndedInv'
BY DEF EndedInv

LEMMA FinalizedEnded ==
    ASSUME TypeInv, GeneralInv, EndedInv, NEW l \in Leases, Used(l),
           closing' = closing \/ closing' = closing \cup {l[1]},
           UNCHANGED <<newest, remote, lost, exited, overtaken>>
    PROVE  EndedInv'
<1>1. l[1] <= newest
    BY UsedWasOpened
<1>. QED  BY <1>1, EndedSteps

LEMMA EndedStep ==
    ASSUME TypeInv, GeneralInv, EndedInv, SessionNext
    PROVE  EndedInv'
<1>1. CASE UNCHANGED serviceVars
    BY <1>1, EndedSteps DEF serviceVars
<1>2. CASE Resume
    <2>. DEFINE o == Head(micro)
    <2>1. micro # <<>>
        BY <1>2 DEF Resume
    <2>2. o \in Ops
        BY <2>1, HeadOfQueue
    <2>3. CASE (o[1] = "close" /\ ResumeClose(o)) \/ (o[1] = "job" /\ ResumeRelease(o))
        <3>1. PICK force \in BOOLEAN : AfterRelease(o, force)
            BY <2>3 DEF ResumeClose, ResumeRelease
        <3>2. pc[o] = "cleanup" /\ UNCHANGED <<newest, remote, lost, exited, overtaken>>
            BY <2>3 DEF ResumeClose, ResumeRelease
        <3>3. at[o] \in Leases /\ o[2] \in Tabs
            BY <2>2, <2>3, <3>2, OpsAre DEF TypeInv, PlaceInv
        <3>. HIDE DEF o
        <3>4. Used(at[o])
            BY <2>2, <3>3, UsedHere, LeaseParts
        <3>5. closing' = closing \/ closing' = closing \cup {at[o][1]}
            BY <2>2, <3>1, <3>3, Released DEF TypeInv
        <3>. QED  BY <3>2, <3>3, <3>4, <3>5, FinalizedEnded
    <2>4. CASE o[1] = "drop" /\ ResumeDrop(o)
        <3>1. /\ at[o] \in Leases
              /\ closing' = closing \/ closing' = closing \cup {at[o][1]}
              /\ UNCHANGED <<newest, remote, lost, exited, overtaken>>
            BY <2>1, <2>4, DropGoesOn
        <3>. HIDE DEF o
        <3>2. Used(at[o])
            BY <2>2, <3>1, UsedHere, LeaseParts
        <3>. QED  BY <3>1, <3>2, FinalizedEnded
    <2>5. CASE ResumeReconnect(o) \/ ResumeAcquire(o) \/ ResumeOpened(o) \/ ResumeDropClosed(o)
        BY <1>1, <2>5 DEF ResumeReconnect, ResumeAcquire, ResumeOpened, ResumeDropClosed
    <2>. QED  BY <1>2, <2>3, <2>4, <2>5 DEF Resume
<1>3. ASSUME NEW t \in Tabs, OpenTab(t) \/ ProfileLoaded(t) \/ CloseTab(t) \/ Reconnect(t)
      PROVE  EndedInv'
    BY <1>1, <1>3 DEF OpenTab, ProfileLoaded, CloseTab, Reconnect, Reconnecting
<1>4. CASE RequestReconnect
    BY <1>1, <1>4 DEF RequestReconnect, Reconnecting
<1>5. ASSUME NEW o \in Ops, HooksDone(o)
      PROVE  EndedInv'
    BY <1>1, <1>5 DEF HooksDone
<1>6. ASSUME NEW k \in Keys, OpenReturns(k)
      PROVE  EndedInv'
    <2>1. /\ newest' = newest + 1 /\ remote' = remote \cup {newest + 1}
          /\ overtaken' = IF exited THEN overtaken \cup {newest + 1} ELSE overtaken
          /\ closing' = closing /\ lost' = lost /\ exited' = exited
        BY <1>6 DEF OpenReturns
    <2>2. newest \in Nat /\ remote \cup lost \cup closing \cup overtaken \subseteq Nat
        BY SessionAssumption DEF TypeInv, SessionTypeOK, Sessions
    <2>3. newest + 1 \notin lost
        BY <2>2 DEF EndedInv
    <2>. QED  BY <2>1, <2>2, <2>3 DEF EndedInv
<1>7. ASSUME NEW k \in Keys, OpenFails(k)
      PROVE  EndedInv'
    BY <1>1, <1>7 DEF OpenFails
<1>8. ASSUME NEW s \in Sessions, CloseReturns(s) \/ SessionDies(s)
      PROVE  EndedInv'
    BY <1>8, EndedSteps DEF CloseReturns, SessionDies
<1>9. ASSUME NEW l \in Leases, IdleTimerFires(l)
      PROVE  EndedInv'
    <2>1. l \in timer /\ finalizeClose(l) /\ UNCHANGED <<newest, remote, lost, exited, overtaken>>
        BY <1>9 DEF IdleTimerFires
    <2>2. Used(l)
        BY <2>1 DEF Used
    <2>3. closing' = closing \/ closing' = closing \cup {l[1]}
        BY <2>1, Finalized DEF TypeInv
    <2>. QED  BY <2>1, <2>2, <2>3, FinalizedEnded
<1>10. CASE Disconnect
    BY <1>1, <1>10 DEF Disconnect
<1>11. CASE LostEvent
    <2>1. /\ UNCHANGED <<newest, remote, closing, overtaken>>
          /\ (\E s \in lost : lost' = lost \ {s} /\ exited' = exited) \/ (exited' = FALSE /\ lost' = lost)
        BY <1>11 DEF LostEvent
    <2>2. lost' \subseteq lost /\ (exited' => exited)
        BY <2>1
    <2>. QED  BY <2>1, <2>2, EndedSteps
<1>12. CASE ServiceExits
    <2>1. UNCHANGED <<newest, closing, lost, overtaken>> /\ remote' = {}
        BY <1>12 DEF ServiceExits
    <2>. QED  BY <2>1, EndedSteps
<1>. QED  BY <1>2, <1>3, <1>4, <1>5, <1>6, <1>7, <1>8, <1>9, <1>10, <1>11, <1>12 DEF SessionNext

-----------------------------------------------------------------------------
(* QuickInv is kept.                                                       *)

Settling == {"reconnect", "cleanup", "reacquire", "opened"}

\* Between two callbacks nothing has settled that waits for its turn.
LEMMA QuietPlaces ==
    ASSUME TypeInv, ~policy.slow, micro = <<>>
    PROVE  /\ \A q \in Ops : pc[q] \notin Settling
           /\ Opening = {}
BY QueueEmpty DEF TypeInv, QueuedInv, Queued, Settling, Opening

\* What else has settled together with the head of the queue.
LEMMA QuickPhase ==
    ASSUME TypeInv, PhaseInv, ~policy.slow, NEW o \in Ops, o \in Queued
    PROVE  /\ \A q \in Ops : pc[q] \in Settling => q \in Queued
           /\ o[1] = "close" => \A q \in Ops : pc[q] \in Settling => q[1] = "close"
           /\ o[1] = "job" /\ pc[o] \in {"reconnect", "cleanup", "reacquire"} =>
                \A q \in Ops : pc[q] \in Settling => q[1] = "job" /\ pc[q] # "opened"
           /\ o = <<"drop", "disconnect">> \/ (o[1] = "job" /\ pc[o] = "closing") =>
                \A q \in Ops : pc[q] \in Settling => q = <<"drop", "disconnect">>
           /\ o[1] = "job" /\ pc[o] = "opened" =>
                \A q \in Ops : pc[q] \in Settling => q[1] = "job" /\ pc[q] = "opened"
           /\ o = <<"drop", "lost">> => \A q \in Ops : pc[q] \in Settling => q = <<"drop", "lost">>
<1>1. \A q \in Ops : pc[q] \in Settling => q \in Queued
    BY DEF TypeInv, QueuedInv, Settling
<1>2. CASE Queued \subseteq Restarting
    BY <1>1, <1>2 DEF Restarting
<1>3. CASE Queued \subseteq Opening
    BY <1>1, <1>3 DEF Opening
<1>4. CASE Queued \subseteq TabClosing
    BY <1>1, <1>4 DEF TabClosing
<1>5. CASE Queued \subseteq {<<"drop", "lost">>}
    BY <1>1, <1>5
<1>6. CASE Queued \subseteq Disconnecting
    BY <1>1, <1>6 DEF Disconnecting, Settling
<1>. QED  BY <1>2, <1>3, <1>4, <1>5, <1>6 DEF PhaseInv

LEMMA NoDrops ==
    ASSUME LostInv, pc[<<"drop", "lost">>] # "cleanup",
           pc'[<<"drop", "lost">>] # "cleanup", todo'["lost"] = todo["lost"]
    PROVE  LostInv' /\ \A l : ~Dropping(l) /\ ~Dropping(l)'
BY DEF LostInv, Dropping

\* A step in which nothing is opened and markSessionLost is not under way.
LEMMA CalmQuick ==
    ASSUME TypeInv, EndedInv, QuickInv, kind' = kind,
           ~policy.slow =>
              /\ pc[<<"drop", "lost">>] # "cleanup" /\ pc'[<<"drop", "lost">>] # "cleanup"
              /\ todo'["lost"] = todo["lost"]
              /\ \A t \in Tabs : pc[<<"job", t>>] # "opened" /\ pc'[<<"job", t>>] # "opened"
              /\ HeldInv' /\ ReleasedInv'
              /\ UNCHANGED <<newest, overtaken, raced>>
              /\ \A k \in Keys : leases'[k] \in {leases[k], NoLease}
              /\ \A k \in Keys : inflight'[k] # <<>> => inflight[k] # <<>> \/ leases[k] = NoLease
              /\ \A k \in Keys : leases'[k] # NoLease => leases'[k][1] \notin closing'
              /\ remote' \subseteq remote /\ closing \cap remote' \subseteq closing'
              /\ \A s \in remote \cup lost : s \in remote' \cup lost' \cup closing \/ exited'
              /\ exited => exited'
              /\ ~raced => /\ \A l \in todo'["disconnect"] : l \in todo["disconnect"] \/ leases'[KeyOf(l)] = l
                           /\ LET o == <<"drop", "disconnect">>
                              IN  pc'[o] = "cleanup" => \/ pc[o] = "cleanup" /\ at'[o] = at[o]
                                                        \/ at'[o] \in todo["disconnect"]
                                                        \/ leases'[KeyOf(at'[o])] = at'[o]
                           /\ \A l \in timer' : leases'[KeyOf(l)] = l
                           /\ \A k \in Keys : leases[k] # NoLease /\ leases'[k] = NoLease
                                                => leases[k][1] \in closing'
    PROVE  QuickInv'
<1>1. policy' = policy /\ Keys' = Keys /\ (\A u : buildSessionKey(u)' = buildSessionKey(u)) /\ (\A m : KeyOf(m)' = KeyOf(m))
    BY KindStays
<1>. SUFFICES ASSUME ~policy.slow
              PROVE  /\ HeldInv' /\ OpenInv' /\ LostInv' /\ AliveInv' /\ ReleasedInv'
                     /\ ~raced => DisconnectInv' /\ TimedInv' /\ FoundInv'
    BY <1>1 DEF QuickInv
<1>2. HeldInv /\ OpenInv /\ LostInv /\ AliveInv /\ ReleasedInv /\ (~raced => DisconnectInv /\ TimedInv /\ FoundInv)
    BY DEF QuickInv
<1>3. LostInv' /\ \A l : ~Dropping(l) /\ ~Dropping(l)'
    BY <1>2, NoDrops
<1>4. Opening = {} /\ Opening' = {}
    BY OpsAre DEF Opening
<1>5. OpenInv'
    BY <1>1, <1>2 DEF OpenInv
<1>6. AliveInv'
    <2>. SUFFICES ASSUME NEW k \in Keys, leases'[k] # NoLease
                  PROVE  /\ leases'[k][1] \notin closing'
                         /\ leases'[k][1] \in remote' \cup lost' \cup overtaken' \/ exited'
        BY <1>1 DEF AliveInv
    <2>1. leases'[k] = leases[k] /\ leases[k] # NoLease
        OBVIOUS
    <2>2. leases[k][1] \notin closing /\ (leases[k][1] \in remote \cup lost \cup overtaken \/ exited)
        BY <1>2, <1>3, <2>1 DEF AliveInv
    <2>. QED  BY <2>1, <2>2
<1>7. ASSUME ~raced
      PROVE  DisconnectInv' /\ TimedInv' /\ FoundInv'
    <2>1. KeyOf(at[<<"drop", "disconnect">>]) \in Keys \/ pc[<<"drop", "disconnect">>] # "cleanup"
        BY KeysOfTabs, OpsAre DEF Drops, TypeInv, PlaceInv
    <2>2. \A l \in todo["disconnect"] : l \in Leases /\ KeyOf(l) \in Keys
        BY KeysOfTabs DEF Drops, TypeInv, SessionTypeOK
    <2>3. DisconnectInv'
        <3>1. ASSUME NEW l \in todo'["disconnect"]
              PROVE  leases'[KeyOf(l)] \in {l, NoLease}
            BY <1>2, <1>7, <2>2 DEF DisconnectInv
        <3>2. ASSUME pc'[<<"drop", "disconnect">>] = "cleanup"
              PROVE  leases'[KeyOf(at'[<<"drop", "disconnect">>])] \in {at'[<<"drop", "disconnect">>], NoLease}
            BY <1>2, <1>7, <2>1, <2>2, <3>2 DEF DisconnectInv
        <3>. QED  BY <1>1, <3>1, <3>2 DEF DisconnectInv
    <2>4. TimedInv'
        BY <1>1, <1>7 DEF TimedInv
    <2>5. FoundInv'
        <3>. SUFFICES ASSUME NEW s \in remote' \ overtaken'
                      PROVE  (\E k \in Keys : leases'[k] # NoLease /\ leases'[k][1] = s) \/ s \in closing'
            BY <1>1 DEF FoundInv
        <3>1. (\E k \in Keys : leases[k] # NoLease /\ leases[k][1] = s) \/ s \in closing
            BY <1>2, <1>4, <1>7 DEF FoundInv
        <3>. QED  BY <1>7, <3>1
    <2>. QED  BY <2>3, <2>4, <2>5
<1>. QED  BY <1>2, <1>3, <1>5, <1>6, <1>7

\* A step that leaves the table and what is known of sessions alone.
LEMMA TableStays ==
    ASSUME TypeInv, EndedInv, QuickInv, UNCHANGED <<kind, leases, serviceVars>>,
           timer' \subseteq timer,
           ~policy.slow =>
              /\ pc[<<"drop", "lost">>] # "cleanup" /\ pc'[<<"drop", "lost">>] # "cleanup"
              /\ todo'["lost"] = todo["lost"]
              /\ \A t \in Tabs : pc[<<"job", t>>] # "opened" /\ pc'[<<"job", t>>] # "opened"
              /\ HeldInv' /\ ReleasedInv'
              /\ \A k \in Keys : inflight'[k] # <<>> => inflight[k] # <<>> \/ leases[k] = NoLease
              /\ \A l \in todo'["disconnect"] : l \in todo["disconnect"] \/ leases[KeyOf(l)] = l
              /\ LET o == <<"drop", "disconnect">>
                 IN  pc'[o] = "cleanup" => \/ pc[o] = "cleanup" /\ at'[o] = at[o]
                                           \/ at'[o] \in todo["disconnect"]
                                           \/ leases[KeyOf(at'[o])] = at'[o]
    PROVE  QuickInv'
<1>1. UNCHANGED <<newest, remote, closing, lost, exited, overtaken, raced>>
    BY DEF serviceVars
<1>2. ~policy.slow => AliveInv /\ (~raced => TimedInv)
    BY DEF QuickInv
<1>3. ~policy.slow => \A k \in Keys : leases[k] # NoLease => leases[k][1] \notin closing
    BY <1>2 DEF AliveInv
<1>4. ~policy.slow /\ ~raced => \A l \in timer' : leases[KeyOf(l)] = l
    BY <1>2 DEF TimedInv
<1>. QED  BY <1>1, <1>3, <1>4, CalmQuick

\* What holds of the releases under way between two callbacks.
LEMMA HeldNone ==
    ASSUME kind' = kind, \A q \in Ops : q[1] # "drop" => pc'[q] # "cleanup"
    PROVE  HeldInv'
BY KindStays DEF HeldInv

LEMMA ReleasedStays ==
    ASSUME TypeInv, ReleasedInv, UNCHANGED <<kind, tab>>, stray \subseteq stray',
           \A k \in Keys : leases'[k] \in {leases[k], NoLease},
           \A l \in Leases : \A u \in bound'[l] \ stray' : u \in bound[l] \/ tab[u] # "closed",
           \A u \in Tabs : pc[<<"close", u>>] = "cleanup" =>
               \/ pc'[<<"close", u>>] = "cleanup" /\ at'[<<"close", u>>] = at[<<"close", u>>]
               \/ \A l \in Leases : at[<<"close", u>>] = l => u \notin bound'[l]
    PROVE  ReleasedInv'
<1>1. Keys' = Keys
    BY KindStays
<1>. SUFFICES ASSUME NEW k \in Keys, leases'[k] # NoLease, NEW u \in bound'[leases'[k]] \ stray', tab[u] = "closed"
              PROVE  pc'[<<"close", u>>] = "cleanup" /\ at'[<<"close", u>>] = leases'[k]
    BY <1>1 DEF ReleasedInv
<1>2. leases'[k] = leases[k] /\ leases[k] \in Leases
    BY DEF TypeInv, SessionTypeOK
<1>3. u \in bound[leases[k]] \ stray
    BY <1>2
<1>4. u \in Tabs /\ pc[<<"close", u>>] = "cleanup" /\ at[<<"close", u>>] = leases[k]
    BY <1>2, <1>3 DEF ReleasedInv, TypeInv, SessionTypeOK
<1>. QED  BY <1>2, <1>4

LEMMA QuietFacts ==
    ASSUME TypeInv, ~policy.slow, micro = <<>>
    PROVE  /\ pc[<<"drop", "lost">>] # "cleanup" /\ pc[<<"drop", "disconnect">>] # "cleanup"
           /\ \A t \in Tabs : pc[<<"job", t>>] \notin Settling /\ pc[<<"close", t>>] # "cleanup"
           /\ \A q \in Ops : pc[q] # "cleanup"
BY QuietPlaces, OpsAre DEF Drops, Settling

LEMMA QuickHas ==
    ASSUME QuickInv, ~policy.slow
    PROVE  /\ HeldInv /\ OpenInv /\ LostInv /\ AliveInv /\ ReleasedInv
           /\ ~raced => DisconnectInv /\ TimedInv /\ FoundInv
BY DEF QuickInv

LEMMA OpenTabQuick ==
    ASSUME TypeInv, GeneralInv, EndedInv, QuickInv, NEW t \in Tabs, OpenTab(t)
    PROVE  QuickInv'
<1>1. /\ micro = <<>> /\ tab[t] = "absent"
      /\ tab' = [tab EXCEPT ![t] = "open"]
      /\ pc' = [pc EXCEPT ![<<"job", t>>] = "loading"]
      /\ UNCHANGED <<kind, leases, serviceVars, timer, stray, bound, inflight, at, todo>>
    BY DEF OpenTab, Quiet, registry
<1>. SUFFICES ASSUME ~policy.slow
              PROVE  QuickInv'
    BY <1>1, KindStays DEF QuickInv
<1>2. \A q \in Ops : pc'[q] # "cleanup" /\ (q[1] # "job" => pc'[q] = pc[q])
    BY <1>1, QuietFacts, OpsAre DEF TypeInv, SessionTypeOK
<1>3. \A u \in Tabs : pc'[<<"job", u>>] # "opened"
    BY <1>1, QuietFacts, OpsAre DEF TypeInv, SessionTypeOK, Settling
<1>4. HeldInv'
    BY <1>1, <1>2, HeldNone
<1>5. ReleasedInv'
    <2>1. \A u \in Tabs : tab'[u] = "closed" => tab[u] = "closed"
        BY <1>1 DEF TypeInv, SessionTypeOK
    <2>2. \A u \in Tabs : pc'[<<"close", u>>] = pc[<<"close", u>>]
        BY <1>1, <1>2, OpsAre
    <2>3. \A k \in Keys : leases[k] # NoLease => bound[leases[k]] \subseteq Tabs
        BY DEF TypeInv, SessionTypeOK
    <2>. QED  BY <1>1, <2>1, <2>2, <2>3, KindStays, QuickHas DEF ReleasedInv
<1>6. pc'[<<"drop", "lost">>] # "cleanup" /\ pc'[<<"drop", "disconnect">>] # "cleanup"
    BY <1>2, OpsAre DEF Drops
<1>7. \A u \in Tabs : pc[<<"job", u>>] # "opened"
    BY <1>1, QuietFacts DEF Settling
<1>. QED  BY <1>1, <1>3, <1>4, <1>5, <1>6, <1>7, QuietFacts, TableStays

\* An acquire, where nothing else has settled that is not a job.
LEMMA AcquireQuick ==
    ASSUME TypeInv, GeneralInv, EndedInv, QuickInv, NEW t \in Tabs, pc[<<"job", t>>] \in {"loading", "closing", "reacquire"},
           NEW queue, acquire(<<"job", t>>, t, queue),
           UNCHANGED <<kind, tab, stray, leases, serviceVars, todo>>,
           ~policy.slow => /\ pc[<<"drop", "lost">>] # "cleanup"
                           /\ \A u \in Tabs : pc[<<"job", u>>] # "opened"
    PROVE  QuickInv'
<1>. SUFFICES ASSUME ~policy.slow
              PROVE  QuickInv'
    BY KindStays DEF QuickInv
<1>. DEFINE o == <<"job", t>>
            k == buildSessionKey(t)
            l == leases[k]
<1>1. /\ o \in Ops /\ o[1] = "job" /\ k \in Keys
      /\ \A u \in Tabs : <<"job", u>> \in Ops /\ <<"close", u>> \in Ops /\ <<"close", u>> # o
      /\ \A d \in Drops : <<"drop", d>> \in Ops /\ <<"drop", d>> # o
    BY OpsAre, KeysOfTabs
<1>2. /\ pc'[o] \in {"idle", "opening"}
      /\ \A q \in Ops : q # o => pc'[q] = pc[q] /\ at'[q] = at[q]
      /\ timer' \subseteq timer
      /\ \A h \in Keys : h # k => inflight'[h] = inflight[h]
      /\ l = NoLease \/ inflight' = inflight
      /\ \A m \in Leases : bound[m] \subseteq bound'[m] /\ bound'[m] \subseteq bound[m] \cup {t}
    BY Acquired DEF TypeInv
<1>. HIDE DEF o, k, l
<1>3. HeldInv'
    <2>1. \A q \in Ops : q[1] # "drop" /\ pc'[q] = "cleanup" =>
              /\ pc[q] = "cleanup" /\ at'[q] = at[q] /\ at[q] \in Leases
              /\ leases[KeyOf(at[q])] = at[q] /\ q[2] \in bound[at[q]]
        BY <1>2, QuickHas DEF HeldInv, TypeInv, PlaceInv
    <2>. QED  BY <1>2, <2>1, KindStays DEF HeldInv
<1>4. ReleasedInv'
    <2>1. \A m \in Leases : \A u \in bound'[m] \ stray : u \in bound[m] \/ tab[u] # "closed"
        <3>1. tab[t] = "closed" => t \in stray
            BY DEF GeneralInv, TabInv
        <3>. QED  BY <1>2, <3>1
    <2>2. \A u \in Tabs : pc'[<<"close", u>>] = pc[<<"close", u>>] /\ at'[<<"close", u>>] = at[<<"close", u>>]
        BY <1>1, <1>2
    <2>. QED  BY <2>1, <2>2, QuickHas, ReleasedStays
<1>5. \A u \in Tabs : pc'[<<"job", u>>] # "opened"
    BY <1>1, <1>2
<1>6. \A d \in Drops : pc'[<<"drop", d>>] = pc[<<"drop", d>>] /\ at'[<<"drop", d>>] = at[<<"drop", d>>]
    BY <1>1, <1>2
<1>7. \A h \in Keys : inflight'[h] # <<>> => inflight[h] # <<>> \/ leases[h] = NoLease
    BY <1>2 DEF l
<1>8. "lost" \in Drops /\ "disconnect" \in Drops
    BY DEF Drops
<1>. QED  BY <1>2, <1>3, <1>4, <1>5, <1>6, <1>7, <1>8, TableStays

LEMMA ProfileLoadedQuick ==
    ASSUME TypeInv, GeneralInv, EndedInv, QuickInv, NEW t \in Tabs, ProfileLoaded(t)
    PROVE  QuickInv'
<1>1. /\ micro = <<>>
      /\ pc[<<"job", t>>] = "loading"
      /\ acquire(<<"job", t>>, t, micro)
      /\ UNCHANGED <<kind, tab, stray, leases, serviceVars, todo>>
    BY DEF ProfileLoaded, Quiet
<1>. QED  BY <1>1, QuietFacts, AcquireQuick DEF Settling

LEMMA ResumeAcquireQuick ==
    ASSUME TypeInv, GeneralInv, EndedInv, QuickInv, micro # <<>>, Head(micro)[1] = "job", ResumeAcquire(Head(micro))
    PROVE  QuickInv'
<1>. DEFINE t == Head(micro)[2]
<1>1. t \in Tabs /\ Head(micro) = <<"job", t>> /\ <<"job", t>> \in Ops /\ <<"job", t>> \in Queued
    BY HeadJob, HeadOfQueue
<1>2. /\ pc[<<"job", t>>] \in {"closing", "reacquire"}
      /\ acquire(<<"job", t>>, t, Tail(micro))
      /\ UNCHANGED <<kind, tab, stray, leases, serviceVars, todo>>
    BY <1>1 DEF ResumeAcquire
<1>. HIDE DEF t
<1>3. ~policy.slow => \A q \in Ops : pc[q] \in Settling => (q[1] = "job" /\ pc[q] # "opened") \/ q = <<"drop", "disconnect">>
    BY <1>1, <1>2, QuickPhase DEF GeneralInv
<1>4. ~policy.slow => /\ pc[<<"drop", "lost">>] # "cleanup"
                      /\ \A u \in Tabs : pc[<<"job", u>>] # "opened"
    BY <1>3, OpsAre DEF Settling, Drops
<1>. QED  BY <1>1, <1>2, <1>4, AcquireQuick

LEMMA CloseTabQuick ==
    ASSUME TypeInv, GeneralInv, EndedInv, QuickInv, NEW t \in Tabs, CloseTab(t)
    PROVE  QuickInv'
<1>. DEFINE o == <<"close", t>>
            l == getLeaseByTabId(t)
<1>0. /\ o \in Ops /\ o[1] = "close" /\ o[2] = t
      /\ \A u \in Tabs : <<"job", u>> \in Ops /\ <<"job", u>> # o /\ (u # t => <<"close", u>> # o) /\ <<"close", u>> \in Ops
      /\ \A d \in Drops : <<"drop", d>> \in Ops /\ <<"drop", d>> # o
    BY OpsAre
<1>1. /\ micro = <<>> /\ tab[t] = "open"
      /\ tab' = [tab EXCEPT ![t] = "closed"]
      /\ stray' \in {stray, stray \cup {t}}
      /\ IF l = NoLease THEN UNCHANGED <<pc, at, micro>> ELSE AwaitHooks(o, l, micro)
      /\ UNCHANGED <<kind, leases, serviceVars, timer, bound, inflight, todo>>
    BY DEF CloseTab, Quiet, registry
<1>. SUFFICES ASSUME ~policy.slow
              PROVE  QuickInv'
    BY <1>1, KindStays DEF QuickInv
<1>2. /\ \A q \in Ops : q # o => pc'[q] = pc[q] /\ at'[q] = at[q]
      /\ l # NoLease => /\ l \in Leases /\ t \in bound[l] /\ pc'[o] = "cleanup" /\ at'[o] = l
                        /\ \E k \in Keys : leases[k] = l
      /\ l = NoLease => pc'[o] = pc[o]
    <2>1. CASE l = NoLease
        BY <1>1, <2>1
    <2>2. CASE l # NoLease
        <3>1. l \in Leases /\ t \in bound[l] /\ \E k \in Keys : leases[k] = l
            BY <2>2, Found DEF TypeInv
        <3>2. AwaitHooks(o, l, micro)
            BY <1>1, <2>2
        <3>3. micro \in Seq(Ops) /\ NoRepeat(micro) /\ o \notin ToSet(micro)
            BY <1>1, QueueEmpty
        <3>. HIDE DEF l, o
        <3>4. /\ pc'[o] = "cleanup" /\ at'[o] = l
              /\ \A q \in Ops : q # o => pc'[q] = pc[q] /\ at'[q] = at[q]
            BY <1>0, <3>1, <3>2, <3>3, Awaits DEF TypeInv
        <3>. QED  BY <2>2, <3>1, <3>4
    <2>. QED  BY <2>1, <2>2
<1>3. l # NoLease => leases[KeyOf(l)] = l /\ KeyOf(l) = buildSessionKey(t)
    BY <1>2 DEF TypeInv, KeyedInv
<1>4. \A k \in Keys : leases[k] # NoLease /\ t \in bound[leases[k]] => l # NoLease /\ leases[k] = l
    <2>. SUFFICES ASSUME NEW k \in Keys, leases[k] # NoLease, t \in bound[leases[k]]
                  PROVE  l # NoLease /\ leases[k] = l
        OBVIOUS
    <2>1. l # NoLease
        BY NotFound DEF TypeInv
    <2>2. KeyOf(leases[k]) = k /\ buildSessionKey(t) = k
        BY DEF TypeInv, KeyedInv, SessionTypeOK
    <2>. QED  BY <1>3, <2>1, <2>2
<1>. HIDE DEF o, l
<1>5. HeldInv'
    <2>1. \A q \in Ops : q # o => pc'[q] # "cleanup"
        BY <1>1, <1>2, QuietFacts
    <2>2. pc[o] # "cleanup"
        BY <1>0, <1>1, QuietFacts
    <2>3. pc'[o] = "cleanup" => leases[KeyOf(at'[o])] = at'[o] /\ t \in bound[at'[o]]
        BY <1>2, <1>3, <2>2
    <2>. QED  BY <1>0, <1>1, <2>1, <2>3, KindStays DEF HeldInv
<1>6. ReleasedInv'
    <2>. SUFFICES ASSUME NEW k \in Keys, leases[k] # NoLease, NEW u \in bound[leases[k]] \ stray', tab'[u] = "closed"
                  PROVE  pc'[<<"close", u>>] = "cleanup" /\ at'[<<"close", u>>] = leases[k]
        BY <1>1, KindStays DEF ReleasedInv
    <2>1. u \in Tabs /\ u \notin stray
        BY <1>1 DEF TypeInv, SessionTypeOK
    <2>2. CASE u = t
        BY <1>2, <1>4, <2>2 DEF o
    <2>3. CASE u # t
        <3>1. tab[u] = "closed" /\ <<"close", u>> \in Ops /\ <<"close", u>> # o
            BY <1>0, <1>1, <2>1, <2>3 DEF TypeInv, SessionTypeOK
        <3>2. pc[<<"close", u>>] = "cleanup" /\ at[<<"close", u>>] = leases[k]
            BY <2>1, <3>1, QuickHas DEF ReleasedInv
        <3>. QED  BY <1>2, <3>1, <3>2
    <2>. QED  BY <2>2, <2>3
<1>7. \A u \in Tabs : pc'[<<"job", u>>] # "opened" /\ pc[<<"job", u>>] # "opened"
    BY <1>0, <1>1, <1>2, QuietFacts DEF Settling
<1>8. \A d \in Drops : pc'[<<"drop", d>>] = pc[<<"drop", d>>]
    BY <1>0, <1>2
<1>9. "lost" \in Drops /\ "disconnect" \in Drops
    BY DEF Drops
<1>. QED  BY <1>1, <1>5, <1>6, <1>7, <1>8, <1>9, QuietFacts, TableStays

\* Operations that settled with one that neither opens nor tells of lost sessions.
LEMMA Calm ==
    ASSUME TypeInv, GeneralInv, ~policy.slow, NEW o \in Ops, o \in Queued,
           \/ o[1] = "close"
           \/ o[1] = "job" /\ pc[o] \in {"reconnect", "cleanup", "reacquire", "closing"}
           \/ o = <<"drop", "disconnect">>
    PROVE  /\ pc[<<"drop", "lost">>] # "cleanup"
           /\ \A t \in Tabs : pc[<<"job", t>>] # "opened"
<1>1. \A q \in Ops : pc[q] \in Settling => \/ q[1] = "close"
                                           \/ q[1] = "job" /\ pc[q] # "opened"
                                           \/ q = <<"drop", "disconnect">>
    BY QuickPhase DEF GeneralInv
<1>. QED  BY <1>1, OpsAre DEF Settling, Drops

LEMMA InTableHere ==
    ASSUME TypeInv, NEW S
    PROVE  \A l \in LeasesIn(S) : l \in Leases /\ l[1] \in S /\ leases[KeyOf(l)] = l
<1>. SUFFICES ASSUME NEW l \in LeasesIn(S)
              PROVE  l \in Leases /\ l[1] \in S /\ leases[KeyOf(l)] = l
    OBVIOUS
<1>1. l \in Leases /\ l[1] \in S
    BY InTable DEF TypeInv
<1>2. PICK k \in Keys : leases[k] = l
    BY InTable DEF TypeInv
<1>3. KeyOf(l) = k
    BY <1>1, <1>2, LeaseParts DEF TypeInv, KeyedInv
<1>. QED  BY <1>1, <1>2, <1>3

\* The leases of other keys have other sessions.
LEMMA OtherSessions ==
    ASSUME TypeInv, GeneralInv, NEW l \in Leases, Used(l), NEW k \in Keys, k # KeyOf(l), leases[k] # NoLease
    PROVE  leases[k][1] # l[1]
<1>1. l[1] \in Sessions /\ Claim(l[1], KeyOf(l)) /\ KeyOf(l) \in Keys
    BY UsedWasOpened, KeysOfTabs
<1>2. leases[k] \in Leases /\ Used(leases[k]) /\ KeyOf(leases[k]) = k
    BY UsedHere DEF TypeInv, KeyedInv
<1>3. Claim(leases[k][1], k)
    BY <1>2, UsedWasOpened
<1>. QED  BY <1>1, <1>3 DEF GeneralInv, ClaimInv

\* finalizeClose where the lease is that of the table, or there is none.
LEMMA FinalizedQuick ==
    ASSUME TypeInv, GeneralInv, QuickInv, ~policy.slow, NEW l \in Leases, Used(l),
           leases[KeyOf(l)] \in {l, NoLease} \/ raced,
           timer' = timer \ {l}, leases'[KeyOf(l)] = NoLease,
           \A k \in Keys : k # KeyOf(l) => leases'[k] = leases[k],
           closing' = IF leases[KeyOf(l)] = NoLease THEN closing ELSE closing \cup {l[1]}
    PROVE  /\ closing \subseteq closing'
           /\ \A k \in Keys : leases'[k] \in {leases[k], NoLease}
           /\ \A k \in Keys : leases'[k] # NoLease => leases'[k][1] \notin closing'
           /\ ~raced => /\ \A m \in timer' : leases'[KeyOf(m)] = m
                        /\ \A k \in Keys : leases[k] # NoLease /\ leases'[k] = NoLease
                                             => leases[k][1] \in closing'
<1>1. AliveInv /\ (~raced => TimedInv)
    BY QuickHas
<1>2. ASSUME NEW k \in Keys, leases'[k] # NoLease
      PROVE  leases'[k][1] \notin closing'
    <2>1. k # KeyOf(l) /\ leases'[k] = leases[k] /\ leases[k] # NoLease
        BY <1>2
    <2>2. leases[k][1] # l[1]
        BY <2>1, OtherSessions
    <2>. QED  BY <1>1, <2>1, <2>2 DEF AliveInv
<1>3. ASSUME ~raced, NEW m \in timer'
      PROVE  leases'[KeyOf(m)] = m
    <2>1. m \in timer /\ m # l /\ leases[KeyOf(m)] = m /\ m \in Leases
        BY <1>1, <1>3 DEF TimedInv, TypeInv, SessionTypeOK
    <2>2. KeyOf(m) \in Keys /\ m # NoLease
        BY <2>1, KeysOfTabs, LeaseParts
    <2>. QED  BY <1>3, <2>1, <2>2
<1>4. ASSUME ~raced, NEW k \in Keys, leases[k] # NoLease, leases'[k] = NoLease
      PROVE  leases[k][1] \in closing'
    BY <1>4
<1>. QED  BY <1>2, <1>3, <1>4

LEMMA ReconnectingQuick ==
    ASSUME TypeInv, GeneralInv, EndedInv, QuickInv, NEW order, Reconnecting(order)
    PROVE  QuickInv'
<1>1. /\ micro = <<>>
      /\ pc' = [o \in Ops |-> IF \E t \in ToSet(order) : o = <<"job", t>> THEN "reconnect" ELSE pc[o]]
      /\ stray \subseteq stray'
      /\ UNCHANGED <<kind, tab, leases, bound, timer, inflight, serviceVars, at, todo>>
    BY DEF Reconnecting, Trouble, registry
<1>. SUFFICES ASSUME ~policy.slow
              PROVE  QuickInv'
    BY <1>1, KindStays DEF QuickInv
<1>2. \A q \in Ops : pc'[q] \in {pc[q], "reconnect"}
    BY <1>1
<1>3. HeldInv'
    BY <1>1, <1>2, QuietFacts, HeldNone
<1>4. ReleasedInv'
    BY <1>1, QuietFacts, QuickHas, ReleasedStays
<1>5. \A t \in Tabs : pc[<<"job", t>>] # "opened" /\ pc'[<<"job", t>>] # "opened"
    BY <1>1, <1>2, QuietFacts, OpsAre DEF Settling
<1>6. \A d \in Drops : pc[<<"drop", d>>] # "cleanup" /\ pc'[<<"drop", d>>] # "cleanup"
    BY <1>1, <1>2, QuietFacts, OpsAre
<1>7. "lost" \in Drops /\ "disconnect" \in Drops
    BY DEF Drops
<1>. QED  BY <1>1, <1>3, <1>4, <1>5, <1>6, <1>7, TableStays

LEMMA OpenFailsQuick ==
    ASSUME TypeInv, GeneralInv, EndedInv, QuickInv, NEW k \in Keys, OpenFails(k)
    PROVE  QuickInv'
<1>1. /\ micro = <<>>
      /\ pc' = [o \in Ops |-> IF \E t \in ToSet(inflight[k]) : o = <<"job", t>> THEN "idle" ELSE pc[o]]
      /\ inflight' = [inflight EXCEPT ![k] = <<>>]
      /\ UNCHANGED <<kind, tab, stray, leases, bound, timer, serviceVars, at, todo>>
    BY DEF OpenFails, Trouble, view
<1>. SUFFICES ASSUME ~policy.slow
              PROVE  QuickInv'
    BY <1>1, KindStays DEF QuickInv
<1>2. \A q \in Ops : pc'[q] \in {pc[q], "idle"}
    BY <1>1
<1>3. HeldInv'
    BY <1>1, <1>2, QuietFacts, HeldNone
<1>4. ReleasedInv'
    BY <1>1, QuietFacts, QuickHas, ReleasedStays
<1>5. \A t \in Tabs : pc[<<"job", t>>] # "opened" /\ pc'[<<"job", t>>] # "opened"
    BY <1>1, <1>2, QuietFacts, OpsAre DEF Settling
<1>6. \A d \in Drops : pc[<<"drop", d>>] # "cleanup" /\ pc'[<<"drop", d>>] # "cleanup"
    BY <1>1, <1>2, QuietFacts, OpsAre
<1>7. "lost" \in Drops /\ "disconnect" \in Drops
    BY DEF Drops
<1>8. \A h \in Keys : inflight'[h] # <<>> => inflight[h] # <<>>
    BY <1>1 DEF TypeInv, SessionTypeOK
<1>. QED  BY <1>1, <1>3, <1>4, <1>5, <1>6, <1>7, <1>8, TableStays

\* A callback that starts nothing, and leaves the table and the releases alone.
LEMMA QuietQuick ==
    ASSUME TypeInv, GeneralInv, EndedInv, QuickInv, micro = <<>>,
           UNCHANGED <<kind, tab, stray, bound, inflight, pc, at, todo, newest, overtaken, raced>>,
           ~policy.slow =>
              /\ \A k \in Keys : leases'[k] \in {leases[k], NoLease}
              /\ \A k \in Keys : leases'[k] # NoLease => leases'[k][1] \notin closing'
              /\ remote' \subseteq remote /\ closing \cap remote' \subseteq closing'
              /\ \A s \in remote \cup lost : s \in remote' \cup lost' \cup closing \/ exited'
              /\ exited => exited'
              /\ ~raced => /\ \A l \in timer' : leases'[KeyOf(l)] = l
                           /\ \A k \in Keys : leases[k] # NoLease /\ leases'[k] = NoLease
                                                => leases[k][1] \in closing'
    PROVE  QuickInv'
<1>. SUFFICES ASSUME ~policy.slow
              PROVE  QuickInv'
    BY KindStays DEF QuickInv
<1>1. HeldInv'
    BY QuietFacts, HeldNone
<1>2. ReleasedInv'
    BY QuietFacts, QuickHas, ReleasedStays
<1>3. \A t \in Tabs : pc[<<"job", t>>] # "opened"
    BY QuietFacts DEF Settling
<1>. QED  BY <1>1, <1>2, <1>3, QuietFacts, CalmQuick

LEMMA TableNow ==
    ASSUME QuickInv, ~policy.slow
    PROVE  /\ \A k \in Keys : leases[k] # NoLease => leases[k][1] \notin closing
           /\ ~raced => \A l \in timer : leases[KeyOf(l)] = l
BY QuickHas DEF AliveInv, TimedInv

LEMMA CloseReturnsQuick ==
    ASSUME TypeInv, GeneralInv, EndedInv, QuickInv, NEW s \in Sessions, CloseReturns(s)
    PROVE  QuickInv'
<1>1. /\ micro = <<>>
      /\ remote' = remote \ {s} /\ closing' = closing \ {s}
      /\ UNCHANGED <<kind, tab, stray, leases, bound, timer, inflight, newest, lost, exited, overtaken, raced, pc, at, todo>>
    BY DEF CloseReturns, Quiet, view, registry
<1>2. s \in closing
    BY DEF CloseReturns
<1>. QED  BY <1>1, <1>2, TableNow, QuietQuick

LEMMA SessionDiesQuick ==
    ASSUME TypeInv, GeneralInv, EndedInv, QuickInv, NEW s \in Sessions, SessionDies(s)
    PROVE  QuickInv'
<1>1. /\ micro = <<>>
      /\ remote' = remote \ {s} /\ lost' = lost \cup {s}
      /\ UNCHANGED <<kind, tab, stray, leases, bound, timer, inflight, newest, closing, exited, overtaken, raced, pc, at, todo>>
    BY DEF SessionDies, Trouble, view, registry
<1>. QED  BY <1>1, TableNow, QuietQuick

LEMMA ServiceExitsQuick ==
    ASSUME TypeInv, GeneralInv, EndedInv, QuickInv, ServiceExits
    PROVE  QuickInv'
<1>1. /\ micro = <<>>
      /\ remote' = {} /\ exited' = TRUE
      /\ UNCHANGED <<kind, tab, stray, leases, bound, timer, inflight, newest, closing, lost, overtaken, raced, pc, at, todo>>
    BY DEF ServiceExits, Trouble, view, registry
<1>. QED  BY <1>1, TableNow, QuietQuick

LEMMA IdleTimerFiresQuick ==
    ASSUME TypeInv, GeneralInv, EndedInv, QuickInv, NEW l \in Leases, IdleTimerFires(l)
    PROVE  QuickInv'
<1>1. /\ micro = <<>> /\ l \in timer /\ finalizeClose(l)
      /\ UNCHANGED <<kind, tab, stray, bound, inflight, newest, remote, lost, exited, overtaken, raced, pc, at, todo>>
    BY DEF IdleTimerFires, Quiet, view
<1>2. Used(l)
    BY <1>1 DEF Used
<1>3. /\ timer' = timer \ {l} /\ leases'[KeyOf(l)] = NoLease
      /\ \A k \in Keys : k # KeyOf(l) => leases'[k] = leases[k]
      /\ closing' = IF leases[KeyOf(l)] = NoLease THEN closing ELSE closing \cup {l[1]}
    BY <1>1, Finalized DEF TypeInv
<1>4. ~policy.slow /\ ~raced => leases[KeyOf(l)] = l
    BY <1>1, TableNow
<1>5. ~policy.slow =>
           /\ closing \subseteq closing'
           /\ \A k \in Keys : leases'[k] \in {leases[k], NoLease}
           /\ \A k \in Keys : leases'[k] # NoLease => leases'[k][1] \notin closing'
           /\ ~raced => /\ \A m \in timer' : leases'[KeyOf(m)] = m
                        /\ \A k \in Keys : leases[k] # NoLease /\ leases'[k] = NoLease
                                             => leases[k][1] \in closing'
    BY <1>2, <1>3, <1>4, FinalizedQuick
<1>. QED  BY <1>1, <1>5, QuietQuick

LEMMA DisconnectQuick ==
    ASSUME TypeInv, GeneralInv, EndedInv, QuickInv, Disconnect
    PROVE  QuickInv'
<1>. DEFINE o == <<"drop", "disconnect">>
            rest == LeasesIn(Sessions)
<1>1. /\ micro = <<>> /\ pc[o] = "idle"
      /\ NextLease("disconnect", rest, micro)
      /\ UNCHANGED <<kind, tab, stray, leases, bound, timer, inflight, serviceVars>>
    BY DEF Disconnect, Trouble, view, registry
<1>. SUFFICES ASSUME ~policy.slow
              PROVE  QuickInv'
    BY <1>1, KindStays DEF QuickInv
<1>2. \A l \in rest : l \in Leases /\ leases[KeyOf(l)] = l
    BY InTableHere
<1>3. "disconnect" \in Drops /\ "lost" \in Drops /\ rest \in SUBSET Leases /\ micro \in Seq(Ops) /\ o \notin ToSet(micro) /\ NoRepeat(micro)
    BY <1>1, <1>2, QueueEmpty DEF Drops
<1>. HIDE DEF rest
<1>4. /\ \A q \in Ops : q # o => pc'[q] = pc[q] /\ at'[q] = at[q]
      /\ \A e \in Drops : e # "disconnect" => todo'[e] = todo[e]
      /\ todo'["disconnect"] \subseteq rest
      /\ pc'[o] = "cleanup" => at'[o] \in rest
    <2>1. SessionTypeOK /\ NextLease("disconnect", rest, micro)
        BY <1>1 DEF TypeInv
    <2>. QED  BY ONLY <1>3, <2>1, NextLeaseStarts
<1>5. HeldInv'
    BY <1>1, <1>4, QuietFacts, HeldNone
<1>6. \A t \in Tabs : pc'[<<"job", t>>] = pc[<<"job", t>>] /\ pc[<<"job", t>>] # "opened"
    BY <1>1, <1>4, QuietFacts, OpsAre DEF Settling
<1>7. ReleasedInv'
    BY <1>1, QuietFacts, QuickHas, ReleasedStays
<1>8. pc'[<<"drop", "lost">>] = pc[<<"drop", "lost">>]
    BY <1>3, <1>4, OpsAre
<1>. QED  BY <1>1, <1>2, <1>3, <1>4, <1>5, <1>6, <1>7, <1>8, QuietFacts, TableStays

LEMMA ResumeReconnectQuick ==
    ASSUME TypeInv, GeneralInv, EndedInv, QuickInv, micro # <<>>, Head(micro)[1] = "job", ResumeReconnect(Head(micro))
    PROVE  QuickInv'
<1>. DEFINE o == Head(micro)
            l == getLeaseByTabId(o[2])
<1>1. /\ o \in Ops /\ o \in Queued /\ o[1] = "job" /\ o[2] \in Tabs
      /\ Tail(micro) \in Seq(Ops) /\ NoRepeat(Tail(micro)) /\ o \notin ToSet(Tail(micro))
      /\ \A u \in Tabs : <<"job", u>> \in Ops /\ <<"close", u>> \in Ops /\ <<"close", u>> # o
      /\ \A d \in Drops : <<"drop", d>> \in Ops /\ <<"drop", d>> # o
      /\ "lost" \in Drops /\ "disconnect" \in Drops
    BY HeadJob, HeadOfQueue, OpsAre DEF Drops
<1>2. /\ pc[o] = "reconnect"
      /\ IF l = NoLease
         THEN GoesTo(o, "reacquire", NoLease) /\ micro' = Append(Tail(micro), o)
         ELSE AwaitHooks(o, l, Tail(micro))
      /\ UNCHANGED <<kind, tab, stray, leases, bound, timer, inflight, serviceVars, todo>>
    BY DEF ResumeReconnect, view, registry
<1>. SUFFICES ASSUME ~policy.slow
              PROVE  QuickInv'
    BY <1>2, KindStays DEF QuickInv
<1>3. l # NoLease => l \in Leases /\ o[2] \in bound[l] /\ leases[KeyOf(l)] = l
    <2>. SUFFICES ASSUME l # NoLease
                  PROVE  l \in Leases /\ o[2] \in bound[l] /\ leases[KeyOf(l)] = l
        OBVIOUS
    <2>1. l \in Leases /\ o[2] \in bound[l]
        BY <1>1, Found DEF TypeInv
    <2>2. PICK k \in Keys : leases[k] = l
        BY <1>1, Found DEF TypeInv
    <2>3. KeyOf(l) = k
        BY <2>2 DEF TypeInv, KeyedInv
    <2>. QED  BY <2>1, <2>2, <2>3
<1>4. SessionTypeOK
    BY DEF TypeInv
<1>. HIDE DEF o, l
<1>5. /\ \A q \in Ops : q # o => pc'[q] = pc[q] /\ at'[q] = at[q]
      /\ pc'[o] \in {"cleanup", "reacquire"}
      /\ pc'[o] = "cleanup" => l # NoLease /\ at'[o] = l
    <2>1. CASE l = NoLease
        <3>1. GoesTo(o, "reacquire", NoLease) /\ "reacquire" \in Places
            BY <1>2, <2>1 DEF Places
        <3>. QED  BY <1>1, <1>4, <3>1, Moves
    <2>2. CASE l # NoLease
        <3>1. AwaitHooks(o, l, Tail(micro))
            BY <1>2, <2>2
        <3>. QED  BY ONLY <1>1, <1>3, <1>4, <2>2, <3>1, Awaits
    <2>. QED  BY <2>1, <2>2
<1>6. HeldInv'
    <2>1. \A q \in Ops : q[1] # "drop" /\ pc'[q] = "cleanup" =>
              leases[KeyOf(at'[q])] = at'[q] /\ q[2] \in bound[at'[q]]
        BY <1>3, <1>5, QuickHas DEF HeldInv
    <2>. QED  BY <1>2, <2>1, KindStays DEF HeldInv
<1>7. \A u \in Tabs : pc'[<<"close", u>>] = pc[<<"close", u>>] /\ at'[<<"close", u>>] = at[<<"close", u>>]
    BY <1>1, <1>5
<1>8. ReleasedInv'
    BY <1>2, <1>7, QuickHas, ReleasedStays
<1>9. /\ pc[<<"drop", "lost">>] # "cleanup"
      /\ \A t \in Tabs : pc[<<"job", t>>] # "opened"
    BY <1>1, <1>2, Calm
<1>10. \A t \in Tabs : pc'[<<"job", t>>] # "opened"
    BY <1>1, <1>5, <1>9
<1>11. \A d \in Drops : pc'[<<"drop", d>>] = pc[<<"drop", d>>] /\ at'[<<"drop", d>>] = at[<<"drop", d>>]
    BY <1>1, <1>5
<1>. QED  BY <1>1, <1>2, <1>6, <1>8, <1>9, <1>10, <1>11, TableStays

\* A release that goes on after its hooks.
LEMMA ReleaseQuick ==
    ASSUME TypeInv, GeneralInv, EndedInv, QuickInv, NEW o \in Ops, o \in Queued,
           o[1] \in {"close", "job"}, pc[o] = "cleanup", AfterRelease(o, o[1] = "job"),
           \A q \in Ops : q # o => pc'[q] = pc[q] /\ at'[q] = at[q],
           pc'[o] \in {"idle", "closing", "reacquire"},
           UNCHANGED <<kind, tab, stray, inflight, newest, remote, lost, exited, overtaken, raced, todo>>
    PROVE  QuickInv'
<1>. SUFFICES ASSUME ~policy.slow
              PROVE  QuickInv'
    BY KindStays DEF QuickInv
<1>. DEFINE l == at[o]
            rest == bound[l] \ {o[2]}
<1>1. /\ o[2] \in Tabs /\ o = <<o[1], o[2]>> /\ l \in Leases /\ SessionTypeOK
      /\ \A u \in Tabs : <<"job", u>> \in Ops /\ <<"close", u>> \in Ops
      /\ \A d \in Drops : <<"drop", d>> \in Ops /\ <<"drop", d>> # o
      /\ "lost" \in Drops /\ "disconnect" \in Drops
    BY OpsAre DEF TypeInv, PlaceInv, Drops
<1>2. leases[KeyOf(l)] = l /\ o[2] \in bound[l] /\ KeyOf(l) \in Keys /\ l # NoLease
    BY <1>1, QuickHas, LeaseParts, KeysOfTabs DEF HeldInv
<1>3. /\ bound' \in [Leases -> SUBSET Tabs] /\ bound'[l] = rest
      /\ \A m \in Leases : m # l => bound'[m] = bound[m]
      /\ leases' \in [Keys -> Leases \cup {NoLease}]
      /\ \A k \in Keys : k # KeyOf(l) => leases'[k] = leases[k]
      /\ \/ leases'[KeyOf(l)] = l /\ timer' \subseteq timer \cup {l} /\ closing' = closing
         \/ /\ rest = {} /\ leases'[KeyOf(l)] = NoLease /\ timer' = timer \ {l}
            /\ closing' = IF leases[KeyOf(l)] = NoLease THEN closing ELSE closing \cup {l[1]}
    BY <1>1, Released
<1>4. Used(l)
    BY <1>1, UsedHere, LeaseParts
<1>5. \A m \in Leases : bound'[m] \subseteq bound[m]
    BY <1>3
<1>. HIDE DEF l, rest
<1>6. /\ closing \subseteq closing'
      /\ \A k \in Keys : leases'[k] \in {leases[k], NoLease}
      /\ \A k \in Keys : leases'[k] # NoLease => leases'[k][1] \notin closing'
      /\ ~raced => /\ \A m \in timer' : leases'[KeyOf(m)] = m
                   /\ \A k \in Keys : leases[k] # NoLease /\ leases'[k] = NoLease
                                        => leases[k][1] \in closing'
    <2>1. CASE leases'[KeyOf(l)] = l /\ timer' \subseteq timer \cup {l} /\ closing' = closing
        <3>1. \A k \in Keys : leases'[k] = leases[k]
            BY <1>2, <1>3, <2>1
        <3>2. \A m \in timer : m \in Leases /\ KeyOf(m) \in Keys
            BY <1>1, KeysOfTabs DEF SessionTypeOK
        <3>. QED  BY <1>2, <2>1, <3>1, <3>2, TableNow
    <2>2. CASE /\ leases'[KeyOf(l)] = NoLease /\ timer' = timer \ {l}
               /\ closing' = IF leases[KeyOf(l)] = NoLease THEN closing ELSE closing \cup {l[1]}
        BY <1>1, <1>2, <1>3, <1>4, <2>2, FinalizedQuick
    <2>. QED  BY <1>3, <2>1, <2>2
<1>7. HeldInv'
    <2>. SUFFICES ASSUME NEW q \in Ops, q[1] # "drop", pc'[q] = "cleanup"
                  PROVE  leases'[KeyOf(at'[q])] = at'[q] /\ q[2] \in bound'[at'[q]]
        BY KindStays DEF HeldInv
    <2>1. q # o /\ pc[q] = "cleanup" /\ at'[q] = at[q]
        OBVIOUS
    <2>2. at[q] \in Leases /\ leases[KeyOf(at[q])] = at[q] /\ q[2] \in bound[at[q]] /\ KeyOf(at[q]) \in Keys
        BY <2>1, QuickHas, KeysOfTabs DEF HeldInv, TypeInv, PlaceInv
    <2>3. CASE at[q] = l
        <3>1. q[1] = o[1]
            BY <2>1, QuickPhase DEF GeneralInv, Settling
        <3>2. q = <<q[1], q[2]>>
            BY OpsAre
        <3>3. q[2] # o[2]
            BY <1>1, <2>1, <3>1, <3>2
        <3>4. q[2] \in rest
            BY <2>2, <2>3, <3>3 DEF rest
        <3>. QED  BY <1>3, <2>1, <2>3, <3>4
    <2>4. CASE at[q] # l
        <3>1. KeyOf(at[q]) # KeyOf(l)
            BY <1>2, <2>2, <2>4
        <3>. QED  BY <1>3, <2>1, <2>2, <2>4, <3>1
    <2>. QED  BY <2>3, <2>4
<1>8. ReleasedInv'
    <2>1. ASSUME NEW u \in Tabs, pc[<<"close", u>>] = "cleanup"
          PROVE  \/ pc'[<<"close", u>>] = "cleanup" /\ at'[<<"close", u>>] = at[<<"close", u>>]
                 \/ \A m \in Leases : at[<<"close", u>>] = m => u \notin bound'[m]
        <3>1. CASE <<"close", u>> = o
            <4>1. o[2] = u /\ at[<<"close", u>>] = l
                BY <3>1 DEF l
            <4>. QED  BY <1>3, <4>1 DEF rest
        <3>2. CASE <<"close", u>> # o
            BY <1>1, <2>1, <3>2
        <3>. QED  BY <3>1, <3>2
    <2>. QED  BY <1>5, <1>6, <2>1, QuickHas, ReleasedStays
<1>9. /\ pc[<<"drop", "lost">>] # "cleanup"
      /\ \A t \in Tabs : pc[<<"job", t>>] # "opened"
    BY Calm
<1>10. \A t \in Tabs : pc'[<<"job", t>>] # "opened"
    BY <1>1, <1>9
<1>11. \A d \in Drops : pc'[<<"drop", d>>] = pc[<<"drop", d>>] /\ at'[<<"drop", d>>] = at[<<"drop", d>>]
    BY <1>1
<1>. QED  BY <1>1, <1>6, <1>7, <1>8, <1>9, <1>10, <1>11, CalmQuick

LEMMA ResumeCloseQuick ==
    ASSUME TypeInv, GeneralInv, EndedInv, QuickInv, micro # <<>>, Head(micro)[1] = "close", ResumeClose(Head(micro))
    PROVE  QuickInv'
<1>. DEFINE o == Head(micro)
<1>1. o \in Ops /\ o \in Queued /\ o[1] = "close"
    BY HeadOfQueue
<1>2. /\ pc[o] = "cleanup" /\ AfterRelease(o, FALSE)
      /\ GoesTo(o, "idle", NoLease)
      /\ UNCHANGED <<kind, tab, stray, inflight, newest, remote, lost, exited, overtaken, raced, todo>>
    BY DEF ResumeClose, view
<1>. HIDE DEF o
<1>3. AfterRelease(o, o[1] = "job")
    <2>1. (o[1] = "job") = FALSE
        BY <1>1
    <2>. QED  BY <1>2, <2>1
<1>4. pc'[o] = "idle" /\ \A q \in Ops : q # o => pc'[q] = pc[q] /\ at'[q] = at[q]
    BY <1>1, <1>2, Moves DEF Places, TypeInv
<1>. QED  BY <1>1, <1>2, <1>3, <1>4, ReleaseQuick

LEMMA ResumeReleaseQuick ==
    ASSUME TypeInv, GeneralInv, EndedInv, QuickInv, micro # <<>>, Head(micro)[1] = "job", ResumeRelease(Head(micro))
    PROVE  QuickInv'
<1>. DEFINE o == Head(micro)
<1>1. o \in Ops /\ o \in Queued /\ o[1] = "job"
    BY HeadOfQueue
<1>2. /\ pc[o] = "cleanup" /\ AfterRelease(o, TRUE)
      /\ \A q \in Ops : q # o => pc'[q] = pc[q] /\ at'[q] = at[q]
      /\ pc'[o] \in {"closing", "reacquire"}
      /\ UNCHANGED <<kind, tab, stray, inflight, newest, remote, lost, exited, overtaken, raced, todo>>
    BY ReleaseGoesOn DEF view
<1>. HIDE DEF o
<1>3. AfterRelease(o, o[1] = "job")
    <2>1. (o[1] = "job") = TRUE
        BY <1>1
    <2>. QED  BY <1>2, <2>1
<1>. QED  BY <1>1, <1>2, <1>3, ReleaseQuick

\* Where the loop of an operation that drops leases goes next.
LEMMA LoopGoesOn ==
    ASSUME TypeInv, micro # <<>>, Head(micro)[1] = "drop",
           NextLease(Head(micro)[2], todo[Head(micro)[2]], Tail(micro))
    PROVE  LET o == Head(micro)
               d == o[2]
           IN  /\ \A q \in Ops : q # o => pc'[q] = pc[q] /\ at'[q] = at[q]
               /\ \A e \in Drops : e # d => todo'[e] = todo[e]
               /\ \/ todo[d] = {} /\ todo'[d] = {} /\ pc'[o] = "idle"
                  \/ at'[o] \in todo[d] /\ todo'[d] = todo[d] \ {at'[o]} /\ pc'[o] = "cleanup"
<1>. DEFINE o == Head(micro)
<1>1. o[2] \in Drops /\ o = <<"drop", o[2]>>
    BY HeadDrop
<1>2. Tail(micro) \in Seq(Ops) /\ NoRepeat(Tail(micro)) /\ o \notin ToSet(Tail(micro))
    BY HeadOfQueue
<1>3. NextLease(o[2], todo[o[2]], Tail(micro))
    OBVIOUS
<1>. HIDE DEF o
<1>4. PICK d : d = o[2]
    OBVIOUS
<1>5. d \in Drops /\ o = <<"drop", d>>
    BY <1>1, <1>4
<1>6. SessionTypeOK /\ todo[d] \in SUBSET Leases /\ NextLease(d, todo[d], Tail(micro))
    BY <1>3, <1>4, <1>5 DEF TypeInv, SessionTypeOK
<1>7. <<"drop", d>> \notin ToSet(Tail(micro))
    BY <1>2, <1>5
<1>8. /\ \A q \in Ops : q # <<"drop", d>> => pc'[q] = pc[q] /\ at'[q] = at[q]
      /\ \A e \in Drops : e # d => todo'[e] = todo[e]
      /\ \/ todo[d] = {} /\ todo'[d] = {} /\ pc'[<<"drop", d>>] = "idle"
         \/ at'[<<"drop", d>>] \in todo[d] /\ todo'[d] = todo[d] \ {at'[<<"drop", d>>]} /\ pc'[<<"drop", d>>] = "cleanup"
    BY ONLY <1>2, <1>5, <1>6, <1>7, NextLeaseStarts
<1>. QED  BY <1>4, <1>5, <1>8 DEF o

LEMMA DisconnectGoesOnQuick ==
    ASSUME TypeInv, GeneralInv, EndedInv, QuickInv, micro # <<>>, Head(micro) = <<"drop", "disconnect">>, ResumeDrop(Head(micro))
    PROVE  QuickInv'
<1>. DEFINE o == Head(micro)
            l == at[o]
<1>0. o = <<"drop", "disconnect">> /\ o[1] = "drop" /\ o[2] = "disconnect"
    OBVIOUS
<1>1. /\ o \in Ops /\ o \in Queued
      /\ \A u \in Tabs : <<"job", u>> \in Ops /\ <<"job", u>> # o /\ <<"close", u>> \in Ops
      /\ <<"drop", "lost">> \in Ops /\ <<"drop", "lost">> # o
      /\ "lost" \in Drops /\ "disconnect" \in Drops
    BY HeadOfQueue, OpsAre DEF Drops
<1>2. /\ pc[o] = "cleanup" /\ l \in Leases
      /\ bound'[l] = {}
      /\ \A m \in Leases : m # l => bound'[m] = bound[m]
      /\ timer' = timer \ {l}
      /\ leases'[KeyOf(l)] = NoLease
      /\ \A k \in Keys : k # KeyOf(l) => leases'[k] = leases[k]
      /\ closing' = IF leases[KeyOf(l)] # NoLease THEN closing \cup {l[1]} ELSE closing
      /\ UNCHANGED <<kind, tab, stray, inflight, newest, remote, lost, exited, overtaken, raced>>
    BY <1>0, DropGoesOn DEF view
<1>3. \/ GoesTo(o, "closing", l) /\ UNCHANGED todo
      \/ NextLease(o[2], todo[o[2]], Tail(micro))
    BY <1>0, DropGoesOn
<1>. SUFFICES ASSUME ~policy.slow
              PROVE  QuickInv'
    BY <1>2, KindStays DEF QuickInv
<1>4. /\ \A q \in Ops : q # o => pc'[q] = pc[q] /\ at'[q] = at[q]
      /\ todo'["lost"] = todo["lost"] /\ todo'["disconnect"] \subseteq todo["disconnect"]
      /\ pc'[o] = "cleanup" => at'[o] \in todo["disconnect"]
    <2>1. CASE GoesTo(o, "closing", l) /\ UNCHANGED todo
        <3>. HIDE DEF o, l
        <3>. QED  BY <1>1, <1>2, <2>1, Moves DEF Places, TypeInv
    <2>2. CASE NextLease(o[2], todo[o[2]], Tail(micro))
        BY <1>0, <1>1, <2>2, LoopGoesOn
    <2>. QED  BY <1>3, <2>1, <2>2
<1>5. Used(l) /\ KeyOf(l) \in Keys
    BY <1>1, <1>2, UsedHere, LeaseParts, KeysOfTabs
<1>6. leases[KeyOf(l)] \in {l, NoLease} \/ raced
    BY <1>0, <1>2, QuickHas DEF DisconnectInv
<1>. HIDE DEF o, l
<1>7. /\ closing \subseteq closing'
      /\ \A k \in Keys : leases'[k] \in {leases[k], NoLease}
      /\ \A k \in Keys : leases'[k] # NoLease => leases'[k][1] \notin closing'
      /\ ~raced => /\ \A m \in timer' : leases'[KeyOf(m)] = m
                   /\ \A k \in Keys : leases[k] # NoLease /\ leases'[k] = NoLease
                                        => leases[k][1] \in closing'
    <2>1. closing' = IF leases[KeyOf(l)] = NoLease THEN closing ELSE closing \cup {l[1]}
        BY <1>2
    <2>. QED  BY <1>2, <1>5, <1>6, <2>1, FinalizedQuick
<1>8. \A q \in Ops : pc[q] \in Settling => q = o
    BY <1>0, <1>1, QuickPhase DEF GeneralInv
<1>9. HeldInv'
    <2>1. \A q \in Ops : q[1] # "drop" => pc'[q] # "cleanup"
        BY <1>0, <1>4, <1>8 DEF Settling
    <2>. QED  BY <1>2, <2>1, HeldNone
<1>10. \A u \in Tabs : pc[<<"close", u>>] # "cleanup"
    BY <1>0, <1>1, <1>8 DEF Settling
<1>11. ReleasedInv'
    <2>1. \A m \in Leases : bound'[m] \subseteq bound[m]
        BY <1>2
    <2>. QED  BY <1>2, <1>7, <1>10, <2>1, QuickHas, ReleasedStays
<1>12. /\ pc[<<"drop", "lost">>] # "cleanup"
       /\ \A t \in Tabs : pc[<<"job", t>>] # "opened"
    BY <1>0, <1>1, Calm
<1>13. /\ pc'[<<"drop", "lost">>] # "cleanup"
       /\ \A t \in Tabs : pc'[<<"job", t>>] # "opened"
    BY <1>1, <1>4, <1>12
<1>. QED  BY <1>0, <1>2, <1>4, <1>7, <1>9, <1>11, <1>12, <1>13, CalmQuick

LEMMA ResumeDropClosedQuick ==
    ASSUME TypeInv, GeneralInv, EndedInv, QuickInv, micro # <<>>, Head(micro)[1] = "drop", ResumeDropClosed(Head(micro))
    PROVE  QuickInv'
<1>. DEFINE o == Head(micro)
<1>1. /\ pc[o] = "closing" /\ NextLease(o[2], todo[o[2]], Tail(micro))
      /\ UNCHANGED <<kind, tab, stray, leases, bound, timer, inflight, serviceVars>>
    BY DEF ResumeDropClosed, view, registry
<1>2. o \in Ops /\ o \in Queued /\ o = <<"drop", "disconnect">> /\ o[1] = "drop" /\ o[2] = "disconnect"
    BY <1>1, HeadOfQueue, HeadDrop DEF TypeInv, PlaceInv
<1>3. /\ \A u \in Tabs : <<"job", u>> \in Ops /\ <<"job", u>> # o /\ <<"close", u>> \in Ops
      /\ <<"drop", "lost">> \in Ops /\ <<"drop", "lost">> # o
      /\ "lost" \in Drops /\ "disconnect" \in Drops
    BY <1>2, OpsAre DEF Drops
<1>. SUFFICES ASSUME ~policy.slow
              PROVE  QuickInv'
    BY <1>1, KindStays DEF QuickInv
<1>4. /\ \A q \in Ops : q # o => pc'[q] = pc[q] /\ at'[q] = at[q]
      /\ todo'["lost"] = todo["lost"] /\ todo'["disconnect"] \subseteq todo["disconnect"]
      /\ pc'[o] = "cleanup" => at'[o] \in todo["disconnect"]
    BY <1>1, <1>2, <1>3, LoopGoesOn
<1>. HIDE DEF o
<1>5. \A q \in Ops : pc[q] \in Settling => q = o
    BY <1>2, QuickPhase DEF GeneralInv
<1>6. HeldInv'
    <2>1. \A q \in Ops : q[1] # "drop" => pc'[q] # "cleanup"
        BY <1>2, <1>4, <1>5 DEF Settling
    <2>. QED  BY <1>1, <2>1, HeldNone
<1>7. ReleasedInv'
    <2>1. \A u \in Tabs : pc[<<"close", u>>] # "cleanup"
        BY <1>2, <1>3, <1>5 DEF Settling
    <2>. QED  BY <1>1, <2>1, QuickHas, ReleasedStays
<1>8. /\ pc[<<"drop", "lost">>] # "cleanup"
      /\ \A t \in Tabs : pc[<<"job", t>>] # "opened"
    BY <1>2, Calm
<1>9. /\ pc'[<<"drop", "lost">>] # "cleanup"
      /\ \A t \in Tabs : pc'[<<"job", t>>] # "opened"
    BY <1>3, <1>4, <1>8
<1>. QED  BY <1>1, <1>2, <1>4, <1>6, <1>7, <1>8, <1>9, TableStays

LEMMA OpenReturnsQuick ==
    ASSUME TypeInv, GeneralInv, EndedInv, QuickInv, NEW k \in Keys, OpenReturns(k)
    PROVE  QuickInv'
<1>. DEFINE s == newest + 1
<1>1. /\ micro = <<>> /\ inflight[k] # <<>>
      /\ newest' = s /\ remote' = remote \cup {s} /\ overtaken \subseteq overtaken'
      /\ raced' = (raced \/ \E l \in todo["disconnect"] : KeyOf(l) = k)
      /\ pc' = [o \in Ops |-> IF \E t \in ToSet(inflight[k]) : o = <<"job", t>> THEN "opened" ELSE pc[o]]
      /\ inflight' = [inflight EXCEPT ![k] = <<>>]
      /\ UNCHANGED <<kind, tab, stray, leases, bound, timer, closing, lost, exited, at, todo>>
    BY DEF OpenReturns, Quiet, view
<1>. SUFFICES ASSUME ~policy.slow
              PROVE  QuickInv'
    BY <1>1, KindStays DEF QuickInv
<1>2. /\ HeldInv /\ OpenInv /\ LostInv /\ AliveInv /\ ReleasedInv
      /\ ~raced => DisconnectInv /\ TimedInv /\ FoundInv
    BY QuickHas
<1>3. leases[k] = NoLease
    BY <1>1, <1>2 DEF OpenInv
<1>4. s \notin closing \cup lost
    <2>1. newest \in Nat /\ closing \cup lost \subseteq Nat
        BY SessionAssumption DEF TypeInv, SessionTypeOK, Sessions
    <2>. QED  BY <2>1 DEF EndedInv
<1>. HIDE DEF s
<1>5. /\ \A q \in Ops : pc'[q] \in {pc[q], "opened"}
      /\ \A u \in Tabs : pc'[<<"job", u>>] = "opened" => u \in ToSet(inflight[k])
      /\ \A u \in ToSet(inflight[k]) : u \in Tabs /\ <<"job", u>> \in Ops /\ pc'[<<"job", u>>] = "opened" /\ buildSessionKey(u) = k
    BY <1>1, WaitersAre, QuietFacts, OpsAre DEF Settling
<1>6. HeldInv'
    BY <1>1, <1>5, QuietFacts, HeldNone
<1>7. ReleasedInv'
    BY <1>1, <1>2, QuietFacts, ReleasedStays
<1>8. "lost" \in Drops /\ "disconnect" \in Drops /\ <<"drop", "lost">> \in Ops /\ <<"drop", "disconnect">> \in Ops
    BY OpsAre DEF Drops
<1>9. LostInv' /\ \A l : ~Dropping(l) /\ ~Dropping(l)'
    BY <1>1, <1>2, <1>5, <1>8, QuietFacts, NoDrops
<1>10. OpenInv'
    <2>1. inflight'[k] = <<>> /\ \A h \in Keys : h # k => inflight'[h] = inflight[h]
        BY <1>1 DEF TypeInv, SessionTypeOK
    <2>2. \A h \in Keys : inflight'[h] # <<>> => leases'[h] = NoLease
        BY <1>1, <1>2, <2>1 DEF OpenInv
    <2>3. newest' \in remote' \ (closing' \cup lost')
        BY <1>1, <1>4
    <2>4. \A u \in Tabs : pc'[<<"job", u>>] = "opened" => inflight'[buildSessionKey(u)] = <<>> /\ leases'[buildSessionKey(u)] = NoLease
        BY <1>1, <1>3, <1>5, <2>1
    <2>. QED  BY <1>1, <2>2, <2>3, <2>4, KindStays DEF OpenInv
<1>11. AliveInv'
    <2>1. \A h \in Keys : leases[h] # NoLease => leases[h][1] \notin closing
                            /\ (leases[h][1] \in remote \cup lost \cup overtaken \/ exited)
        BY <1>2, <1>9 DEF AliveInv
    <2>. QED  BY <1>1, <2>1, KindStays DEF AliveInv
<1>12. ASSUME ~raced'
       PROVE  DisconnectInv' /\ TimedInv' /\ FoundInv'
    <2>1. ~raced /\ \A l \in todo["disconnect"] : KeyOf(l) # k
        BY <1>1, <1>12 DEF TypeInv, SessionTypeOK
    <2>2. DisconnectInv'
        <3>1. \A l \in todo["disconnect"] : leases[KeyOf(l)] \in {l, NoLease}
            BY <1>2, <2>1 DEF DisconnectInv
        <3>2. pc'[<<"drop", "disconnect">>] # "cleanup"
            BY <1>1, <1>5, <1>8, QuietFacts
        <3>3. \A l \in todo["disconnect"] : \A u \in Tabs : pc'[<<"job", u>>] = "opened" => buildSessionKey(u) # KeyOf(l)
            BY <1>5, <2>1
        <3>. QED  BY <1>1, <3>1, <3>2, <3>3, KindStays DEF DisconnectInv
    <2>3. TimedInv'
        BY <1>1, <1>2, <2>1, KindStays DEF TimedInv
    <2>4. FoundInv'
        <3>1. Opening = {}
            BY <1>1, QuietPlaces
        <3>2. Opening' # {}
            <4>1. ToSet(inflight[k]) # {}
                BY <1>1, QueueEmpty DEF TypeInv, SessionTypeOK
            <4>2. PICK u \in ToSet(inflight[k]) : TRUE
                BY <4>1
            <4>3. <<"job", u>> \in Ops /\ pc'[<<"job", u>>] = "opened" /\ <<"job", u>>[1] = "job"
                BY <1>5
            <4>. QED  BY <4>3 DEF Opening
        <3>. SUFFICES ASSUME NEW x \in remote' \ overtaken'
                      PROVE  \/ \E h \in Keys : leases[h] # NoLease /\ leases[h][1] = x
                             \/ x \in closing
                             \/ x = newest'
            BY <1>1, <3>2, KindStays DEF FoundInv
        <3>3. x = newest' \/ x \in remote \ overtaken
            BY <1>1
        <3>. QED  BY <1>2, <2>1, <3>1, <3>3 DEF FoundInv
    <2>. QED  BY <2>2, <2>3, <2>4
<1>. QED  BY <1>1, <1>6, <1>7, <1>9, <1>10, <1>11, <1>12, KindStays DEF QuickInv

LEMMA ResumeOpenedQuick ==
    ASSUME TypeInv, GeneralInv, EndedInv, QuickInv, micro # <<>>, Head(micro)[1] = "job", ResumeOpened(Head(micro))
    PROVE  QuickInv'
<1>. DEFINE o == Head(micro)
            t == o[2]
            l == <<newest, t>>
<1>1. /\ t \in Tabs /\ o = <<"job", t>> /\ o \in Ops /\ pc[o] = "opened"
      /\ l \in Leases /\ KeyOf(l) = buildSessionKey(t) /\ KeyOf(l) \in Keys /\ ~Used(l)
      /\ bound'[l] = {t}
      /\ \A m \in Leases : m # l => bound'[m] = bound[m]
      /\ leases'[KeyOf(l)] = l
      /\ \A k \in Keys : k # KeyOf(l) => leases'[k] = leases[k]
      /\ pc'[o] = "idle"
      /\ \A q \in Ops : q # o => pc'[q] = pc[q] /\ at'[q] = at[q]
      /\ UNCHANGED <<kind, tab, stray, timer, inflight, serviceVars, todo>>
    BY OpenedGoesOn
<1>2. o \in Queued /\ l[1] = newest /\ l # NoLease
    BY <1>1, HeadOfQueue, LeaseParts
<1>. HIDE DEF o, t, l
<1>. SUFFICES ASSUME ~policy.slow
              PROVE  QuickInv'
    BY <1>1, KindStays DEF QuickInv
<1>3. /\ HeldInv /\ OpenInv /\ LostInv /\ AliveInv /\ ReleasedInv
      /\ ~raced => DisconnectInv /\ TimedInv /\ FoundInv
    BY QuickHas
<1>4. UNCHANGED <<newest, remote, closing, lost, exited, overtaken, raced>>
    BY <1>1 DEF serviceVars
<1>5. \A q \in Ops : pc[q] \in Settling => q[1] = "job" /\ pc[q] = "opened"
    <2>1. o[1] = "job" /\ pc[o] = "opened"
        BY <1>1
    <2>. QED  BY <1>1, <1>2, <2>1, QuickPhase DEF GeneralInv
<1>6. \A q \in Ops : pc[q] # "cleanup" /\ pc'[q] # "cleanup"
    BY <1>1, <1>5 DEF Settling
<1>7. HeldInv'
    BY <1>1, <1>6, HeldNone
<1>8. "lost" \in Drops /\ "disconnect" \in Drops /\ <<"drop", "lost">> \in Ops /\ <<"drop", "disconnect">> \in Ops
    BY OpsAre DEF Drops
<1>9. LostInv' /\ \A m : ~Dropping(m) /\ ~Dropping(m)'
    BY <1>1, <1>3, <1>6, <1>8, NoDrops
<1>10. /\ inflight[KeyOf(l)] = <<>>
       /\ leases[KeyOf(l)] # NoLease => leases[KeyOf(l)][1] = newest /\ leases[KeyOf(l)] \notin timer
       /\ newest \in remote \ (closing \cup lost)
    BY <1>1, <1>3 DEF OpenInv
<1>11. l \notin timer /\ bound[l] = {}
    BY <1>1 DEF Used
<1>12. OpenInv'
    <2>1. \A k \in Keys : inflight[k] # <<>> => leases'[k] = NoLease
        BY <1>1, <1>3, <1>10 DEF OpenInv
    <2>. SUFFICES ASSUME NEW u \in Tabs, pc'[<<"job", u>>] = "opened"
                  PROVE  LET k == buildSessionKey(u)
                         IN  /\ inflight[k] = <<>>
                             /\ leases'[k] # NoLease => leases'[k][1] = newest /\ leases'[k] \notin timer
                             /\ newest \in remote \ (closing \cup lost)
        BY <1>1, <1>4, <2>1, KindStays DEF OpenInv
    <2>2. <<"job", u>> \in Ops /\ buildSessionKey(u) \in Keys
        BY OpsAre, KeysOfTabs
    <2>3. pc[<<"job", u>>] = "opened"
        BY <1>1, <2>2
    <2>4. LET k == buildSessionKey(u)
          IN  /\ inflight[k] = <<>>
              /\ leases[k] # NoLease => leases[k][1] = newest /\ leases[k] \notin timer
              /\ newest \in remote \ (closing \cup lost)
        BY <1>3, <2>3 DEF OpenInv
    <2>5. CASE buildSessionKey(u) = KeyOf(l)
        BY <1>1, <1>2, <1>10, <1>11, <2>5
    <2>6. CASE buildSessionKey(u) # KeyOf(l)
        BY <1>1, <2>2, <2>4, <2>6
    <2>. QED  BY <2>5, <2>6
<1>13. AliveInv'
    <2>. SUFFICES ASSUME NEW k \in Keys, leases'[k] # NoLease
                  PROVE  /\ leases'[k][1] \notin closing
                         /\ leases'[k][1] \in remote \cup lost \cup overtaken \/ exited
        BY <1>1, <1>4, KindStays DEF AliveInv
    <2>1. CASE k = KeyOf(l)
        BY <1>1, <1>2, <1>10, <2>1
    <2>2. CASE k # KeyOf(l)
        <3>1. leases'[k] = leases[k]
            BY <1>1, <2>2
        <3>. QED  BY <1>3, <1>9, <3>1 DEF AliveInv
    <2>. QED  BY <2>1, <2>2
<1>14. ReleasedInv'
    <2>. SUFFICES ASSUME NEW k \in Keys, leases'[k] # NoLease, NEW u \in bound'[leases'[k]] \ stray, tab[u] = "closed"
                  PROVE  pc'[<<"close", u>>] = "cleanup" /\ at'[<<"close", u>>] = leases'[k]
        BY <1>1, KindStays DEF ReleasedInv
    <2>1. CASE k = KeyOf(l)
        <3>1. u = t
            BY <1>1, <2>1
        <3>2. t \in stray
            BY <1>1, <3>1 DEF GeneralInv, TabInv
        <3>. QED  BY <3>1, <3>2
    <2>2. CASE k # KeyOf(l)
        <3>1. leases'[k] = leases[k] /\ leases[k] \in Leases /\ leases[k] # l
            BY <1>1, <2>2, OtherLeases DEF TypeInv, SessionTypeOK
        <3>2. u \in bound[leases[k]] \ stray /\ u \in Tabs
            BY <1>1, <3>1 DEF TypeInv, SessionTypeOK
        <3>3. pc[<<"close", u>>] = "cleanup" /\ <<"close", u>> \in Ops
            BY <1>3, <3>1, <3>2, OpsAre DEF ReleasedInv
        <3>. QED  BY <1>6, <3>3
    <2>. QED  BY <2>1, <2>2
<1>15. ASSUME ~raced
       PROVE  DisconnectInv' /\ TimedInv' /\ FoundInv'
    <2>1. DisconnectInv'
        <3>1. ASSUME NEW m \in todo["disconnect"]
              PROVE  /\ leases'[KeyOf(m)] \in {m, NoLease}
                     /\ \A u \in Tabs : pc'[<<"job", u>>] = "opened" => buildSessionKey(u) # KeyOf(m)
            <4>1. /\ leases[KeyOf(m)] \in {m, NoLease}
                  /\ \A u \in Tabs : pc[<<"job", u>>] = "opened" => buildSessionKey(u) # KeyOf(m)
                BY <1>3, <1>15 DEF DisconnectInv
            <4>2. KeyOf(m) \in Keys
                BY <1>8, KeysOfTabs DEF TypeInv, SessionTypeOK
            <4>3. \A u \in Tabs : <<"job", u>> \in Ops
                BY OpsAre
            <4>4. KeyOf(m) # KeyOf(l)
                BY <1>1, <4>1
            <4>. QED  BY <1>1, <4>1, <4>2, <4>3, <4>4
        <3>2. pc'[<<"drop", "disconnect">>] # "cleanup"
            BY <1>6, <1>8
        <3>. QED  BY <1>1, <3>1, <3>2, KindStays DEF DisconnectInv
    <2>2. TimedInv'
        <3>. SUFFICES ASSUME NEW m \in timer
                      PROVE  leases'[KeyOf(m)] = m
            BY <1>1, KindStays DEF TimedInv
        <3>1. m \in Leases /\ m # NoLease /\ KeyOf(m) \in Keys /\ leases[KeyOf(m)] = m
            BY <1>3, <1>15, LeaseParts, KeysOfTabs DEF TimedInv, TypeInv, SessionTypeOK
        <3>2. KeyOf(m) # KeyOf(l)
            BY <1>10, <3>1
        <3>. QED  BY <1>1, <3>1, <3>2
    <2>3. FoundInv'
        <3>. SUFFICES ASSUME NEW x \in remote \ overtaken
                      PROVE  (\E k \in Keys : leases'[k] # NoLease /\ leases'[k][1] = x) \/ x \in closing
            BY <1>1, <1>4, KindStays DEF FoundInv
        <3>1. CASE x = newest
            BY <1>1, <1>2, <3>1
        <3>2. CASE x # newest
            <4>1. (\E k \in Keys : leases[k] # NoLease /\ leases[k][1] = x) \/ x \in closing
                BY <1>3, <1>15, <3>2 DEF FoundInv
            <4>. QED  BY <1>1, <1>10, <3>2, <4>1
        <3>. QED  BY <3>1, <3>2
    <2>. QED  BY <2>1, <2>2, <2>3
<1>. QED  BY <1>1, <1>4, <1>7, <1>9, <1>12, <1>13, <1>14, <1>15, KindStays DEF QuickInv

LEMMA LostEventQuick ==
    ASSUME TypeInv, GeneralInv, EndedInv, QuickInv, LostEvent
    PROVE  QuickInv'
<1>. DEFINE o == <<"drop", "lost">>
<1>1. /\ micro = <<>> /\ pc[o] = "idle"
      /\ UNCHANGED <<kind, tab, stray, leases, bound, timer, inflight, newest, remote, closing, overtaken, raced>>
    BY DEF LostEvent, Quiet, view, registry
<1>2. PICK S : /\ NextLease("lost", LeasesIn(S), micro)
               /\ lost' \subseteq lost /\ (exited' => exited)
               /\ \/ exited' = exited /\ lost \ lost' \subseteq S /\ S \subseteq lost
                  \/ exited /\ lost' = lost /\ S = Sessions
    <2>1. CASE \E s \in lost : /\ NextLease("lost", LeasesIn({s}), micro)
                               /\ lost' = lost \ {s}
                               /\ UNCHANGED exited
        BY <2>1
    <2>2. CASE /\ exited
               /\ NextLease("lost", LeasesIn(Sessions), micro)
               /\ exited' = FALSE
               /\ UNCHANGED lost
        BY <2>2
    <2>. QED  BY <2>1, <2>2 DEF LostEvent
<1>. DEFINE rest == LeasesIn(S)
<1>. SUFFICES ASSUME ~policy.slow
              PROVE  QuickInv'
    BY <1>1, KindStays DEF QuickInv
<1>3. /\ HeldInv /\ OpenInv /\ LostInv /\ AliveInv /\ ReleasedInv
      /\ ~raced => DisconnectInv /\ TimedInv /\ FoundInv
    BY QuickHas
<1>4. /\ \A l \in rest : l \in Leases /\ l[1] \in S /\ leases[KeyOf(l)] = l
      /\ \A k \in Keys : leases[k] # NoLease /\ leases[k][1] \in S => leases[k] \in rest
    BY InTableHere DEF LeasesIn
<1>5. "disconnect" \in Drops /\ "lost" \in Drops /\ rest \in SUBSET Leases /\ micro \in Seq(Ops) /\ o \notin ToSet(micro) /\ NoRepeat(micro)
    BY <1>1, <1>4, QueueEmpty DEF Drops
<1>. HIDE DEF rest
<1>6. /\ \A q \in Ops : q # o => pc'[q] = pc[q] /\ at'[q] = at[q]
      /\ \A e \in Drops : e # "lost" => todo'[e] = todo[e]
      /\ \/ rest = {} /\ todo'["lost"] = {} /\ pc'[o] = "idle"
         \/ at'[o] \in rest /\ todo'["lost"] = rest \ {at'[o]} /\ pc'[o] = "cleanup"
    <2>1. SessionTypeOK /\ NextLease("lost", rest, micro)
        BY <1>2 DEF TypeInv, rest
    <2>. QED  BY ONLY <1>5, <2>1, NextLeaseStarts
<1>7. (\A l : ~Dropping(l)) /\ \A l : Dropping(l)' <=> l \in rest
    BY <1>1, <1>3, <1>6 DEF Dropping, LostInv
<1>8. HeldInv'
    BY <1>1, <1>6, QuietFacts, HeldNone
<1>9. ReleasedInv'
    BY <1>1, <1>3, QuietFacts, ReleasedStays
<1>10. <<"drop", "disconnect">> \in Ops /\ <<"drop", "disconnect">> # o /\ \A u \in Tabs : <<"job", u>> \in Ops /\ <<"job", u>> # o
    BY <1>5, OpsAre
<1>11. \A u \in Tabs : pc'[<<"job", u>>] # "opened"
    BY <1>1, <1>6, <1>10, QuietFacts DEF Settling
<1>12. OpenInv'
    BY <1>1, <1>3, <1>11, KindStays DEF OpenInv
<1>13. LostInv'
    <2>1. \A l \in rest : l[1] \notin remote \ overtaken
        BY <1>2, <1>4 DEF EndedInv
    <2>2. \A l \in rest : leases'[KeyOf(l)'] = l
        BY <1>1, <1>4, KindStays
    <2>3. (\A l \in Leases : Dropping(l) => l[1] \notin remote \ overtaken)'
        BY <1>1, <1>7, <2>1
    <2>. QED  BY <1>6, <2>2, <2>3 DEF LostInv
<1>14. AliveInv'
    <2>. SUFFICES ASSUME NEW k \in Keys, leases[k] # NoLease
                  PROVE  /\ leases[k][1] \notin closing
                         /\ leases[k][1] \in remote \cup lost' \cup overtaken \/ exited' \/ leases[k] \in rest
        BY <1>1, <1>7, KindStays DEF AliveInv
    <2>1. leases[k][1] \notin closing /\ (leases[k][1] \in remote \cup lost \cup overtaken \/ exited)
        BY <1>3, <1>7 DEF AliveInv
    <2>2. leases[k][1] \in Sessions
        BY LeaseParts DEF TypeInv, SessionTypeOK
    <2>. QED  BY <1>2, <1>4, <2>1, <2>2
<1>15. ASSUME ~raced
       PROVE  DisconnectInv' /\ TimedInv' /\ FoundInv'
    <2>1. DisconnectInv'
        BY <1>1, <1>3, <1>5, <1>6, <1>10, <1>11, <1>15, KindStays DEF DisconnectInv
    <2>2. TimedInv'
        BY <1>1, <1>3, <1>15, KindStays DEF TimedInv
    <2>3. Opening = {}
        BY <1>1, QuietPlaces
    <2>4. FoundInv'
        BY <1>1, <1>3, <1>15, <2>3, KindStays DEF FoundInv
    <2>. QED  BY <2>1, <2>2, <2>4
<1>. QED  BY <1>1, <1>8, <1>9, <1>12, <1>13, <1>14, <1>15, KindStays DEF QuickInv

LEMMA LostGoesOnQuick ==
    ASSUME TypeInv, GeneralInv, EndedInv, QuickInv, micro # <<>>, Head(micro) = <<"drop", "lost">>, ResumeDrop(Head(micro))
    PROVE  QuickInv'
<1>. DEFINE o == Head(micro)
            l == at[o]
<1>0. o = <<"drop", "lost">> /\ o[1] = "drop" /\ o[2] = "lost"
    OBVIOUS
<1>1. /\ o \in Ops /\ o \in Queued
      /\ \A u \in Tabs : <<"job", u>> \in Ops /\ <<"job", u>> # o /\ <<"close", u>> \in Ops
      /\ <<"drop", "disconnect">> \in Ops /\ <<"drop", "disconnect">> # o
      /\ "lost" \in Drops /\ "disconnect" \in Drops
    BY HeadOfQueue, OpsAre DEF Drops
<1>2. /\ pc[o] = "cleanup" /\ l \in Leases
      /\ bound'[l] = {}
      /\ \A m \in Leases : m # l => bound'[m] = bound[m]
      /\ timer' = timer \ {l}
      /\ leases'[KeyOf(l)] = NoLease
      /\ \A k \in Keys : k # KeyOf(l) => leases'[k] = leases[k]
      /\ UNCHANGED <<kind, tab, stray, inflight, newest, remote, closing, lost, exited, overtaken, raced>>
    BY <1>0, DropGoesOn DEF view
<1>3. NextLease(o[2], todo[o[2]], Tail(micro))
    BY <1>0, DropGoesOn
<1>. SUFFICES ASSUME ~policy.slow
              PROVE  QuickInv'
    BY <1>2, KindStays DEF QuickInv
<1>4. /\ \A q \in Ops : q # o => pc'[q] = pc[q] /\ at'[q] = at[q]
      /\ todo'["disconnect"] = todo["disconnect"]
      /\ \/ todo["lost"] = {} /\ todo'["lost"] = {} /\ pc'[o] = "idle"
         \/ at'[o] \in todo["lost"] /\ todo'["lost"] = todo["lost"] \ {at'[o]} /\ pc'[o] = "cleanup"
    BY <1>0, <1>1, <1>3, LoopGoesOn
<1>5. KeyOf(l) \in Keys /\ l # NoLease
    BY <1>2, KeysOfTabs, LeaseParts
<1>. HIDE DEF o, l
<1>6. /\ HeldInv /\ OpenInv /\ LostInv /\ AliveInv /\ ReleasedInv
      /\ ~raced => DisconnectInv /\ TimedInv /\ FoundInv
    BY QuickHas
<1>7. /\ leases[KeyOf(l)] = l /\ l \notin todo["lost"] /\ Dropping(l)
      /\ \A m \in todo["lost"] : m \in Leases /\ KeyOf(m) \in Keys /\ leases[KeyOf(m)] = m
      /\ \A m : Dropping(m) <=> m = l \/ m \in todo["lost"]
      /\ \A m : Dropping(m)' <=> m \in todo["lost"]
      /\ \A m \in Leases : m = l \/ m \in todo["lost"] => m[1] \notin remote \ overtaken
    <2>1. /\ leases[KeyOf(l)] = l /\ l \notin todo["lost"]
          /\ \A m \in todo["lost"] : leases[KeyOf(m)] = m
        BY <1>0, <1>2, <1>6 DEF LostInv, l
    <2>2. \A m \in todo["lost"] : m \in Leases /\ KeyOf(m) \in Keys
        BY <1>1, KeysOfTabs DEF TypeInv, SessionTypeOK
    <2>3. \A m : Dropping(m) <=> m = l \/ m \in todo["lost"]
        BY <1>0, <1>2 DEF Dropping, l
    <2>4. \A m : Dropping(m)' <=> m \in todo["lost"]
        BY <1>0, <1>4 DEF Dropping
    <2>5. \A m \in Leases : m = l \/ m \in todo["lost"] => m[1] \notin remote \ overtaken
        BY <1>6, <2>3 DEF LostInv
    <2>. QED  BY <2>1, <2>2, <2>3, <2>4, <2>5
<1>8. \A k \in Keys : leases'[k] \in {leases[k], NoLease}
    BY <1>2
<1>9. \A q \in Ops : pc[q] \in Settling => q = o
    BY <1>0, <1>1, QuickPhase DEF GeneralInv
<1>10. HeldInv'
    <2>1. \A q \in Ops : q[1] # "drop" => pc'[q] # "cleanup"
        BY <1>0, <1>4, <1>9 DEF Settling
    <2>. QED  BY <1>2, <2>1, HeldNone
<1>11. ReleasedInv'
    <2>1. \A u \in Tabs : pc[<<"close", u>>] # "cleanup"
        BY <1>0, <1>1, <1>9 DEF Settling
    <2>2. \A m \in Leases : bound'[m] \subseteq bound[m]
        BY <1>2
    <2>. QED  BY <1>2, <1>6, <1>8, <2>1, <2>2, ReleasedStays
<1>12. \A u \in Tabs : pc'[<<"job", u>>] # "opened" /\ pc[<<"job", u>>] # "opened"
    BY <1>1, <1>4, <1>9 DEF Settling
<1>13. OpenInv'
    BY <1>2, <1>6, <1>8, <1>12, KindStays DEF OpenInv
<1>14. \A m \in todo["lost"] : leases'[KeyOf(m)] = m
    BY <1>2, <1>7
<1>15. LostInv'
    <2>1. \A m \in todo["lost"] : leases'[KeyOf(m)'] = m
        BY <1>2, <1>14, KindStays
    <2>2. (\A m \in Leases : Dropping(m) => m[1] \notin remote \ overtaken)'
        BY <1>2, <1>7
    <2>. QED  BY <1>0, <1>4, <2>1, <2>2 DEF LostInv
<1>16. AliveInv'
    <2>. SUFFICES ASSUME NEW k \in Keys, leases'[k] # NoLease
                  PROVE  /\ leases'[k][1] \notin closing
                         /\ leases'[k][1] \in remote \cup lost \cup overtaken \/ exited \/ leases'[k] \in todo["lost"]
        BY <1>2, <1>7, KindStays DEF AliveInv
    <2>1. k # KeyOf(l) /\ leases'[k] = leases[k] /\ leases[k] # NoLease /\ leases[k] # l
        BY <1>2, OtherLeases
    <2>. QED  BY <1>6, <1>7, <2>1 DEF AliveInv
<1>17. ASSUME ~raced
       PROVE  DisconnectInv' /\ TimedInv' /\ FoundInv'
    <2>1. DisconnectInv'
        <3>1. \A m \in todo["disconnect"] : leases'[KeyOf(m)] \in {m, NoLease}
            <4>1. \A m \in todo["disconnect"] : KeyOf(m) \in Keys
                BY <1>1, KeysOfTabs DEF TypeInv, SessionTypeOK
            <4>. QED  BY <1>6, <1>8, <1>17, <4>1 DEF DisconnectInv
        <3>2. pc'[<<"drop", "disconnect">>] # "cleanup"
            BY <1>1, <1>4, <1>9 DEF Settling
        <3>. QED  BY <1>2, <1>4, <1>12, <3>1, <3>2, KindStays DEF DisconnectInv
    <2>2. TimedInv'
        <3>. SUFFICES ASSUME NEW m \in timer, m # l
                      PROVE  leases'[KeyOf(m)] = m
            BY <1>2, KindStays DEF TimedInv
        <3>1. m \in Leases /\ KeyOf(m) \in Keys /\ leases[KeyOf(m)] = m
            BY <1>6, <1>17, KeysOfTabs DEF TimedInv, TypeInv, SessionTypeOK
        <3>. QED  BY <1>2, <1>7, <3>1
    <2>3. FoundInv'
        <3>1. Opening = {}
            BY <1>12, OpsAre DEF Opening
        <3>. SUFFICES ASSUME NEW x \in remote \ overtaken
                      PROVE  (\E k \in Keys : leases'[k] # NoLease /\ leases'[k][1] = x) \/ x \in closing
            BY <1>2, KindStays DEF FoundInv
        <3>2. (\E k \in Keys : leases[k] # NoLease /\ leases[k][1] = x) \/ x \in closing
            BY <1>6, <1>17, <3>1 DEF FoundInv
        <3>3. l[1] # x
            BY <1>2, <1>7
        <3>. QED  BY <1>2, <1>7, <3>2, <3>3
    <2>. QED  BY <2>1, <2>2, <2>3
<1>. QED  BY <1>2, <1>10, <1>11, <1>13, <1>15, <1>16, <1>17, KindStays DEF QuickInv

LEMMA QuickStep ==
    ASSUME TypeInv, GeneralInv, EndedInv, QuickInv, SessionNext
    PROVE  QuickInv'
<1>1. ASSUME NEW t \in Tabs, OpenTab(t) \/ ProfileLoaded(t) \/ CloseTab(t) \/ Reconnect(t)
      PROVE  QuickInv'
    BY <1>1, OpenTabQuick, ProfileLoadedQuick, CloseTabQuick, ReconnectingQuick DEF Reconnect
<1>2. CASE RequestReconnect
    BY <1>2, ReconnectingQuick DEF RequestReconnect
<1>3. ASSUME NEW o \in Ops, HooksDone(o)
      PROVE  QuickInv'
    BY <1>3, KindStays DEF HooksDone, QuickInv
<1>4. ASSUME NEW k \in Keys, OpenReturns(k) \/ OpenFails(k)
      PROVE  QuickInv'
    BY <1>4, OpenReturnsQuick, OpenFailsQuick
<1>5. ASSUME NEW s \in Sessions, CloseReturns(s) \/ SessionDies(s)
      PROVE  QuickInv'
    BY <1>5, CloseReturnsQuick, SessionDiesQuick
<1>6. ASSUME NEW l \in Leases, IdleTimerFires(l)
      PROVE  QuickInv'
    BY <1>6, IdleTimerFiresQuick
<1>7. CASE Disconnect \/ LostEvent \/ ServiceExits
    BY <1>7, DisconnectQuick, LostEventQuick, ServiceExitsQuick
<1>8. CASE Resume
    <2>1. micro # <<>>
        BY <1>8 DEF Resume
    <2>2. CASE Head(micro)[1] = "close" /\ ResumeClose(Head(micro))
        BY <2>1, <2>2, ResumeCloseQuick
    <2>3. CASE Head(micro)[1] = "job" /\ ( \/ ResumeReconnect(Head(micro)) \/ ResumeRelease(Head(micro))
                                          \/ ResumeAcquire(Head(micro)) \/ ResumeOpened(Head(micro)))
        BY <2>1, <2>3, ResumeReconnectQuick, ResumeReleaseQuick, ResumeAcquireQuick, ResumeOpenedQuick
    <2>4. CASE Head(micro)[1] = "drop" /\ ResumeDrop(Head(micro))
        <3>1. Head(micro) = <<"drop", "disconnect">> \/ Head(micro) = <<"drop", "lost">>
            BY <2>1, <2>4, HeadDrop
        <3>. QED  BY <2>1, <2>4, <3>1, DisconnectGoesOnQuick, LostGoesOnQuick
    <2>5. CASE Head(micro)[1] = "drop" /\ ResumeDropClosed(Head(micro))
        BY <2>1, <2>5, ResumeDropClosedQuick
    <2>. QED  BY <1>8, <2>2, <2>3, <2>4, <2>5 DEF Resume
<1>. QED  BY <1>1, <1>2, <1>3, <1>4, <1>5, <1>6, <1>7, <1>8 DEF SessionNext

-----------------------------------------------------------------------------
(* The invariant holds.                                                    *)

LEMMA StartInv ==
    ASSUME SessionInit
    PROVE  IInv
<1>1. /\ kind \in Kinds /\ tab = [t \in Tabs |-> "absent"] /\ shown = [t \in Tabs |-> 0] /\ stray = {}
      /\ leases = [k \in Keys |-> NoLease] /\ bound = [l \in Leases |-> {}] /\ timer = {}
      /\ inflight = [k \in Keys |-> <<>>]
      /\ newest = 0 /\ remote = {} /\ closing = {} /\ lost = {} /\ exited = FALSE /\ overtaken = {} /\ raced = FALSE
      /\ pc = [o \in Ops |-> "idle"] /\ at = [o \in Ops |-> NoLease] /\ todo = [d \in Drops |-> {}]
      /\ micro = <<>> /\ troubles = 0
    BY DEF SessionInit
<1>2. MaxOpens \in Nat /\ MaxTroubles \in Nat
    BY SessionAssumption
<1>3. SessionTypeOK
    <2>1. /\ tab \in [Tabs -> {"absent", "open", "closed"}] /\ shown \in [Tabs -> 0..MaxOpens]
          /\ bound \in [Leases -> SUBSET Tabs] /\ leases \in [Keys -> Leases \cup {NoLease}]
        BY <1>1, <1>2
    <2>2. pc \in [Ops -> Places] /\ at \in [Ops -> Leases \cup {NoLease}] /\ todo \in [Drops -> SUBSET Leases]
        BY <1>1 DEF Places
    <2>3. micro \in Seq(Ops) /\ inflight \in [Keys -> Seq(Tabs)]
        BY <1>1, QueueEmpty
    <2>4. newest \in 0..MaxOpens /\ troubles \in 0..MaxTroubles
        BY <1>1, <1>2
    <2>. QED  BY <1>1, <2>1, <2>2, <2>3, <2>4 DEF SessionTypeOK
<1>4. /\ <<"drop", "lost">> \in Ops /\ <<"drop", "disconnect">> \in Ops /\ "lost" \in Drops /\ "disconnect" \in Drops
      /\ \A t \in Tabs : <<"job", t>> \in Ops /\ <<"close", t>> \in Ops
    BY OpsAre DEF Drops
<1>5. Queued = {} /\ Opening = {}
    BY <1>1, QueueEmpty DEF Queued, Opening
<1>6. PlaceInv /\ KeyedInv
    BY <1>1, <1>4, QueueEmpty DEF PlaceInv, KeyedInv
<1>7. QueuedInv
    BY <1>1, QueueEmpty DEF QueuedInv
<1>8. TypeInv
    BY <1>3, <1>5, <1>6, <1>7 DEF TypeInv
<1>9. \A l \in Leases : ~Used(l)
    BY <1>1, LeaseParts, KeysOfTabs DEF Used
<1>10. FreshInv
    BY <1>9 DEF FreshInv
<1>11. ClaimInv
    <2>1. ASSUME NEW s \in Sessions, NEW k \in Keys
          PROVE  ~Claim(s, k)
        <3>1. s # 0
            BY <1>2 DEF Sessions
        <3>. QED  BY <1>1, <1>4, <1>9, <3>1 DEF Claim
    <2>. QED  BY <2>1 DEF ClaimInv
<1>12. PhaseInv /\ TimerInv /\ UnusedIffTimed
    BY <1>1, <1>5 DEF PhaseInv, TimerInv, UnusedIffTimed
<1>13. TabInv /\ OwnInv
    BY <1>1, <1>4, KeysOfTabs DEF TabInv, OwnInv
<1>14. GeneralInv
    BY <1>10, <1>11, <1>12, <1>13 DEF GeneralInv
<1>15. EndedInv
    BY <1>1 DEF EndedInv
<1>16. HeldInv /\ LostInv /\ AliveInv /\ ReleasedInv
    BY <1>1, <1>4 DEF HeldInv, LostInv, Dropping, AliveInv, ReleasedInv
<1>17. OpenInv
    BY <1>1, <1>4 DEF OpenInv
<1>18. DisconnectInv /\ TimedInv /\ FoundInv
    BY <1>1, <1>4 DEF DisconnectInv, TimedInv, FoundInv
<1>. QED  BY <1>8, <1>14, <1>15, <1>16, <1>17, <1>18 DEF IInv, QuickInv

LEMMA QuickStutters ==
    ASSUME EndedInv, QuickInv, UNCHANGED sessionVars
    PROVE  EndedInv' /\ QuickInv'
<1>1. UNCHANGED <<kind, tab, shown, stray, leases, bound, timer, inflight, newest, remote, closing,
                  lost, exited, overtaken, raced, pc, at, todo, micro>>
    BY DEF sessionVars, view, registry, serviceVars
<1>2. policy' = policy /\ Keys' = Keys
    BY <1>1, KindStays
<1>3. EndedInv'
    BY <1>1 DEF EndedInv
<1>4. HeldInv' = HeldInv /\ OpenInv' = OpenInv /\ ReleasedInv' = ReleasedInv
    BY <1>1, <1>2, KindStays DEF HeldInv, OpenInv, ReleasedInv
<1>5. LostInv' = LostInv /\ AliveInv' = AliveInv
    BY <1>1, <1>2, KindStays DEF LostInv, AliveInv, Dropping
<1>6. DisconnectInv' = DisconnectInv /\ TimedInv' = TimedInv /\ FoundInv' = FoundInv
    BY <1>1, <1>2, KindStays DEF DisconnectInv, TimedInv, FoundInv, Opening
<1>. QED  BY <1>1, <1>2, <1>3, <1>4, <1>5, <1>6 DEF QuickInv

LEMMA InvStep ==
    ASSUME IInv, [SessionNext]_sessionVars
    PROVE  IInv'
<1>1. CASE SessionNext
    <2>1. TabInv
        BY DEF IInv, GeneralInv
    <2>. QED  BY <1>1, <2>1, TypeStep, GeneralStep, EndedStep, QuickStep DEF IInv
<1>2. CASE UNCHANGED sessionVars
    BY <1>2, TypeStutters, GeneralStutters, QuickStutters DEF IInv
<1>. QED  BY <1>1, <1>2

\* The inductive invariant of the session registry: how its operations, its
\* table and the sessions of the service belong together at every await.
THEOREM RegistryInvariant == SessionSpec => []IInv
BY StartInv, InvStep, PTL DEF SessionSpec

\* The variables of the registry, the views and the service keep their types.
THEOREM SessionTypes == SessionSpec => []SessionTypeOK
<1>1. IInv => SessionTypeOK
    BY DEF IInv, TypeInv
<1>. QED  BY <1>1, RegistryInvariant, PTL

\* The idle timer runs for the leases of the table that no tab borrows, and for
\* no others, whatever the policy and however slow the hooks
\* (session-registry.ts scheduleIdleClose, cancelIdleClose).
THEOREM TimersMatch == SessionSpec => []UnusedIffTimed
<1>1. IInv => UnusedIffTimed
    BY DEF IInv, GeneralInv
<1>. QED  BY <1>1, RegistryInvariant, PTL

\* Where hooks do not wait, and until an open races a disconnect, the sessions
\* open at the service are those of the table whenever no call is under way:
\* none leaks, and none is handed out that is gone.
THEOREM TablesAgree == SessionSpec => []TableMatchesService
<1>1. ASSUME IInv
      PROVE  TableMatchesService
    <2>. SUFFICES ASSUME ~policy.slow, ~raced, Settled
                  PROVE  remote \ overtaken = {leases[k][1] : k \in {h \in Keys : leases[h] # NoLease}} \ overtaken
        BY DEF TableMatchesService
    <2>1. TypeInv /\ AliveInv /\ FoundInv
        BY <1>1 DEF IInv, QuickInv
    <2>2. micro = <<>> /\ closing = {} /\ lost = {} /\ ~exited
        BY DEF Settled
    <2>3. Opening = {} /\ \A l : ~Dropping(l)
        BY <2>1, <2>2, QuietPlaces, QuietFacts DEF Dropping
    <2>4. \A s \in remote \ overtaken : \E k \in Keys : leases[k] # NoLease /\ leases[k][1] = s
        BY <2>1, <2>2, <2>3 DEF FoundInv
    <2>5. \A k \in Keys : leases[k] # NoLease => leases[k][1] \in remote \cup overtaken
        BY <2>1, <2>2, <2>3 DEF AliveInv
    <2>. QED  BY <2>4, <2>5
<1>. QED  BY <1>1, RegistryInvariant, PTL

\* Where hooks do not wait, a tab that was closed borrows nothing, unless it was
\* connecting when it was closed or connected again after it.
THEOREM BorrowersOpen == SessionSpec => []BorrowersAreOpen
<1>1. ASSUME IInv
      PROVE  BorrowersAreOpen
    <2>. SUFFICES ASSUME ~policy.slow, micro = <<>>,
                         NEW k \in Keys, leases[k] # NoLease, NEW t \in bound[leases[k]] \ stray
                  PROVE  tab[t] = "open"
        BY DEF BorrowersAreOpen
    <2>1. TypeInv /\ TabInv /\ ReleasedInv
        BY <1>1 DEF IInv, GeneralInv, QuickInv
    <2>2. leases[k] \in Leases /\ t \in Tabs
        BY <2>1 DEF TypeInv, SessionTypeOK
    <2>3. tab[t] # "closed"
        BY <2>1, <2>2, QuietFacts DEF ReleasedInv
    <2>4. tab[t] # "absent"
        BY <2>1, <2>2 DEF TabInv
    <2>. QED  BY <2>1, <2>2, <2>3, <2>4 DEF TypeInv, SessionTypeOK
<1>. QED  BY <1>1, RegistryInvariant, PTL

\* A tab whose kind gives it a session of its own is registered as the borrower
\* of the session it shows: closing the tab will close the session.
THEOREM OwnersRegistered == SessionSpec => []OwnerIsRegistered
<1>1. ASSUME IInv
      PROVE  OwnerIsRegistered
    <2>. SUFFICES ASSUME policy.sharing = "per_tab", ~policy.slow, ~raced, Settled, NEW t \in Tabs, Uses(t)
                  PROVE  getLeaseByTabId(t) # NoLease /\ getLeaseByTabId(t)[1] = shown[t]
        BY DEF OwnerIsRegistered
    <2>. DEFINE k == buildSessionKey(t)
                s == shown[t]
    <2>1. TypeInv /\ ClaimInv /\ OwnInv /\ FoundInv /\ KeyedInv /\ SessionTypeOK
        BY <1>1 DEF IInv, GeneralInv, QuickInv, TypeInv
    <2>2. micro = <<>> /\ closing = {} /\ tab[t] = "open" /\ s \in remote \ overtaken
        BY DEF Settled, Uses
    <2>3. k \in Keys /\ s \in Sessions
        BY <2>1, <2>2, KeysOfTabs DEF SessionTypeOK
    <2>4. PICK h \in Keys : leases[h] # NoLease /\ leases[h][1] = s
        BY <2>1, <2>2, QuietPlaces DEF FoundInv
    <2>5. h = k
        <3>1. leases[h] \in Leases /\ Used(leases[h]) /\ KeyOf(leases[h]) = h
            BY <2>1, <2>4, UsedHere DEF KeyedInv
        <3>2. Claim(s, h) /\ Claim(s, k)
            BY <2>4, <3>1 DEF Claim
        <3>. QED  BY <2>1, <2>3, <2>4, <3>2 DEF ClaimInv
    <2>6. t \in bound[leases[k]]
        BY <2>1, <2>2, <2>4, <2>5 DEF OwnInv
    <2>7. getLeaseByTabId(t) # NoLease
        BY <2>1, <2>3, <2>4, <2>5, <2>6, NotFound
    <2>. DEFINE l == getLeaseByTabId(t)
    <2>8. l \in Leases /\ t \in bound[l] /\ \E j \in Keys : leases[j] = l
        BY <2>1, <2>7, Found
    <2>. HIDE DEF l
    <2>9. leases[KeyOf(l)] = l /\ KeyOf(l) = k
        BY <2>1, <2>8, LeaseParts DEF KeyedInv
    <2>. QED  BY <2>4, <2>5, <2>7, <2>9 DEF l
<1>. QED  BY <1>1, RegistryInvariant, PTL

\* A step closes sessions of the table only, unless an open has raced a
\* disconnect: the race is the one way to break ClosesWhatIsRegistered.
ClosesUnlessRaced ==
    [][~policy.slow /\ ~raced => \A s \in closing' \ closing :
            \E k \in Keys : leases[k] # NoLease /\ leases[k][1] = s]_sessionVars

LEMMA ClosesOneOf ==
    ASSUME TypeInv, NEW l \in Leases, leases[KeyOf(l)] \in {l, NoLease},
           closing' \subseteq IF leases[KeyOf(l)] = NoLease THEN closing ELSE closing \cup {l[1]}
    PROVE  \A s \in closing' \ closing : \E k \in Keys : leases[k] # NoLease /\ leases[k][1] = s
BY KeysOfTabs, LeaseParts

\* Where hooks do not wait, session.close is called for sessions of the table,
\* by idle timers, releases and disconnect alike, unless an open raced a
\* disconnect (session-registry.ts finalizeClose).
THEOREM ClosesRegistered == SessionSpec => ClosesUnlessRaced
<1>. DEFINE Registered == \A s \in closing' \ closing : \E k \in Keys : leases[k] # NoLease /\ leases[k][1] = s
<1>1. ASSUME IInv, SessionNext, ~policy.slow, ~raced
      PROVE  Registered
    <2>1. TypeInv /\ HeldInv /\ DisconnectInv /\ TimedInv
        BY <1>1 DEF IInv, QuickInv
    <2>2. CASE closing' \subseteq closing
        BY <2>2
    <2>3. ASSUME NEW l \in Leases, IdleTimerFires(l)
          PROVE  Registered
        <3>1. l \in timer /\ finalizeClose(l)
            BY <2>3 DEF IdleTimerFires
        <3>2. leases[KeyOf(l)] = l /\ closing' = IF leases[KeyOf(l)] = NoLease THEN closing ELSE closing \cup {l[1]}
            BY <2>1, <3>1, Finalized DEF TimedInv, TypeInv
        <3>. QED  BY <2>1, <3>2, ClosesOneOf
    <2>4. CASE Resume
        <3>. DEFINE o == Head(micro)
        <3>1. micro # <<>>
            BY <2>4 DEF Resume
        <3>2. o \in Ops
            BY <2>1, <3>1, HeadOfQueue
        <3>3. CASE (o[1] = "close" /\ ResumeClose(o)) \/ (o[1] = "job" /\ ResumeRelease(o))
            <4>1. PICK force \in BOOLEAN : AfterRelease(o, force)
                BY <3>3 DEF ResumeClose, ResumeRelease
            <4>2. pc[o] = "cleanup" /\ o[1] # "drop"
                BY <3>3 DEF ResumeClose, ResumeRelease
            <4>3. at[o] \in Leases /\ o[2] \in Tabs /\ leases[KeyOf(at[o])] = at[o]
                BY <2>1, <3>2, <4>2, OpsAre DEF HeldInv, TypeInv, PlaceInv
            <4>4. closing' \subseteq IF leases[KeyOf(at[o])] = NoLease THEN closing ELSE closing \cup {at[o][1]}
                <5>. HIDE DEF o
                <5>. QED  BY <2>1, <3>2, <4>1, <4>3, Released DEF TypeInv
            <4>. QED  BY <2>1, <4>3, <4>4, ClosesOneOf
        <3>4. CASE o[1] = "drop" /\ ResumeDrop(o)
            <4>1. /\ at[o] \in Leases /\ pc[o] = "cleanup"
                  /\ closing' = IF o[2] = "disconnect" /\ leases[KeyOf(at[o])] # NoLease
                                THEN closing \cup {at[o][1]} ELSE closing
                BY <2>1, <3>1, <3>4, DropGoesOn
            <4>2. CASE o[2] # "disconnect"
                BY <4>1, <4>2
            <4>3. CASE o[2] = "disconnect"
                <5>1. o = <<"drop", "disconnect">>
                    BY <3>2, <3>4, <4>3, OpsAre
                <5>2. leases[KeyOf(at[o])] \in {at[o], NoLease}
                    BY <2>1, <4>1, <5>1 DEF DisconnectInv
                <5>. HIDE DEF o
                <5>. QED  BY <2>1, <4>1, <5>2, ClosesOneOf
            <4>. QED  BY <4>2, <4>3
        <3>5. CASE ResumeReconnect(o) \/ ResumeAcquire(o) \/ ResumeOpened(o) \/ ResumeDropClosed(o)
            BY <3>5 DEF ResumeReconnect, ResumeAcquire, ResumeOpened, ResumeDropClosed, serviceVars
        <3>. QED  BY <2>4, <3>3, <3>4, <3>5 DEF Resume
    <2>5. CASE UNCHANGED serviceVars
        BY <2>5 DEF serviceVars
    <2>6. ASSUME NEW t \in Tabs, OpenTab(t) \/ ProfileLoaded(t) \/ CloseTab(t) \/ Reconnect(t)
          PROVE  Registered
        BY <2>5, <2>6 DEF OpenTab, ProfileLoaded, CloseTab, Reconnect, Reconnecting
    <2>7. CASE RequestReconnect
        BY <2>5, <2>7 DEF RequestReconnect, Reconnecting
    <2>8. ASSUME NEW p \in Ops, HooksDone(p)
          PROVE  Registered
        BY <2>5, <2>8 DEF HooksDone
    <2>9. ASSUME NEW k \in Keys, OpenReturns(k) \/ OpenFails(k)
          PROVE  Registered
        BY <2>9 DEF OpenReturns, OpenFails, serviceVars
    <2>10. ASSUME NEW s \in Sessions, CloseReturns(s) \/ SessionDies(s)
           PROVE  Registered
        BY <2>10 DEF CloseReturns, SessionDies
    <2>11. CASE Disconnect \/ LostEvent \/ ServiceExits
        BY <2>11 DEF Disconnect, LostEvent, ServiceExits, serviceVars
    <2>. QED  BY <1>1, <2>3, <2>4, <2>6, <2>7, <2>8, <2>9, <2>10, <2>11 DEF SessionNext
<1>2. IInv /\ [SessionNext]_sessionVars => [~policy.slow /\ ~raced => Registered]_sessionVars
    BY <1>1
<1>. QED  BY <1>2, RegistryInvariant, PTL DEF SessionSpec, ClosesUnlessRaced
=============================================================================
