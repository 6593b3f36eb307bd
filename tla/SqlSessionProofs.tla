--------------------------- MODULE SqlSessionProofs ---------------------------
(* Proofs about SqlSession, for any statements, ids, handlers, connections *)
(* and limit of cursors.                                                   *)
EXTENDS SqlSession, TLAPS, FiniteSetTheorems

-----------------------------------------------------------------------------
(* Types.                                                                  *)

\* What the type invariant needs besides itself: a fetch knows its cursor.
TypeInv ==
    /\ SqlTypeOK
    /\ \A h \in Handlers : task[h] \in {"fetching", "removing"} => cursor[h] \in Statements

LEMMA SubsetFits ==
    ASSUME NEW S \in SUBSET resultSets, SqlTypeOK
    PROVE  Cardinality(S) <= MaxOpenResultSets
<1>1. IsFiniteSet(resultSets)
    BY SqlAssumption, FS_Subset DEF SqlTypeOK
<1>2. IsFiniteSet(S) /\ Cardinality(S) <= Cardinality(resultSets)
    BY <1>1, FS_Subset
<1>3. Cardinality(S) \in Nat /\ Cardinality(resultSets) \in Nat
    BY <1>1, <1>2, FS_CardinalityType
<1>. QED  BY <1>2, <1>3, SqlAssumption DEF SqlTypeOK

\* A cursor finds room, or takes the place of another.
LEMMA PutFits ==
    ASSUME SqlTypeOK, NEW s \in Statements, PutResultSet(s)
    PROVE  Cardinality(resultSets') <= MaxOpenResultSets
<1>1. IsFiniteSet(resultSets) /\ Cardinality(resultSets) \in Nat /\ MaxOpenResultSets \in Nat
    BY SqlAssumption, FS_Subset, FS_CardinalityType DEF SqlTypeOK
<1>2. CASE ~TableFull /\ resultSets' = resultSets \cup {s}
    <2>1. /\ Cardinality(resultSets') <= Cardinality(resultSets) + 1
          /\ Cardinality(resultSets') \in Nat
        BY <1>1, <1>2, FS_AddElement
    <2>. QED  BY <1>1, <1>2, <2>1 DEF TableFull
<1>3. CASE \E victim \in resultSets : resultSets' = (resultSets \ {victim}) \cup {s}
    <2>1. PICK victim \in resultSets : resultSets' = (resultSets \ {victim}) \cup {s}
        BY <1>3
    <2>. DEFINE rest == resultSets \ {victim}
    <2>2. IsFiniteSet(rest) /\ Cardinality(rest) = Cardinality(resultSets) - 1
        BY <1>1, <2>1, FS_RemoveElement
    <2>3. Cardinality(rest) \in Nat
        BY <2>2, FS_CardinalityType
    <2>. HIDE DEF rest
    <2>4. Cardinality(rest \cup {s}) =
              IF s \in rest THEN Cardinality(rest) ELSE Cardinality(rest) + 1
        BY <2>2, FS_AddElement
    <2>5. resultSets' = rest \cup {s}
        BY <2>1 DEF rest
    <2>6. Cardinality(resultSets) <= MaxOpenResultSets
        BY DEF SqlTypeOK
    <2>. QED  BY <1>1, <2>2, <2>3, <2>4, <2>5, <2>6
<1>. QED  BY <1>2, <1>3 DEF PutResultSet

LEMMA StepTypes ==
    ASSUME TypeInv, [SqlNext]_sqlVars
    PROVE  TypeInv'
<1>1. ASSUME NEW s \in Statements, Arrive(s)
      PROVE  TypeInv'
    BY <1>1, SqlAssumption DEF Arrive, Goto, TypeInv, SqlTypeOK, Active, Tasks, Goroutines,
        life, calls, lent, table, tx, handling, closing
<1>2. ASSUME NEW s \in Statements, Resolve(s)
      PROVE  TypeInv'
    BY <1>2, SqlAssumption DEF Resolve, Goto, TypeInv, SqlTypeOK, Active, Tasks, Goroutines,
        life, calls, lent, table, tx, handling, closing
<1>3. ASSUME NEW s \in Statements, CheckDb(s)
      PROVE  TypeInv'
    BY <1>3, SqlAssumption DEF CheckDb, Goto, TypeInv, SqlTypeOK, Active, Tasks, Goroutines,
        life, calls, lent, table, tx, handling, closing
<1>4. ASSUME NEW s \in Statements, RegisterQuery(s)
      PROVE  TypeInv'
    BY <1>4, SqlAssumption DEF RegisterQuery, Goto, TypeInv, SqlTypeOK, Active, Tasks,
        Goroutines, life, calls, lent, table, tx, handling, closing
<1>5. ASSUME NEW s \in Statements, AcquireTxConn(s)
      PROVE  TypeInv'
    <2>1. CASE txBusy
        BY <1>5, <2>1 DEF AcquireTxConn, Goto, TypeInv, SqlTypeOK, Active, Tasks, Goroutines,
            life, calls, lent, table, tx, handling, closing
    <2>2. CASE ~txBusy
        <3>1. txBusy' = TRUE /\ conn' = [conn EXCEPT ![s] = txConn]
              /\ sessionOwned' = sessionOwned \cup {s} /\ spc' = [spc EXCEPT ![s] = "acquired"]
            BY <1>5, <2>2 DEF AcquireTxConn, Goto
        <3>2. UNCHANGED <<life, rid, ownDb, table, resultSets, tx, handling, closing>>
            BY <1>5 DEF AcquireTxConn
        <3>. QED
            BY <3>1, <3>2 DEF TypeInv, SqlTypeOK, Active, Tasks, Goroutines, life, calls, lent,
                table, tx, handling, closing
    <2>. QED  BY <2>1, <2>2 DEF TypeInv, SqlTypeOK
<1>6. ASSUME NEW s \in Statements, WaitForConn(s)
      PROVE  TypeInv'
    BY <1>6, SqlAssumption DEF WaitForConn, Goto, UsesTx, TypeInv, SqlTypeOK, Active, Tasks,
        Goroutines, life, calls, lent, table, tx, handling, closing
<1>7. ASSUME NEW s \in Statements, AcquireConn(s)
      PROVE  TypeInv'
    BY <1>7, SqlAssumption DEF AcquireConn, Goto, FreeConns, TypeInv, SqlTypeOK, Active, Tasks,
        Goroutines, life, calls, lent, table, tx, handling, closing
<1>8. ASSUME NEW s \in Statements, AcquireFails(s)
      PROVE  TypeInv'
    BY <1>8, SqlAssumption DEF AcquireFails, Goto, TypeInv, SqlTypeOK, Active, Tasks,
        Goroutines, life, calls, lent, table, tx, handling, closing
<1>9. ASSUME NEW s \in Statements, Execute(s)
      PROVE  TypeInv'
    BY <1>9, SqlAssumption DEF Execute, Goto, TypeInv, SqlTypeOK, Active, Tasks, Goroutines,
        life, calls, lent, table, tx, handling, closing
<1>10. ASSUME NEW s \in Statements, Release(s)
      PROVE  TypeInv'
    BY <1>10, SqlAssumption DEF Release, Goto, ReturnConn, TypeInv, SqlTypeOK, Active, Tasks,
        Goroutines, life, calls, lent, table, tx, handling, closing
<1>11. ASSUME NEW s \in Statements, Cleanup(s)
      PROVE  TypeInv'
    BY <1>11, SqlAssumption DEF Cleanup, Goto, RemoveOwnEntry, TypeInv, SqlTypeOK, Active,
        Tasks, Goroutines, life, calls, lent, table, tx, handling, closing
<1>12. ASSUME NEW s \in Statements, ReadFirstPage(s)
      PROVE  TypeInv'
    BY <1>12, SqlAssumption DEF ReadFirstPage, Goto, FinishLocked, ReturnConn, TypeInv,
        SqlTypeOK, Active, Tasks, Goroutines, life, calls, lent, table, tx, handling, closing
<1>13. ASSUME NEW s \in Statements, CloseOwnCursor(s)
      PROVE  TypeInv'
    BY <1>13, SqlAssumption DEF CloseOwnCursor, Goto, FinishLocked, ReturnConn, TypeInv,
        SqlTypeOK, Active, Tasks, Goroutines, life, calls, lent, table, tx, handling, closing
<1>14. ASSUME NEW s \in Statements, Unregister(s)
      PROVE  TypeInv'
    BY <1>14, SqlAssumption DEF Unregister, Goto, RemoveOwnEntry, TypeInv, SqlTypeOK, Active,
        Tasks, Goroutines, life, calls, lent, table, tx, handling, closing
<1>15. ASSUME NEW s \in Statements, PutResultSet(s)
      PROVE  TypeInv'
    <2>1. Cardinality(resultSets') <= MaxOpenResultSets
        BY <1>15, PutFits DEF TypeInv
    <2>. QED  BY <1>15, <2>1, SMTT(30) DEF PutResultSet, Goto, TableFull, TypeInv, SqlTypeOK,
            Active, Tasks, Goroutines, life, calls, lent, table, tx, handling, closing
<1>16. ASSUME NEW s \in Statements, Timeout(s)
      PROVE  TypeInv'
    BY <1>16, SqlAssumption DEF Timeout, TypeInv, SqlTypeOK, Active, Tasks, Goroutines, life,
        calls, lent, table, tx, handling, closing
<1>17. ASSUME NEW h \in Handlers, Call(h)
      PROVE  TypeInv'
    BY <1>17, SqlAssumption DEF Call, Continue, Resumes, TypeInv, SqlTypeOK, Active, Tasks,
        Goroutines, life, calls, lent, table, tx, handling, closing
<1>18. ASSUME NEW h \in Handlers, Fetch(h)
      PROVE  TypeInv'
    BY <1>18, SqlAssumption DEF Fetch, Continue, TypeInv, SqlTypeOK, Active, Tasks, Goroutines,
        life, calls, lent, table, tx, handling, closing
<1>19. ASSUME NEW h \in Handlers, FetchPage(h)
      PROVE  TypeInv'
    <2>1. cursor[h] \in Statements
        BY <1>19 DEF FetchPage, TypeInv
    <2>2. CASE FinishLocked(cursor[h]) /\ Continue(h, "removing") /\ UNCHANGED cursor
        BY <1>19, <2>1, <2>2, SqlAssumption DEF FetchPage, FinishLocked, ReturnConn, Continue,
            TypeInv, SqlTypeOK, Active, Tasks, Goroutines, life, calls, lent, table, tx,
            handling, closing
    <2>3. CASE UNCHANGED lent /\ Continue(h, "removing") /\ UNCHANGED cursor
        BY <1>19, <2>1, <2>3, SqlAssumption DEF FetchPage, Continue, TypeInv, SqlTypeOK, Active,
            Tasks, Goroutines, life, calls, lent, table, tx, handling, closing
    <2>4. CASE UNCHANGED lent /\ Continue(h, "idle") /\ cursor' = [cursor EXCEPT ![h] = NoStmt]
        BY <1>19, <2>1, <2>4, SqlAssumption DEF FetchPage, Continue, TypeInv, SqlTypeOK, Active,
            Tasks, Goroutines, life, calls, lent, table, tx, handling, closing
    <2>. QED  BY <1>19, <2>2, <2>3, <2>4 DEF FetchPage
<1>20. ASSUME NEW h \in Handlers, RemoveResultSet(h)
      PROVE  TypeInv'
    <2>1. Cardinality(resultSets') <= MaxOpenResultSets
        <3>1. resultSets' \subseteq resultSets
            BY <1>20 DEF RemoveResultSet
        <3>. QED  BY <3>1, SubsetFits DEF TypeInv
    <2>. QED  BY <1>20, <2>1 DEF RemoveResultSet, Continue, TypeInv, SqlTypeOK, Active, Tasks,
            Goroutines, life, calls, lent, table, tx, handling, closing
<1>21. ASSUME NEW h \in Handlers, CloseResultSet(h)
      PROVE  TypeInv'
    <2>1. Cardinality(resultSets') <= MaxOpenResultSets
        <3>1. resultSets' \subseteq resultSets
            BY <1>21 DEF CloseResultSet
        <3>. QED  BY <3>1, SubsetFits DEF TypeInv
    <2>. QED  BY <1>21, <2>1 DEF CloseResultSet, Continue, Resumes, TypeInv, SqlTypeOK, Active,
            Tasks, Goroutines, life, calls, lent, table, tx, handling, closing
<1>22. ASSUME NEW h \in Handlers, CloseResultSets(h)
      PROVE  TypeInv'
    <2>1. Cardinality(resultSets') <= MaxOpenResultSets
        <3>1. resultSets' \subseteq resultSets
            BY <1>22 DEF CloseResultSets, CloseAllCursors
        <3>. QED  BY <3>1, SubsetFits DEF TypeInv
    <2>. QED  BY <1>22, <2>1 DEF CloseResultSets, CloseAllCursors, Continue, Resumes, TypeInv,
            SqlTypeOK, Active, Tasks, Goroutines, life, calls, lent, table, tx, handling, closing
<1>23. ASSUME NEW h \in Handlers, CancelQuery(h)
      PROVE  TypeInv'
    <2>1. Cardinality(resultSets') <= MaxOpenResultSets
        <3>1. resultSets' \subseteq resultSets
            BY <1>23 DEF CancelQuery, CancelIds
        <3>. QED  BY <3>1, SubsetFits DEF TypeInv
    <2>. QED  BY <1>23, <2>1 DEF CancelQuery, Continue, Resumes, CancelIds, TypeInv, SqlTypeOK,
            Active, Tasks, Goroutines, life, calls, lent, table, tx, handling, closing
<1>24. ASSUME NEW h \in Handlers, SetAutoCommit(h)
      PROVE  TypeInv'
    <2>1. Cardinality(resultSets') <= MaxOpenResultSets
        <3>1. resultSets' \subseteq resultSets
            BY <1>24 DEF SetAutoCommit, CloseAllCursors
        <3>. QED  BY <3>1, SubsetFits DEF TypeInv
    <2>. QED  BY <1>24, <2>1 DEF SetAutoCommit, CloseAllCursors, Continue, Resumes, TypeInv,
            SqlTypeOK, Active, Tasks, Goroutines, life, calls, lent, table, tx, handling, closing
<1>25. ASSUME NEW h \in Handlers, CheckBusy(h)
      PROVE  TypeInv'
    BY <1>25, SqlAssumption DEF CheckBusy, Continue, Resumes, TypeInv, SqlTypeOK, Active, Tasks,
        Goroutines, life, calls, lent, table, tx, handling, closing
<1>26. ASSUME NEW h \in Handlers, LeaveTx(h)
      PROVE  TypeInv'
    BY <1>26, SqlAssumption DEF LeaveTx, Continue, TypeInv, SqlTypeOK, Active, Tasks,
        Goroutines, life, calls, lent, table, tx, handling, closing
<1>27. ASSUME NEW h \in Handlers, ReturnTxConn(h)
      PROVE  TypeInv'
    BY <1>27, SqlAssumption, SMTT(30) DEF ReturnTxConn, Continue, TypeInv, SqlTypeOK, Active,
        Tasks, Goroutines, life, calls, lent, table, tx, handling, closing
<1>28. ASSUME NEW h \in Handlers, ResetTx(h)
      PROVE  TypeInv'
    BY <1>28, SqlAssumption DEF ResetTx, Continue, TypeInv, SqlTypeOK, Active, Tasks,
        Goroutines, life, calls, lent, table, tx, handling, closing
<1>29. ASSUME NEW h \in Handlers, EnterTx(h)
      PROVE  TypeInv'
    <2>1. CASE txConn # NoConn
        BY <1>29, <2>1 DEF EnterTx, Continue, TypeInv, SqlTypeOK, Active, Tasks, Goroutines,
            life, calls, lent, table, tx, handling, closing
    <2>2. CASE txConn = NoConn
        BY <1>29, <2>2, SMTT(30) DEF EnterTx, Continue, TypeInv, SqlTypeOK, Active, Tasks,
            Goroutines, life, calls, lent, table, tx, handling, closing
    <2>. QED  BY <2>1, <2>2
<1>30. ASSUME NEW h \in Handlers, TakeTxConn(h)
      PROVE  TypeInv'
    BY <1>30, SqlAssumption DEF TakeTxConn, FreeConns, Continue, TypeInv, SqlTypeOK, Active,
        Tasks, Goroutines, life, calls, lent, table, tx, handling, closing
<1>31. ASSUME NEW h \in Handlers, InstallTxConn(h)
      PROVE  TypeInv'
    BY <1>31, SqlAssumption DEF InstallTxConn, Continue, TypeInv, SqlTypeOK, Active, Tasks,
        Goroutines, life, calls, lent, table, tx, handling, closing
<1>32. ASSUME NEW h \in Handlers, SessionClose(h)
      PROVE  TypeInv'
    <2>1. Cardinality(resultSets') <= MaxOpenResultSets
        <3>1. resultSets' \subseteq resultSets
            BY <1>32 DEF SessionClose, CloseAllCursors
        <3>. QED  BY <3>1, SubsetFits DEF TypeInv
    <2>. QED  BY <1>32, <2>1 DEF SessionClose, CloseAllCursors, Continue, Resumes, TypeInv,
            SqlTypeOK, Active, Tasks, Goroutines, life, calls, lent, table, tx, handling, closing
<1>33. ASSUME NEW h \in Handlers, CancelAll(h)
      PROVE  TypeInv'
    <2>1. Cardinality(resultSets') <= MaxOpenResultSets
        <3>1. resultSets' \subseteq resultSets
            BY <1>33 DEF CancelAll, CancelIds
        <3>. QED  BY <3>1, SubsetFits DEF TypeInv
    <2>. QED  BY <1>33, <2>1 DEF CancelAll, Continue, Resumes, CancelIds, TypeInv, SqlTypeOK,
            Active, Tasks, Goroutines, life, calls, lent, table, tx, handling, closing
<1>34. ASSUME NEW h \in Handlers, DropTxConn(h)
      PROVE  TypeInv'
    BY <1>34, SqlAssumption DEF DropTxConn, Continue, Resumes, TypeInv, SqlTypeOK, Active,
        Tasks, Goroutines, life, calls, lent, table, tx, handling, closing
<1>35. ASSUME NEW h \in Handlers, CloseDb(h)
      PROVE  TypeInv'
    BY <1>35, SqlAssumption DEF CloseDb, Continue, TypeInv, SqlTypeOK, Active, Tasks,
        Goroutines, life, calls, lent, table, tx, handling, closing
<1>36. ASSUME NEW g \in Goroutines, ForceClose(g)
      PROVE  TypeInv'
    BY <1>36, SqlAssumption DEF ForceClose, FinishLocked, ReturnConn, TypeInv, SqlTypeOK,
        Active, Tasks, Goroutines, life, calls, lent, table, tx, handling, closing
<1>37. ASSUME NEW g \in Goroutines, CancelEntry(g)
      PROVE  TypeInv'
    BY <1>37, SqlAssumption DEF CancelEntry, TypeInv, SqlTypeOK, Active, Tasks, Goroutines,
        life, calls, lent, table, tx, handling, closing
<1>38. ASSUME NEW g \in Goroutines, ClearInflight(g)
      PROVE  TypeInv'
    BY <1>38, SqlAssumption DEF ClearInflight, TypeInv, SqlTypeOK, Active, Tasks, Goroutines,
        life, calls, lent, table, tx, handling, closing
<1>39. CASE UNCHANGED sqlVars
    BY <1>39, SqlAssumption DEF sqlVars, TypeInv, SqlTypeOK, Active, Tasks, Goroutines, life,
        calls, lent, table, tx, handling, closing
<1>40. ASSUME NEW s \in Statements, Refuse(s)
      PROVE  TypeInv'
    BY <1>40, SqlAssumption DEF Refuse, Goto, TypeInv, SqlTypeOK, Active, Tasks, Goroutines,
        life, calls, lent, table, tx, handling, closing
<1>. QED  BY <1>1, <1>2, <1>3, <1>4, <1>5, <1>6, <1>7, <1>8, <1>9, <1>10, <1>11, <1>12, <1>13,
        <1>14, <1>15, <1>16, <1>17, <1>18, <1>19, <1>20, <1>21, <1>22, <1>23, <1>24, <1>25,
        <1>26, <1>27, <1>28, <1>29, <1>30, <1>31, <1>32, <1>33, <1>34, <1>35, <1>36, <1>37,
        <1>38, <1>39, <1>40
        DEF SqlNext, Exec, Handle

LEMMA InitTypes == SqlInit => TypeInv
<1>. SUFFICES ASSUME SqlInit
              PROVE  TypeInv
    OBVIOUS
<1>1. Cardinality(resultSets) <= MaxOpenResultSets
    BY SqlAssumption, FS_EmptySet DEF SqlInit
<1>. QED  BY <1>1, SqlAssumption DEF SqlInit, TypeInv, SqlTypeOK, Active, Tasks, Goroutines

\* Every variable keeps its type, and the table its limit, whatever the
\* interleaving of evictions, removals and new cursors.
THEOREM SqlTypesCorrect == SqlSpec => []SqlTypeOK
<1>1. TypeInv => SqlTypeOK
    BY DEF TypeInv
<1>. QED  BY <1>1, InitTypes, StepTypes, PTL DEF SqlSpec

-----------------------------------------------------------------------------
(* Connections, pools and cancellation.                                    *)

\* Between a statement's connections, and while it waits for one, it has none.
WithoutConn == {"idle", "resolving", "resolved", "permitted", "refused", "registered",
                "waiting", "cleaning", "unregistering"}

\* A goroutine that goes to a cursor has nothing to close.
FetchInv == \A h \in Handlers : task[h] \in {"called", "fetching", "removing"} => hold[h] = {}

\* An evictor closes the cursor it is named for.
EvictInv == \A s \in Statements : hold[s] \subseteq {s}

ConnInv == \A s \in Statements : spc[s] \in WithoutConn => conn[s] = NoConn

UnregInv == \A s \in Statements : spc[s] = "unregistering" => s \notin ownDb

PlaceInv == FetchInv /\ EvictInv /\ ConnInv /\ UnregInv

\* The claim on the pinned connection has a holder, who has a connection.
BusyInv ==
    /\ \A s \in sessionOwned : conn[s] # NoConn
    /\ txBusy => sessionOwned # {}

\* Once no Close has yet to empty the table of a session that is gone, a
\* statement that still runs was counted as late.
LateInv ==
    /\ \A h \in Handlers : task[h] \in {"cancelAll", "dropTx", "closeDb"} => session # "open"
    /\ TableIsServed \/ \A s \in Statements : spc[s] \in Active => s \in late

KeptInv ==
    /\ \A s \in Statements : conn[s] # NoConn => Kept(s) \/ LeftBehind(s)
    /\ \A s \in ownDb : Kept(s) \/ LeftBehind(s) \/ spc[s] = "refused"

IInv ==
    /\ TypeInv
    /\ PlaceInv /\ BusyInv
    /\ LateInv /\ KeptInv /\ StatementsCancellable

LEMMA StepPlace ==
    ASSUME TypeInv, PlaceInv, [SqlNext]_sqlVars
    PROVE  PlaceInv'
<1>1. ASSUME NEW s \in Statements, Arrive(s)
      PROVE  PlaceInv'
    BY <1>1, SqlAssumption DEF Arrive, Goto, PlaceInv, FetchInv, EvictInv, ConnInv, WithoutConn,
        UnregInv, TypeInv, SqlTypeOK, Goroutines, life, calls, lent, table, tx, handling,
        closing
<1>2. ASSUME NEW s \in Statements, Resolve(s)
      PROVE  PlaceInv'
    BY <1>2, SqlAssumption DEF Resolve, Goto, PlaceInv, FetchInv, EvictInv, ConnInv,
        WithoutConn, UnregInv, TypeInv, SqlTypeOK, Goroutines, life, calls, lent, table, tx,
        handling, closing
<1>3. ASSUME NEW s \in Statements, CheckDb(s)
      PROVE  PlaceInv'
    BY <1>3, SqlAssumption DEF CheckDb, Goto, PlaceInv, FetchInv, EvictInv, ConnInv,
        WithoutConn, UnregInv, TypeInv, SqlTypeOK, Goroutines, life, calls, lent, table, tx,
        handling, closing
<1>4. ASSUME NEW s \in Statements, RegisterQuery(s)
      PROVE  PlaceInv'
    BY <1>4, SqlAssumption DEF RegisterQuery, Goto, PlaceInv, FetchInv, EvictInv, ConnInv,
        WithoutConn, UnregInv, TypeInv, SqlTypeOK, Goroutines, life, calls, lent, table, tx,
        handling, closing
<1>5. ASSUME NEW s \in Statements, AcquireTxConn(s)
      PROVE  PlaceInv'
    BY <1>5, SqlAssumption DEF AcquireTxConn, Goto, UsesTx, PlaceInv, FetchInv, EvictInv,
        ConnInv, WithoutConn, UnregInv, TypeInv, SqlTypeOK, Goroutines, life, calls, lent,
        table, tx, handling, closing
<1>6. ASSUME NEW s \in Statements, WaitForConn(s)
      PROVE  PlaceInv'
    BY <1>6, SqlAssumption DEF WaitForConn, Goto, UsesTx, PlaceInv, FetchInv, EvictInv, ConnInv,
        WithoutConn, UnregInv, TypeInv, SqlTypeOK, Goroutines, life, calls, lent, table, tx,
        handling, closing
<1>7. ASSUME NEW s \in Statements, AcquireConn(s)
      PROVE  PlaceInv'
    BY <1>7, SqlAssumption DEF AcquireConn, Goto, FreeConns, PlaceInv, FetchInv, EvictInv,
        ConnInv, WithoutConn, UnregInv, TypeInv, SqlTypeOK, Goroutines, life, calls, lent,
        table, tx, handling, closing
<1>8. ASSUME NEW s \in Statements, AcquireFails(s)
      PROVE  PlaceInv'
    BY <1>8, SqlAssumption DEF AcquireFails, Goto, PlaceInv, FetchInv, EvictInv, ConnInv,
        WithoutConn, UnregInv, TypeInv, SqlTypeOK, Goroutines, life, calls, lent, table, tx,
        handling, closing
<1>9. ASSUME NEW s \in Statements, Execute(s)
      PROVE  PlaceInv'
    BY <1>9, SqlAssumption DEF Execute, Goto, PlaceInv, FetchInv, EvictInv, ConnInv,
        WithoutConn, UnregInv, TypeInv, SqlTypeOK, Goroutines, life, calls, lent, table, tx,
        handling, closing
<1>10. ASSUME NEW s \in Statements, Release(s)
      PROVE  PlaceInv'
    BY <1>10, SqlAssumption DEF Release, Goto, ReturnConn, PlaceInv, FetchInv, EvictInv,
        ConnInv, WithoutConn, UnregInv, TypeInv, SqlTypeOK, Goroutines, life, calls, lent,
        table, tx, handling, closing
<1>11. ASSUME NEW s \in Statements, Cleanup(s)
      PROVE  PlaceInv'
    BY <1>11, SqlAssumption DEF Cleanup, Goto, RemoveOwnEntry, PlaceInv, FetchInv, EvictInv,
        ConnInv, WithoutConn, UnregInv, TypeInv, SqlTypeOK, Goroutines, life, calls, lent,
        table, tx, handling, closing
<1>12. ASSUME NEW s \in Statements, ReadFirstPage(s)
      PROVE  PlaceInv'
    BY <1>12, SqlAssumption DEF ReadFirstPage, Goto, FinishLocked, ReturnConn, PlaceInv,
        FetchInv, EvictInv, ConnInv, WithoutConn, UnregInv, TypeInv, SqlTypeOK, Goroutines,
        life, calls, lent, table, tx, handling, closing
<1>13. ASSUME NEW s \in Statements, CloseOwnCursor(s)
      PROVE  PlaceInv'
    BY <1>13, SqlAssumption DEF CloseOwnCursor, Goto, FinishLocked, ReturnConn, PlaceInv,
        FetchInv, EvictInv, ConnInv, WithoutConn, UnregInv, TypeInv, SqlTypeOK, Goroutines,
        life, calls, lent, table, tx, handling, closing
<1>14. ASSUME NEW s \in Statements, Unregister(s)
      PROVE  PlaceInv'
    BY <1>14, SqlAssumption DEF Unregister, Goto, RemoveOwnEntry, PlaceInv, FetchInv, EvictInv,
        ConnInv, WithoutConn, UnregInv, TypeInv, SqlTypeOK, Goroutines, life, calls, lent,
        table, tx, handling, closing
<1>15. ASSUME NEW s \in Statements, PutResultSet(s)
      PROVE  PlaceInv'
    BY <1>15, SqlAssumption, SMTT(30) DEF PutResultSet, Goto, TableFull, PlaceInv, FetchInv,
        EvictInv, ConnInv, WithoutConn, UnregInv, TypeInv, SqlTypeOK, Goroutines, life, calls,
        lent, table, tx, handling, closing
<1>16. ASSUME NEW s \in Statements, Timeout(s)
      PROVE  PlaceInv'
    BY <1>16, SqlAssumption DEF Timeout, PlaceInv, FetchInv, EvictInv, ConnInv, WithoutConn,
        UnregInv, TypeInv, SqlTypeOK, Goroutines, life, calls, lent, table, tx, handling,
        closing
<1>17. ASSUME NEW h \in Handlers, Call(h)
      PROVE  PlaceInv'
    BY <1>17, SqlAssumption DEF Call, Continue, Resumes, PlaceInv, FetchInv, EvictInv, ConnInv,
        WithoutConn, UnregInv, TypeInv, SqlTypeOK, Goroutines, life, calls, lent, table, tx,
        handling, closing
<1>18. ASSUME NEW h \in Handlers, Fetch(h)
      PROVE  PlaceInv'
    BY <1>18, SqlAssumption DEF Fetch, Continue, PlaceInv, FetchInv, EvictInv, ConnInv,
        WithoutConn, UnregInv, TypeInv, SqlTypeOK, Goroutines, life, calls, lent, table, tx,
        handling, closing
<1>19. ASSUME NEW h \in Handlers, FetchPage(h)
      PROVE  PlaceInv'
    BY <1>19, SqlAssumption, SMTT(30) DEF FetchPage, FinishLocked, ReturnConn, Continue,
        PlaceInv, FetchInv, EvictInv, ConnInv, WithoutConn, UnregInv, TypeInv, SqlTypeOK,
        Goroutines, life, calls, lent, table, tx, handling, closing
<1>20. ASSUME NEW h \in Handlers, RemoveResultSet(h)
      PROVE  PlaceInv'
    BY <1>20, SqlAssumption, SMTT(30) DEF RemoveResultSet, Continue, PlaceInv, FetchInv,
        EvictInv, ConnInv, WithoutConn, UnregInv, TypeInv, SqlTypeOK, Goroutines, life, calls,
        lent, table, tx, handling, closing
<1>21. ASSUME NEW h \in Handlers, CloseResultSet(h)
      PROVE  PlaceInv'
    BY <1>21, SqlAssumption DEF CloseResultSet, Continue, Resumes, PlaceInv, FetchInv, EvictInv,
        ConnInv, WithoutConn, UnregInv, TypeInv, SqlTypeOK, Goroutines, life, calls, lent,
        table, tx, handling, closing
<1>22. ASSUME NEW h \in Handlers, CloseResultSets(h)
      PROVE  PlaceInv'
    BY <1>22, SqlAssumption DEF CloseResultSets, CloseAllCursors, Continue, Resumes, PlaceInv,
        FetchInv, EvictInv, ConnInv, WithoutConn, UnregInv, TypeInv, SqlTypeOK, Goroutines,
        life, calls, lent, table, tx, handling, closing
<1>23. ASSUME NEW h \in Handlers, CancelQuery(h)
      PROVE  PlaceInv'
    BY <1>23, SqlAssumption, SMTT(30) DEF CancelQuery, Continue, Resumes, CancelIds, PlaceInv,
        FetchInv, EvictInv, ConnInv, WithoutConn, UnregInv, TypeInv, SqlTypeOK, Goroutines,
        life, calls, lent, table, tx, handling, closing
<1>24. ASSUME NEW h \in Handlers, SetAutoCommit(h)
      PROVE  PlaceInv'
    BY <1>24, SqlAssumption DEF SetAutoCommit, CloseAllCursors, Continue, Resumes, PlaceInv,
        FetchInv, EvictInv, ConnInv, WithoutConn, UnregInv, TypeInv, SqlTypeOK, Goroutines,
        life, calls, lent, table, tx, handling, closing
<1>25. ASSUME NEW h \in Handlers, CheckBusy(h)
      PROVE  PlaceInv'
    BY <1>25, SqlAssumption DEF CheckBusy, Continue, Resumes, PlaceInv, FetchInv, EvictInv,
        ConnInv, WithoutConn, UnregInv, TypeInv, SqlTypeOK, Goroutines, life, calls, lent,
        table, tx, handling, closing
<1>26. ASSUME NEW h \in Handlers, LeaveTx(h)
      PROVE  PlaceInv'
    BY <1>26, SqlAssumption DEF LeaveTx, Continue, PlaceInv, FetchInv, EvictInv, ConnInv,
        WithoutConn, UnregInv, TypeInv, SqlTypeOK, Goroutines, life, calls, lent, table, tx,
        handling, closing
<1>27. ASSUME NEW h \in Handlers, ReturnTxConn(h)
      PROVE  PlaceInv'
    BY <1>27, SqlAssumption DEF ReturnTxConn, Continue, PlaceInv, FetchInv, EvictInv, ConnInv,
        WithoutConn, UnregInv, TypeInv, SqlTypeOK, Goroutines, life, calls, lent, table, tx,
        handling, closing
<1>28. ASSUME NEW h \in Handlers, ResetTx(h)
      PROVE  PlaceInv'
    BY <1>28, SqlAssumption DEF ResetTx, Continue, PlaceInv, FetchInv, EvictInv, ConnInv,
        WithoutConn, UnregInv, TypeInv, SqlTypeOK, Goroutines, life, calls, lent, table, tx,
        handling, closing
<1>29. ASSUME NEW h \in Handlers, EnterTx(h)
      PROVE  PlaceInv'
    BY <1>29, SqlAssumption DEF EnterTx, Continue, PlaceInv, FetchInv, EvictInv, ConnInv,
        WithoutConn, UnregInv, TypeInv, SqlTypeOK, Goroutines, life, calls, lent, table, tx,
        handling, closing
<1>30. ASSUME NEW h \in Handlers, TakeTxConn(h)
      PROVE  PlaceInv'
    BY <1>30, SqlAssumption DEF TakeTxConn, FreeConns, Continue, PlaceInv, FetchInv, EvictInv,
        ConnInv, WithoutConn, UnregInv, TypeInv, SqlTypeOK, Goroutines, life, calls, lent,
        table, tx, handling, closing
<1>31. ASSUME NEW h \in Handlers, InstallTxConn(h)
      PROVE  PlaceInv'
    BY <1>31, SqlAssumption DEF InstallTxConn, Continue, PlaceInv, FetchInv, EvictInv, ConnInv,
        WithoutConn, UnregInv, TypeInv, SqlTypeOK, Goroutines, life, calls, lent, table, tx,
        handling, closing
<1>32. ASSUME NEW h \in Handlers, SessionClose(h)
      PROVE  PlaceInv'
    BY <1>32, SqlAssumption DEF SessionClose, CloseAllCursors, Continue, Resumes, PlaceInv,
        FetchInv, EvictInv, ConnInv, WithoutConn, UnregInv, TypeInv, SqlTypeOK, Goroutines,
        life, calls, lent, table, tx, handling, closing
<1>33. ASSUME NEW h \in Handlers, CancelAll(h)
      PROVE  PlaceInv'
    BY <1>33, SqlAssumption, SMTT(30) DEF CancelAll, Continue, Resumes, CancelIds, PlaceInv,
        FetchInv, EvictInv, ConnInv, WithoutConn, UnregInv, TypeInv, SqlTypeOK, Goroutines,
        life, calls, lent, table, tx, handling, closing
<1>34. ASSUME NEW h \in Handlers, DropTxConn(h)
      PROVE  PlaceInv'
    BY <1>34, SqlAssumption DEF DropTxConn, Continue, Resumes, PlaceInv, FetchInv, EvictInv,
        ConnInv, WithoutConn, UnregInv, TypeInv, SqlTypeOK, Goroutines, life, calls, lent,
        table, tx, handling, closing
<1>35. ASSUME NEW h \in Handlers, CloseDb(h)
      PROVE  PlaceInv'
    BY <1>35, SqlAssumption DEF CloseDb, Continue, PlaceInv, FetchInv, EvictInv, ConnInv,
        WithoutConn, UnregInv, TypeInv, SqlTypeOK, Goroutines, life, calls, lent, table, tx,
        handling, closing
<1>36. ASSUME NEW g \in Goroutines, ForceClose(g)
      PROVE  PlaceInv'
    BY <1>36, SqlAssumption DEF ForceClose, FinishLocked, ReturnConn, PlaceInv, FetchInv,
        EvictInv, ConnInv, WithoutConn, UnregInv, TypeInv, SqlTypeOK, Goroutines, life, calls,
        lent, table, tx, handling, closing
<1>37. ASSUME NEW g \in Goroutines, CancelEntry(g)
      PROVE  PlaceInv'
    BY <1>37, SqlAssumption DEF CancelEntry, PlaceInv, FetchInv, EvictInv, ConnInv, WithoutConn,
        UnregInv, TypeInv, SqlTypeOK, Goroutines, life, calls, lent, table, tx, handling,
        closing
<1>38. ASSUME NEW g \in Goroutines, ClearInflight(g)
      PROVE  PlaceInv'
    BY <1>38, SqlAssumption DEF ClearInflight, PlaceInv, FetchInv, EvictInv, ConnInv,
        WithoutConn, UnregInv, TypeInv, SqlTypeOK, Goroutines, life, calls, lent, table, tx,
        handling, closing
<1>39. CASE UNCHANGED sqlVars
    BY <1>39, SqlAssumption DEF sqlVars, PlaceInv, FetchInv, EvictInv, ConnInv, WithoutConn,
        UnregInv, TypeInv, SqlTypeOK, Goroutines, life, calls, lent, table, tx, handling,
        closing
<1>40. ASSUME NEW s \in Statements, Refuse(s)
      PROVE  PlaceInv'
    BY <1>40, SqlAssumption DEF Refuse, Goto, PlaceInv, FetchInv, EvictInv, ConnInv,
        WithoutConn, UnregInv, TypeInv, SqlTypeOK, Goroutines, life, calls, lent, table, tx,
        handling, closing
<1>. QED  BY <1>1, <1>2, <1>3, <1>4, <1>5, <1>6, <1>7, <1>8, <1>9, <1>10, <1>11, <1>12, <1>13,
        <1>14, <1>15, <1>16, <1>17, <1>18, <1>19, <1>20, <1>21, <1>22, <1>23, <1>24, <1>25,
        <1>26, <1>27, <1>28, <1>29, <1>30, <1>31, <1>32, <1>33, <1>34, <1>35, <1>36, <1>37,
        <1>38, <1>39, <1>40
        DEF SqlNext, Exec, Handle

\* A connection that goes back takes its claim with it.
LEMMA ReturnedClaim ==
    ASSUME TypeInv, BusyInv, NEW s \in Statements, ReturnConn(s)
    PROVE  BusyInv'
<1>1. \A t \in sessionOwned' : conn'[t] # NoConn
    BY DEF ReturnConn, BusyInv, TypeInv, SqlTypeOK
<1>2. ASSUME txBusy'
      PROVE  sessionOwned' # {}
    <2>1. txBusy /\ s \notin sessionOwned
        BY <1>2, Zenon DEF ReturnConn
    <2>2. sessionOwned' = sessionOwned \ {s}
        BY DEF ReturnConn
    <2>. QED  BY <2>1, <2>2 DEF BusyInv
<1>. QED  BY <1>1, <1>2 DEF BusyInv

LEMMA StepBusy ==
    ASSUME TypeInv, BusyInv, [SqlNext]_sqlVars
    PROVE  BusyInv'
<1>1. ASSUME NEW s \in Statements, Arrive(s)
      PROVE  BusyInv'
    BY <1>1, SqlAssumption DEF Arrive, Goto, BusyInv, TypeInv, SqlTypeOK, life, calls, lent,
        table, tx, handling, closing
<1>2. ASSUME NEW s \in Statements, Resolve(s)
      PROVE  BusyInv'
    BY <1>2, SqlAssumption DEF Resolve, Goto, BusyInv, TypeInv, SqlTypeOK, life, calls, lent,
        table, tx, handling, closing
<1>3. ASSUME NEW s \in Statements, CheckDb(s)
      PROVE  BusyInv'
    BY <1>3, SqlAssumption DEF CheckDb, Goto, BusyInv, TypeInv, SqlTypeOK, life, calls, lent,
        table, tx, handling, closing
<1>4. ASSUME NEW s \in Statements, RegisterQuery(s)
      PROVE  BusyInv'
    BY <1>4, SqlAssumption DEF RegisterQuery, Goto, BusyInv, TypeInv, SqlTypeOK, life, calls,
        lent, table, tx, handling, closing
<1>5. ASSUME NEW s \in Statements, AcquireTxConn(s)
      PROVE  BusyInv'
    BY <1>5, SqlAssumption DEF AcquireTxConn, Goto, UsesTx, BusyInv, TypeInv, SqlTypeOK, life,
        calls, lent, table, tx, handling, closing
<1>6. ASSUME NEW s \in Statements, WaitForConn(s)
      PROVE  BusyInv'
    BY <1>6, SqlAssumption DEF WaitForConn, Goto, UsesTx, BusyInv, TypeInv, SqlTypeOK, life,
        calls, lent, table, tx, handling, closing
<1>7. ASSUME NEW s \in Statements, AcquireConn(s)
      PROVE  BusyInv'
    BY <1>7, SqlAssumption DEF AcquireConn, Goto, FreeConns, BusyInv, TypeInv, SqlTypeOK, life,
        calls, lent, table, tx, handling, closing
<1>8. ASSUME NEW s \in Statements, AcquireFails(s)
      PROVE  BusyInv'
    BY <1>8, SqlAssumption DEF AcquireFails, Goto, BusyInv, TypeInv, SqlTypeOK, life, calls,
        lent, table, tx, handling, closing
<1>9. ASSUME NEW s \in Statements, Execute(s)
      PROVE  BusyInv'
    BY <1>9, SqlAssumption DEF Execute, Goto, BusyInv, TypeInv, SqlTypeOK, life, calls, lent,
        table, tx, handling, closing
<1>10. ASSUME NEW s \in Statements, Release(s)
      PROVE  BusyInv'
    BY <1>10, ReturnedClaim DEF Release
<1>11. ASSUME NEW s \in Statements, Cleanup(s)
      PROVE  BusyInv'
    BY <1>11, SqlAssumption DEF Cleanup, Goto, RemoveOwnEntry, BusyInv, TypeInv, SqlTypeOK,
        life, calls, lent, table, tx, handling, closing
<1>12. ASSUME NEW s \in Statements, ReadFirstPage(s)
      PROVE  BusyInv'
    <2>1. CASE UNCHANGED lent
        BY <2>1 DEF BusyInv, lent
    <2>2. CASE FinishLocked(s)
        BY <2>2, ReturnedClaim DEF FinishLocked
    <2>. QED  BY <1>12, <2>1, <2>2 DEF ReadFirstPage
<1>13. ASSUME NEW s \in Statements, CloseOwnCursor(s)
      PROVE  BusyInv'
    BY <1>13, ReturnedClaim DEF CloseOwnCursor, FinishLocked
<1>14. ASSUME NEW s \in Statements, Unregister(s)
      PROVE  BusyInv'
    BY <1>14, SqlAssumption DEF Unregister, Goto, RemoveOwnEntry, BusyInv, TypeInv, SqlTypeOK,
        life, calls, lent, table, tx, handling, closing
<1>15. ASSUME NEW s \in Statements, PutResultSet(s)
      PROVE  BusyInv'
    BY <1>15, SqlAssumption DEF PutResultSet, Goto, TableFull, BusyInv, TypeInv, SqlTypeOK,
        life, calls, lent, table, tx, handling, closing
<1>16. ASSUME NEW s \in Statements, Timeout(s)
      PROVE  BusyInv'
    BY <1>16, SqlAssumption DEF Timeout, BusyInv, TypeInv, SqlTypeOK, life, calls, lent, table,
        tx, handling, closing
<1>17. ASSUME NEW h \in Handlers, Call(h)
      PROVE  BusyInv'
    BY <1>17, SqlAssumption DEF Call, Continue, Resumes, BusyInv, TypeInv, SqlTypeOK, life,
        calls, lent, table, tx, handling, closing
<1>18. ASSUME NEW h \in Handlers, Fetch(h)
      PROVE  BusyInv'
    BY <1>18, SqlAssumption DEF Fetch, Continue, BusyInv, TypeInv, SqlTypeOK, life, calls, lent,
        table, tx, handling, closing
<1>19. ASSUME NEW h \in Handlers, FetchPage(h)
      PROVE  BusyInv'
    <2>1. CASE UNCHANGED lent
        BY <2>1 DEF BusyInv, lent
    <2>2. CASE conn[cursor[h]] # NoConn /\ FinishLocked(cursor[h]) /\ Continue(h, "removing")
        <3>1. cursor[h] \in Statements
            BY <1>19 DEF FetchPage, TypeInv
        <3>. QED  BY <2>2, <3>1, ReturnedClaim DEF FinishLocked
    <2>. QED  BY <1>19, <2>1, <2>2 DEF FetchPage
<1>20. ASSUME NEW h \in Handlers, RemoveResultSet(h)
      PROVE  BusyInv'
    BY <1>20, SqlAssumption DEF RemoveResultSet, Continue, BusyInv, TypeInv, SqlTypeOK, life,
        calls, lent, table, tx, handling, closing
<1>21. ASSUME NEW h \in Handlers, CloseResultSet(h)
      PROVE  BusyInv'
    BY <1>21, SqlAssumption DEF CloseResultSet, Continue, Resumes, BusyInv, TypeInv, SqlTypeOK,
        life, calls, lent, table, tx, handling, closing
<1>22. ASSUME NEW h \in Handlers, CloseResultSets(h)
      PROVE  BusyInv'
    BY <1>22, SqlAssumption DEF CloseResultSets, CloseAllCursors, Continue, Resumes, BusyInv,
        TypeInv, SqlTypeOK, life, calls, lent, table, tx, handling, closing
<1>23. ASSUME NEW h \in Handlers, CancelQuery(h)
      PROVE  BusyInv'
    BY <1>23, SqlAssumption DEF CancelQuery, Continue, Resumes, CancelIds, BusyInv, TypeInv,
        SqlTypeOK, life, calls, lent, table, tx, handling, closing
<1>24. ASSUME NEW h \in Handlers, SetAutoCommit(h)
      PROVE  BusyInv'
    BY <1>24, SqlAssumption DEF SetAutoCommit, CloseAllCursors, Continue, Resumes, BusyInv,
        TypeInv, SqlTypeOK, life, calls, lent, table, tx, handling, closing
<1>25. ASSUME NEW h \in Handlers, CheckBusy(h)
      PROVE  BusyInv'
    BY <1>25, SqlAssumption DEF CheckBusy, Continue, Resumes, BusyInv, TypeInv, SqlTypeOK, life,
        calls, lent, table, tx, handling, closing
<1>26. ASSUME NEW h \in Handlers, LeaveTx(h)
      PROVE  BusyInv'
    BY <1>26, SqlAssumption DEF LeaveTx, Continue, BusyInv, TypeInv, SqlTypeOK, life, calls,
        lent, table, tx, handling, closing
<1>27. ASSUME NEW h \in Handlers, ReturnTxConn(h)
      PROVE  BusyInv'
    BY <1>27, SqlAssumption DEF ReturnTxConn, Continue, BusyInv, TypeInv, SqlTypeOK, life,
        calls, lent, table, tx, handling, closing
<1>28. ASSUME NEW h \in Handlers, ResetTx(h)
      PROVE  BusyInv'
    BY <1>28, SqlAssumption DEF ResetTx, Continue, BusyInv, TypeInv, SqlTypeOK, life, calls,
        lent, table, tx, handling, closing
<1>29. ASSUME NEW h \in Handlers, EnterTx(h)
      PROVE  BusyInv'
    BY <1>29, SqlAssumption DEF EnterTx, Continue, BusyInv, TypeInv, SqlTypeOK, life, calls,
        lent, table, tx, handling, closing
<1>30. ASSUME NEW h \in Handlers, TakeTxConn(h)
      PROVE  BusyInv'
    BY <1>30, SqlAssumption DEF TakeTxConn, FreeConns, Continue, BusyInv, TypeInv, SqlTypeOK,
        life, calls, lent, table, tx, handling, closing
<1>31. ASSUME NEW h \in Handlers, InstallTxConn(h)
      PROVE  BusyInv'
    BY <1>31, SqlAssumption DEF InstallTxConn, Continue, BusyInv, TypeInv, SqlTypeOK, life,
        calls, lent, table, tx, handling, closing
<1>32. ASSUME NEW h \in Handlers, SessionClose(h)
      PROVE  BusyInv'
    BY <1>32, SqlAssumption DEF SessionClose, CloseAllCursors, Continue, Resumes, BusyInv,
        TypeInv, SqlTypeOK, life, calls, lent, table, tx, handling, closing
<1>33. ASSUME NEW h \in Handlers, CancelAll(h)
      PROVE  BusyInv'
    BY <1>33, SqlAssumption DEF CancelAll, Continue, Resumes, CancelIds, BusyInv, TypeInv,
        SqlTypeOK, life, calls, lent, table, tx, handling, closing
<1>34. ASSUME NEW h \in Handlers, DropTxConn(h)
      PROVE  BusyInv'
    BY <1>34, SqlAssumption DEF DropTxConn, Continue, Resumes, BusyInv, TypeInv, SqlTypeOK,
        life, calls, lent, table, tx, handling, closing
<1>35. ASSUME NEW h \in Handlers, CloseDb(h)
      PROVE  BusyInv'
    BY <1>35, SqlAssumption DEF CloseDb, Continue, BusyInv, TypeInv, SqlTypeOK, life, calls,
        lent, table, tx, handling, closing
<1>36. ASSUME NEW g \in Goroutines, ForceClose(g)
      PROVE  BusyInv'
    <2>1. PICK c \in hold[g] : FinishLocked(c)
        BY <1>36 DEF ForceClose
    <2>2. c \in Statements
        BY <2>1 DEF TypeInv, SqlTypeOK
    <2>. QED  BY <2>1, <2>2, ReturnedClaim DEF FinishLocked
<1>37. ASSUME NEW g \in Goroutines, CancelEntry(g)
      PROVE  BusyInv'
    BY <1>37, SqlAssumption DEF CancelEntry, BusyInv, TypeInv, SqlTypeOK, life, calls, lent,
        table, tx, handling, closing
<1>38. ASSUME NEW g \in Goroutines, ClearInflight(g)
      PROVE  BusyInv'
    BY <1>38, SqlAssumption DEF ClearInflight, BusyInv, TypeInv, SqlTypeOK, life, calls, lent,
        table, tx, handling, closing
<1>39. CASE UNCHANGED sqlVars
    BY <1>39, SqlAssumption DEF sqlVars, BusyInv, TypeInv, SqlTypeOK, life, calls, lent, table,
        tx, handling, closing
<1>40. ASSUME NEW s \in Statements, Refuse(s)
      PROVE  BusyInv'
    BY <1>40, SqlAssumption DEF Refuse, Goto, BusyInv, TypeInv, SqlTypeOK, life, calls, lent,
        table, tx, handling, closing
<1>. QED  BY <1>1, <1>2, <1>3, <1>4, <1>5, <1>6, <1>7, <1>8, <1>9, <1>10, <1>11, <1>12, <1>13,
        <1>14, <1>15, <1>16, <1>17, <1>18, <1>19, <1>20, <1>21, <1>22, <1>23, <1>24, <1>25,
        <1>26, <1>27, <1>28, <1>29, <1>30, <1>31, <1>32, <1>33, <1>34, <1>35, <1>36, <1>37,
        <1>38, <1>39, <1>40
        DEF SqlNext, Exec, Handle

LEMMA StepLate ==
    ASSUME TypeInv, LateInv, [SqlNext]_sqlVars
    PROVE  LateInv'
<1>1. ASSUME NEW s \in Statements, Arrive(s)
      PROVE  LateInv'
    BY <1>1 DEF Arrive, Goto, Continue, Resumes, LateInv, TableIsServed, Active, TypeInv,
        SqlTypeOK, life, calls, handling
<1>2. ASSUME NEW s \in Statements, Resolve(s)
      PROVE  LateInv'
    BY <1>2 DEF Resolve, Goto, Continue, Resumes, LateInv, TableIsServed, Active, TypeInv,
        SqlTypeOK, life, calls, handling
<1>3. ASSUME NEW s \in Statements, CheckDb(s)
      PROVE  LateInv'
    BY <1>3 DEF CheckDb, Goto, Continue, Resumes, LateInv, TableIsServed, Active, TypeInv,
        SqlTypeOK, life, calls, handling
<1>4. ASSUME NEW s \in Statements, RegisterQuery(s)
      PROVE  LateInv'
    BY <1>4 DEF RegisterQuery, Goto, Continue, Resumes, LateInv, TableIsServed, Active, TypeInv,
        SqlTypeOK, life, calls, handling
<1>5. ASSUME NEW s \in Statements, AcquireTxConn(s)
      PROVE  LateInv'
    BY <1>5 DEF AcquireTxConn, Goto, Continue, Resumes, LateInv, TableIsServed, Active, TypeInv,
        SqlTypeOK, life, calls, handling
<1>6. ASSUME NEW s \in Statements, WaitForConn(s)
      PROVE  LateInv'
    BY <1>6 DEF WaitForConn, Goto, Continue, Resumes, LateInv, TableIsServed, Active, TypeInv,
        SqlTypeOK, life, calls, handling
<1>7. ASSUME NEW s \in Statements, AcquireConn(s)
      PROVE  LateInv'
    BY <1>7 DEF AcquireConn, Goto, Continue, Resumes, LateInv, TableIsServed, Active, TypeInv,
        SqlTypeOK, life, calls, handling
<1>8. ASSUME NEW s \in Statements, AcquireFails(s)
      PROVE  LateInv'
    BY <1>8 DEF AcquireFails, Goto, Continue, Resumes, LateInv, TableIsServed, Active, TypeInv,
        SqlTypeOK, life, calls, handling
<1>9. ASSUME NEW s \in Statements, Execute(s)
      PROVE  LateInv'
    BY <1>9 DEF Execute, Goto, Continue, Resumes, LateInv, TableIsServed, Active, TypeInv,
        SqlTypeOK, life, calls, handling
<1>10. ASSUME NEW s \in Statements, Release(s)
      PROVE  LateInv'
    BY <1>10 DEF Release, Goto, Continue, Resumes, LateInv, TableIsServed, Active, TypeInv,
        SqlTypeOK, life, calls, handling
<1>11. ASSUME NEW s \in Statements, Cleanup(s)
      PROVE  LateInv'
    BY <1>11 DEF Cleanup, Goto, Continue, Resumes, LateInv, TableIsServed, Active, TypeInv,
        SqlTypeOK, life, calls, handling
<1>12. ASSUME NEW s \in Statements, ReadFirstPage(s)
      PROVE  LateInv'
    BY <1>12 DEF ReadFirstPage, Goto, Continue, Resumes, LateInv, TableIsServed, Active,
        TypeInv, SqlTypeOK, life, calls, handling
<1>13. ASSUME NEW s \in Statements, CloseOwnCursor(s)
      PROVE  LateInv'
    BY <1>13 DEF CloseOwnCursor, Goto, Continue, Resumes, LateInv, TableIsServed, Active,
        TypeInv, SqlTypeOK, life, calls, handling
<1>14. ASSUME NEW s \in Statements, Unregister(s)
      PROVE  LateInv'
    BY <1>14 DEF Unregister, Goto, Continue, Resumes, LateInv, TableIsServed, Active, TypeInv,
        SqlTypeOK, life, calls, handling
<1>15. ASSUME NEW s \in Statements, PutResultSet(s)
      PROVE  LateInv'
    BY <1>15 DEF PutResultSet, Goto, Continue, Resumes, LateInv, TableIsServed, Active, TypeInv,
        SqlTypeOK, life, calls, handling
<1>16. ASSUME NEW s \in Statements, Timeout(s)
      PROVE  LateInv'
    BY <1>16 DEF Timeout, Goto, Continue, Resumes, LateInv, TableIsServed, Active, TypeInv,
        SqlTypeOK, life, calls, handling
<1>17. ASSUME NEW h \in Handlers, Call(h)
      PROVE  LateInv'
    BY <1>17 DEF Call, Goto, Continue, Resumes, LateInv, TableIsServed, Active, TypeInv,
        SqlTypeOK, life, calls, handling
<1>18. ASSUME NEW h \in Handlers, Fetch(h)
      PROVE  LateInv'
    BY <1>18 DEF Fetch, Goto, Continue, Resumes, LateInv, TableIsServed, Active, TypeInv,
        SqlTypeOK, life, calls, handling
<1>19. ASSUME NEW h \in Handlers, FetchPage(h)
      PROVE  LateInv'
    BY <1>19 DEF FetchPage, Goto, Continue, Resumes, LateInv, TableIsServed, Active, TypeInv,
        SqlTypeOK, life, calls, handling
<1>20. ASSUME NEW h \in Handlers, RemoveResultSet(h)
      PROVE  LateInv'
    BY <1>20 DEF RemoveResultSet, Goto, Continue, Resumes, LateInv, TableIsServed, Active,
        TypeInv, SqlTypeOK, life, calls, handling
<1>21. ASSUME NEW h \in Handlers, CloseResultSet(h)
      PROVE  LateInv'
    BY <1>21 DEF CloseResultSet, Goto, Continue, Resumes, LateInv, TableIsServed, Active,
        TypeInv, SqlTypeOK, life, calls, handling
<1>22. ASSUME NEW h \in Handlers, CloseResultSets(h)
      PROVE  LateInv'
    BY <1>22 DEF CloseResultSets, Goto, Continue, Resumes, LateInv, TableIsServed, Active,
        TypeInv, SqlTypeOK, life, calls, handling
<1>23. ASSUME NEW h \in Handlers, CancelQuery(h)
      PROVE  LateInv'
    BY <1>23 DEF CancelQuery, Goto, Continue, Resumes, LateInv, TableIsServed, Active, TypeInv,
        SqlTypeOK, life, calls, handling
<1>24. ASSUME NEW h \in Handlers, SetAutoCommit(h)
      PROVE  LateInv'
    BY <1>24 DEF SetAutoCommit, Goto, Continue, Resumes, LateInv, TableIsServed, Active,
        TypeInv, SqlTypeOK, life, calls, handling
<1>25. ASSUME NEW h \in Handlers, CheckBusy(h)
      PROVE  LateInv'
    BY <1>25 DEF CheckBusy, Goto, Continue, Resumes, LateInv, TableIsServed, Active, TypeInv,
        SqlTypeOK, life, calls, handling
<1>26. ASSUME NEW h \in Handlers, LeaveTx(h)
      PROVE  LateInv'
    BY <1>26 DEF LeaveTx, Goto, Continue, Resumes, LateInv, TableIsServed, Active, TypeInv,
        SqlTypeOK, life, calls, handling
<1>27. ASSUME NEW h \in Handlers, ReturnTxConn(h)
      PROVE  LateInv'
    BY <1>27 DEF ReturnTxConn, Goto, Continue, Resumes, LateInv, TableIsServed, Active, TypeInv,
        SqlTypeOK, life, calls, handling
<1>28. ASSUME NEW h \in Handlers, ResetTx(h)
      PROVE  LateInv'
    BY <1>28 DEF ResetTx, Goto, Continue, Resumes, LateInv, TableIsServed, Active, TypeInv,
        SqlTypeOK, life, calls, handling
<1>29. ASSUME NEW h \in Handlers, EnterTx(h)
      PROVE  LateInv'
    BY <1>29 DEF EnterTx, Goto, Continue, Resumes, LateInv, TableIsServed, Active, TypeInv,
        SqlTypeOK, life, calls, handling
<1>30. ASSUME NEW h \in Handlers, TakeTxConn(h)
      PROVE  LateInv'
    BY <1>30 DEF TakeTxConn, Goto, Continue, Resumes, LateInv, TableIsServed, Active, TypeInv,
        SqlTypeOK, life, calls, handling
<1>31. ASSUME NEW h \in Handlers, InstallTxConn(h)
      PROVE  LateInv'
    BY <1>31 DEF InstallTxConn, Goto, Continue, Resumes, LateInv, TableIsServed, Active,
        TypeInv, SqlTypeOK, life, calls, handling
<1>32. ASSUME NEW h \in Handlers, SessionClose(h)
      PROVE  LateInv'
    BY <1>32 DEF SessionClose, Goto, Continue, Resumes, LateInv, TableIsServed, Active, TypeInv,
        SqlTypeOK, life, calls, handling
<1>33. ASSUME NEW h \in Handlers, CancelAll(h)
      PROVE  LateInv'
    BY <1>33 DEF CancelAll, Goto, Continue, Resumes, LateInv, TableIsServed, Active, TypeInv,
        SqlTypeOK, life, calls, handling
<1>34. ASSUME NEW h \in Handlers, DropTxConn(h)
      PROVE  LateInv'
    BY <1>34 DEF DropTxConn, Goto, Continue, Resumes, LateInv, TableIsServed, Active, TypeInv,
        SqlTypeOK, life, calls, handling
<1>35. ASSUME NEW h \in Handlers, CloseDb(h)
      PROVE  LateInv'
    BY <1>35 DEF CloseDb, Goto, Continue, Resumes, LateInv, TableIsServed, Active, TypeInv,
        SqlTypeOK, life, calls, handling
<1>36. ASSUME NEW g \in Goroutines, ForceClose(g)
      PROVE  LateInv'
    BY <1>36 DEF ForceClose, Goto, Continue, Resumes, LateInv, TableIsServed, Active, TypeInv,
        SqlTypeOK, life, calls, handling
<1>37. ASSUME NEW g \in Goroutines, CancelEntry(g)
      PROVE  LateInv'
    BY <1>37 DEF CancelEntry, Goto, Continue, Resumes, LateInv, TableIsServed, Active, TypeInv,
        SqlTypeOK, life, calls, handling
<1>38. ASSUME NEW g \in Goroutines, ClearInflight(g)
      PROVE  LateInv'
    BY <1>38 DEF ClearInflight, Goto, Continue, Resumes, LateInv, TableIsServed, Active,
        TypeInv, SqlTypeOK, life, calls, handling
<1>40. ASSUME NEW s \in Statements, Refuse(s)
      PROVE  LateInv'
    BY <1>40 DEF Refuse, Goto, Continue, Resumes, LateInv, TableIsServed, Active, TypeInv,
        SqlTypeOK, life, calls, handling
<1>39. CASE UNCHANGED sqlVars
    BY <1>39 DEF sqlVars, LateInv, TableIsServed, life, calls, handling
<1>. QED  BY <1>1, <1>2, <1>3, <1>4, <1>5, <1>6, <1>7, <1>8, <1>9, <1>10, <1>11, <1>12,
        <1>13, <1>14, <1>15, <1>16, <1>17, <1>18, <1>19, <1>20, <1>21, <1>22, <1>23,
        <1>24, <1>25, <1>26, <1>27, <1>28, <1>29, <1>30, <1>31, <1>32, <1>33, <1>34,
        <1>35, <1>36, <1>37, <1>38, <1>39, <1>40
        DEF SqlNext, Exec, Handle

\* A step that moves no cursor, statement, connection or pool keeps it so.
LEMMA KeptFrame ==
    ASSUME KeptInv, TableIsServed => TableIsServed',
           UNCHANGED <<spc, conn, ownDb, resultSets, hold, late>>
    PROVE  KeptInv'
BY DEF KeptInv, Kept, LeftBehind

LEMMA StepKept ==
    ASSUME TypeInv, PlaceInv, LateInv, KeptInv, [SqlNext]_sqlVars
    PROVE  KeptInv'
<1>1. ASSUME NEW s \in Statements, Arrive(s)
      PROVE  KeptInv'
    <2>1. TableIsServed => TableIsServed'
        BY <1>1 DEF Arrive, TableIsServed, life, handling
    <2>. QED
        BY <1>1, <2>1, SqlAssumption, SMTT(30) DEF Arrive, Goto, KeptInv, Kept, LeftBehind,
            Active, PlaceInv, FetchInv, EvictInv, ConnInv, WithoutConn, UnregInv, TypeInv,
            SqlTypeOK, Goroutines, life, calls, lent, table, tx, handling, closing
<1>2. ASSUME NEW s \in Statements, Resolve(s)
      PROVE  KeptInv'
    <2>1. TableIsServed => TableIsServed'
        BY <1>2 DEF Resolve, TableIsServed, life, handling
    <2>. QED
        BY <1>2, <2>1, SqlAssumption, SMTT(30) DEF Resolve, Goto, KeptInv, Kept, LeftBehind,
            Active, PlaceInv, FetchInv, EvictInv, ConnInv, WithoutConn, UnregInv, TypeInv,
            SqlTypeOK, Goroutines, life, calls, lent, table, tx, handling, closing
<1>3. ASSUME NEW s \in Statements, CheckDb(s)
      PROVE  KeptInv'
    <2>1. TableIsServed => TableIsServed'
        BY <1>3 DEF CheckDb, TableIsServed, life, handling
    <2>. QED
        BY <1>3, <2>1, SqlAssumption, SMTT(30) DEF CheckDb, Goto, KeptInv, Kept, LeftBehind,
            Active, PlaceInv, FetchInv, EvictInv, ConnInv, WithoutConn, UnregInv, TypeInv,
            SqlTypeOK, Goroutines, life, calls, lent, table, tx, handling, closing
<1>4. ASSUME NEW s \in Statements, RegisterQuery(s)
      PROVE  KeptInv'
    <2>1. TableIsServed => TableIsServed'
        BY <1>4 DEF RegisterQuery, TableIsServed, life, handling
    <2>. QED
        BY <1>4, <2>1, SqlAssumption, SMTT(30) DEF RegisterQuery, Goto, KeptInv, Kept,
            LeftBehind, Active, PlaceInv, FetchInv, EvictInv, ConnInv, WithoutConn,
            UnregInv, TypeInv, SqlTypeOK, Goroutines, life, calls, lent, table, tx,
            handling, closing
<1>5. ASSUME NEW s \in Statements, AcquireTxConn(s)
      PROVE  KeptInv'
    <2>1. TableIsServed => TableIsServed'
        BY <1>5 DEF AcquireTxConn, TableIsServed, life, handling
    <2>. QED
        BY <1>5, <2>1, SqlAssumption, SMTT(30) DEF AcquireTxConn, Goto, UsesTx, KeptInv, Kept,
            LeftBehind, Active, PlaceInv, FetchInv, EvictInv, ConnInv, WithoutConn,
            UnregInv, TypeInv, SqlTypeOK, Goroutines, life, calls, lent, table, tx,
            handling, closing
<1>6. ASSUME NEW s \in Statements, WaitForConn(s)
      PROVE  KeptInv'
    <2>1. TableIsServed => TableIsServed'
        BY <1>6 DEF WaitForConn, TableIsServed, life, handling
    <2>. QED
        BY <1>6, <2>1, SqlAssumption, SMTT(30) DEF WaitForConn, Goto, UsesTx, KeptInv, Kept,
            LeftBehind, Active, PlaceInv, FetchInv, EvictInv, ConnInv, WithoutConn,
            UnregInv, TypeInv, SqlTypeOK, Goroutines, life, calls, lent, table, tx,
            handling, closing
<1>7. ASSUME NEW s \in Statements, AcquireConn(s)
      PROVE  KeptInv'
    <2>1. TableIsServed => TableIsServed'
        BY <1>7 DEF AcquireConn, TableIsServed, life, handling
    <2>. QED
        BY <1>7, <2>1, SqlAssumption, SMTT(30) DEF AcquireConn, Goto, FreeConns, KeptInv, Kept,
            LeftBehind, Active, PlaceInv, FetchInv, EvictInv, ConnInv, WithoutConn,
            UnregInv, TypeInv, SqlTypeOK, Goroutines, life, calls, lent, table, tx,
            handling, closing
<1>8. ASSUME NEW s \in Statements, AcquireFails(s)
      PROVE  KeptInv'
    <2>1. TableIsServed => TableIsServed'
        BY <1>8 DEF AcquireFails, TableIsServed, life, handling
    <2>. QED
        BY <1>8, <2>1, SqlAssumption, SMTT(30) DEF AcquireFails, Goto, KeptInv, Kept,
            LeftBehind, Active, PlaceInv, FetchInv, EvictInv, ConnInv, WithoutConn,
            UnregInv, TypeInv, SqlTypeOK, Goroutines, life, calls, lent, table, tx,
            handling, closing
<1>9. ASSUME NEW s \in Statements, Execute(s)
      PROVE  KeptInv'
    <2>1. TableIsServed => TableIsServed'
        BY <1>9 DEF Execute, TableIsServed, life, handling
    <2>. QED
        BY <1>9, <2>1, SqlAssumption, SMTT(30) DEF Execute, Goto, KeptInv, Kept, LeftBehind,
            Active, PlaceInv, FetchInv, EvictInv, ConnInv, WithoutConn, UnregInv, TypeInv,
            SqlTypeOK, Goroutines, life, calls, lent, table, tx, handling, closing
<1>10. ASSUME NEW s \in Statements, Release(s)
      PROVE  KeptInv'
    <2>1. TableIsServed => TableIsServed'
        BY <1>10 DEF Release, TableIsServed, life, handling
    <2>. QED
        BY <1>10, <2>1, SqlAssumption, SMTT(30) DEF Release, Goto, ReturnConn, KeptInv, Kept,
            LeftBehind, Active, PlaceInv, FetchInv, EvictInv, ConnInv, WithoutConn,
            UnregInv, TypeInv, SqlTypeOK, Goroutines, life, calls, lent, table, tx,
            handling, closing
<1>11. ASSUME NEW s \in Statements, Cleanup(s)
      PROVE  KeptInv'
    <2>1. TableIsServed => TableIsServed'
        BY <1>11 DEF Cleanup, TableIsServed, life, handling
    <2>. QED
        BY <1>11, <2>1, SqlAssumption, SMTT(30) DEF Cleanup, Goto, RemoveOwnEntry, KeptInv,
            Kept, LeftBehind, Active, PlaceInv, FetchInv, EvictInv, ConnInv, WithoutConn,
            UnregInv, TypeInv, SqlTypeOK, Goroutines, life, calls, lent, table, tx,
            handling, closing
<1>12. ASSUME NEW s \in Statements, ReadFirstPage(s)
      PROVE  KeptInv'
    <2>1. TableIsServed => TableIsServed'
        BY <1>12 DEF ReadFirstPage, TableIsServed, life, handling
    <2>. QED
        BY <1>12, <2>1, SqlAssumption, SMTT(30) DEF ReadFirstPage, Goto, FinishLocked,
            ReturnConn, KeptInv, Kept, LeftBehind, Active, PlaceInv, FetchInv, EvictInv,
            ConnInv, WithoutConn, UnregInv, TypeInv, SqlTypeOK, Goroutines, life, calls,
            lent, table, tx, handling, closing
<1>13. ASSUME NEW s \in Statements, CloseOwnCursor(s)
      PROVE  KeptInv'
    <2>1. TableIsServed => TableIsServed'
        BY <1>13 DEF CloseOwnCursor, TableIsServed, life, handling
    <2>. QED
        BY <1>13, <2>1, SqlAssumption, SMTT(30) DEF CloseOwnCursor, Goto, FinishLocked,
            ReturnConn, KeptInv, Kept, LeftBehind, Active, PlaceInv, FetchInv, EvictInv,
            ConnInv, WithoutConn, UnregInv, TypeInv, SqlTypeOK, Goroutines, life, calls,
            lent, table, tx, handling, closing
<1>14. ASSUME NEW s \in Statements, Unregister(s)
      PROVE  KeptInv'
    <2>1. TableIsServed => TableIsServed'
        BY <1>14 DEF Unregister, TableIsServed, life, handling
    <2>. QED
        BY <1>14, <2>1, SqlAssumption, SMTT(30) DEF Unregister, Goto, RemoveOwnEntry, KeptInv,
            Kept, LeftBehind, Active, PlaceInv, FetchInv, EvictInv, ConnInv, WithoutConn,
            UnregInv, TypeInv, SqlTypeOK, Goroutines, life, calls, lent, table, tx,
            handling, closing
<1>15. ASSUME NEW s \in Statements, PutResultSet(s)
      PROVE  KeptInv'
    <2>1. TableIsServed => TableIsServed'
        BY <1>15 DEF PutResultSet, TableIsServed, life, handling
    <2>2. TableIsServed \/ s \in late
        BY <1>15 DEF PutResultSet, LateInv, Active
    <2>. QED
        BY <1>15, <2>1, SqlAssumption, SMTT(30) DEF PutResultSet, LateInv, Goto, TableFull,
            KeptInv, Kept, LeftBehind, Active, PlaceInv, FetchInv, EvictInv, ConnInv,
            WithoutConn, UnregInv, TypeInv, SqlTypeOK, Goroutines, life, calls, lent, table,
            tx, handling, closing
<1>16. ASSUME NEW s \in Statements, Timeout(s)
      PROVE  KeptInv'
    <2>1. TableIsServed => TableIsServed'
        BY <1>16 DEF Timeout, TableIsServed, life, handling
    <2>2. UNCHANGED <<spc, conn, ownDb, resultSets, hold, late>>
        BY <1>16 DEF Timeout, life, calls, lent, closing
    <2>. QED  BY <2>1, <2>2, KeptFrame
<1>17. ASSUME NEW h \in Handlers, Call(h)
      PROVE  KeptInv'
    <2>1. TableIsServed => TableIsServed'
        BY <1>17 DEF Call, Continue, Resumes, TableIsServed, TypeInv, SqlTypeOK, life, handling
    <2>2. UNCHANGED <<spc, conn, ownDb, resultSets, hold, late>>
        BY <1>17 DEF Call, Continue, life, calls, lent, closing
    <2>. QED  BY <2>1, <2>2, KeptFrame
<1>18. ASSUME NEW h \in Handlers, Fetch(h)
      PROVE  KeptInv'
    <2>1. TableIsServed => TableIsServed'
        BY <1>18 DEF Fetch, Continue, Resumes, TableIsServed, TypeInv, SqlTypeOK, life, handling
    <2>2. UNCHANGED <<spc, conn, ownDb, resultSets, hold, late>>
        BY <1>18 DEF Fetch, Continue, life, calls, lent, closing
    <2>. QED  BY <2>1, <2>2, KeptFrame
<1>19. ASSUME NEW h \in Handlers, FetchPage(h)
      PROVE  KeptInv'
    <2>1. TableIsServed => TableIsServed'
        BY <1>19 DEF FetchPage, Continue, Resumes, TableIsServed, TypeInv, SqlTypeOK, life,
            handling
    <2>. QED
        BY <1>19, <2>1, SqlAssumption, SMTT(30) DEF FetchPage, FinishLocked, ReturnConn,
            Continue, KeptInv, Kept, LeftBehind, Active, PlaceInv, FetchInv, EvictInv,
            ConnInv, WithoutConn, UnregInv, TypeInv, SqlTypeOK, Goroutines, life, calls,
            lent, table, tx, handling, closing
<1>20. ASSUME NEW h \in Handlers, RemoveResultSet(h)
      PROVE  KeptInv'
    <2>1. TableIsServed => TableIsServed'
        BY <1>20 DEF RemoveResultSet, Continue, Resumes, TableIsServed, TypeInv, SqlTypeOK,
            life, handling
    <2>. QED
        BY <1>20, <2>1, SqlAssumption, SMTT(30) DEF RemoveResultSet, Continue, KeptInv, Kept,
            LeftBehind, Active, PlaceInv, FetchInv, EvictInv, ConnInv, WithoutConn,
            UnregInv, TypeInv, SqlTypeOK, Goroutines, life, calls, lent, table, tx,
            handling, closing
<1>21. ASSUME NEW h \in Handlers, CloseResultSet(h)
      PROVE  KeptInv'
    <2>1. TableIsServed => TableIsServed'
        BY <1>21 DEF CloseResultSet, Continue, Resumes, TableIsServed, TypeInv, SqlTypeOK, life,
            handling
    <2>. QED
        BY <1>21, <2>1, SqlAssumption, SMTT(30) DEF CloseResultSet, Continue, Resumes, KeptInv,
            Kept, LeftBehind, Active, PlaceInv, FetchInv, EvictInv, ConnInv, WithoutConn,
            UnregInv, TypeInv, SqlTypeOK, Goroutines, life, calls, lent, table, tx,
            handling, closing
<1>22. ASSUME NEW h \in Handlers, CloseResultSets(h)
      PROVE  KeptInv'
    <2>1. TableIsServed => TableIsServed'
        BY <1>22 DEF CloseResultSets, Continue, Resumes, TableIsServed, TypeInv, SqlTypeOK,
            life, handling
    <2>. QED
        BY <1>22, <2>1, SqlAssumption, SMTT(30) DEF CloseResultSets, CloseAllCursors, Continue,
            Resumes, KeptInv, Kept, LeftBehind, Active, PlaceInv, FetchInv, EvictInv,
            ConnInv, WithoutConn, UnregInv, TypeInv, SqlTypeOK, Goroutines, life, calls,
            lent, table, tx, handling, closing
<1>23. ASSUME NEW h \in Handlers, CancelQuery(h)
      PROVE  KeptInv'
    <2>1. TableIsServed => TableIsServed'
        BY <1>23 DEF CancelQuery, Continue, Resumes, TableIsServed, TypeInv, SqlTypeOK, life,
            handling
    <2>2. UNCHANGED <<spc, conn, ownDb, late>>
        BY <1>23 DEF CancelQuery, life, calls, lent
    <2>3. \A g \in Goroutines : hold[g] \subseteq hold'[g]
        BY <1>23, SMTT(30) DEF CancelQuery, CancelIds, Resumes, TypeInv, SqlTypeOK, Goroutines
    <2>4. h \in Goroutines /\ \A s \in resultSets : s \in resultSets' \/ s \in hold'[h]
        BY <1>23, SMTT(30) DEF CancelQuery, CancelIds, TypeInv, SqlTypeOK, Goroutines
    <2>. QED  BY <2>1, <2>2, <2>3, <2>4 DEF KeptInv, Kept, LeftBehind
<1>24. ASSUME NEW h \in Handlers, SetAutoCommit(h)
      PROVE  KeptInv'
    <2>1. TableIsServed => TableIsServed'
        BY <1>24 DEF SetAutoCommit, Continue, Resumes, TableIsServed, TypeInv, SqlTypeOK, life,
            handling
    <2>. QED
        BY <1>24, <2>1, SqlAssumption, SMTT(30) DEF SetAutoCommit, CloseAllCursors, Continue,
            Resumes, KeptInv, Kept, LeftBehind, Active, PlaceInv, FetchInv, EvictInv,
            ConnInv, WithoutConn, UnregInv, TypeInv, SqlTypeOK, Goroutines, life, calls,
            lent, table, tx, handling, closing
<1>25. ASSUME NEW h \in Handlers, CheckBusy(h)
      PROVE  KeptInv'
    <2>1. TableIsServed => TableIsServed'
        BY <1>25 DEF CheckBusy, Continue, Resumes, TableIsServed, TypeInv, SqlTypeOK, life,
            handling
    <2>2. UNCHANGED <<spc, conn, ownDb, resultSets, hold, late>>
        BY <1>25 DEF CheckBusy, Continue, life, calls, lent, closing
    <2>. QED  BY <2>1, <2>2, KeptFrame
<1>26. ASSUME NEW h \in Handlers, LeaveTx(h)
      PROVE  KeptInv'
    <2>1. TableIsServed => TableIsServed'
        BY <1>26 DEF LeaveTx, Continue, Resumes, TableIsServed, TypeInv, SqlTypeOK, life,
            handling
    <2>2. UNCHANGED <<spc, conn, ownDb, resultSets, hold, late>>
        BY <1>26 DEF LeaveTx, Continue, life, calls, lent, closing
    <2>. QED  BY <2>1, <2>2, KeptFrame
<1>27. ASSUME NEW h \in Handlers, ReturnTxConn(h)
      PROVE  KeptInv'
    <2>1. TableIsServed => TableIsServed'
        BY <1>27 DEF ReturnTxConn, Continue, Resumes, TableIsServed, TypeInv, SqlTypeOK, life,
            handling
    <2>2. UNCHANGED <<spc, conn, ownDb, resultSets, hold, late>>
        BY <1>27 DEF ReturnTxConn, Continue, life, calls, lent, closing
    <2>. QED  BY <2>1, <2>2, KeptFrame
<1>28. ASSUME NEW h \in Handlers, ResetTx(h)
      PROVE  KeptInv'
    <2>1. TableIsServed => TableIsServed'
        BY <1>28 DEF ResetTx, Continue, Resumes, TableIsServed, TypeInv, SqlTypeOK, life,
            handling
    <2>2. UNCHANGED <<spc, conn, ownDb, resultSets, hold, late>>
        BY <1>28 DEF ResetTx, Continue, life, calls, lent, closing
    <2>. QED  BY <2>1, <2>2, KeptFrame
<1>29. ASSUME NEW h \in Handlers, EnterTx(h)
      PROVE  KeptInv'
    <2>1. TableIsServed => TableIsServed'
        BY <1>29 DEF EnterTx, Continue, Resumes, TableIsServed, TypeInv, SqlTypeOK, life,
            handling
    <2>2. UNCHANGED <<spc, conn, ownDb, resultSets, hold, late>>
        BY <1>29 DEF EnterTx, Continue, life, calls, lent, closing
    <2>. QED  BY <2>1, <2>2, KeptFrame
<1>30. ASSUME NEW h \in Handlers, TakeTxConn(h)
      PROVE  KeptInv'
    <2>1. TableIsServed => TableIsServed'
        BY <1>30 DEF TakeTxConn, Continue, Resumes, TableIsServed, TypeInv, SqlTypeOK, life,
            handling
    <2>2. UNCHANGED <<spc, conn, ownDb, resultSets, hold, late>>
        BY <1>30 DEF TakeTxConn, Continue, life, calls, lent, closing
    <2>. QED  BY <2>1, <2>2, KeptFrame
<1>31. ASSUME NEW h \in Handlers, InstallTxConn(h)
      PROVE  KeptInv'
    <2>1. TableIsServed => TableIsServed'
        BY <1>31 DEF InstallTxConn, Continue, Resumes, TableIsServed, TypeInv, SqlTypeOK, life,
            handling
    <2>2. UNCHANGED <<spc, conn, ownDb, resultSets, hold, late>>
        BY <1>31 DEF InstallTxConn, Continue, life, calls, lent, closing
    <2>. QED  BY <2>1, <2>2, KeptFrame
<1>32. ASSUME NEW h \in Handlers, SessionClose(h)
      PROVE  KeptInv'
    BY <1>32, SqlAssumption, SMTT(30) DEF SessionClose, CloseAllCursors, Continue, Resumes,
        KeptInv, Kept, LeftBehind, TableIsServed, Active, PlaceInv, FetchInv, EvictInv, ConnInv,
        WithoutConn, UnregInv, TypeInv, SqlTypeOK, Goroutines, life, calls, lent, table, tx,
        handling, closing
<1>33. ASSUME NEW h \in Handlers, CancelAll(h)
      PROVE  KeptInv'
    BY <1>33, SqlAssumption, SMTT(30) DEF CancelAll, Continue, Resumes, CancelIds, KeptInv,
        Kept, LeftBehind, TableIsServed, Active, PlaceInv, FetchInv, EvictInv, ConnInv,
        WithoutConn, UnregInv, TypeInv, SqlTypeOK, Goroutines, life, calls, lent, table, tx,
        handling, closing
<1>34. ASSUME NEW h \in Handlers, DropTxConn(h)
      PROVE  KeptInv'
    <2>1. TableIsServed => TableIsServed'
        BY <1>34 DEF DropTxConn, Continue, Resumes, TableIsServed, TypeInv, SqlTypeOK, life,
            handling
    <2>2. UNCHANGED <<spc, conn, ownDb, resultSets, hold, late>>
        BY <1>34 DEF DropTxConn, Continue, life, calls, lent, closing
    <2>. QED  BY <2>1, <2>2, KeptFrame
<1>35. ASSUME NEW h \in Handlers, CloseDb(h)
      PROVE  KeptInv'
    <2>1. TableIsServed => TableIsServed'
        BY <1>35 DEF CloseDb, Continue, Resumes, LateInv, TableIsServed, TypeInv, SqlTypeOK,
            life, handling
    <2>. QED
        BY <1>35, <2>1, SqlAssumption, SMTT(30) DEF CloseDb, LateInv, Continue, KeptInv, Kept,
            LeftBehind, Active, PlaceInv, FetchInv, EvictInv, ConnInv, WithoutConn,
            UnregInv, TypeInv, SqlTypeOK, Goroutines, life, calls, lent, table, tx,
            handling, closing
<1>36. ASSUME NEW g \in Goroutines, ForceClose(g)
      PROVE  KeptInv'
    <2>1. TableIsServed => TableIsServed'
        BY <1>36 DEF ForceClose, TableIsServed, life, handling
    <2>. QED
        BY <1>36, <2>1, SqlAssumption, SMTT(30) DEF ForceClose, FinishLocked, ReturnConn,
            KeptInv, Kept, LeftBehind, Active, PlaceInv, FetchInv, EvictInv, ConnInv,
            WithoutConn, UnregInv, TypeInv, SqlTypeOK, Goroutines, life, calls, lent, table,
            tx, handling, closing
<1>37. ASSUME NEW g \in Goroutines, CancelEntry(g)
      PROVE  KeptInv'
    <2>1. TableIsServed => TableIsServed'
        BY <1>37 DEF CancelEntry, TableIsServed, life, handling
    <2>2. UNCHANGED <<spc, conn, ownDb, resultSets, hold, late>>
        BY <1>37 DEF CancelEntry, life, calls, lent, closing
    <2>. QED  BY <2>1, <2>2, KeptFrame
<1>38. ASSUME NEW g \in Goroutines, ClearInflight(g)
      PROVE  KeptInv'
    <2>1. TableIsServed => TableIsServed'
        BY <1>38 DEF ClearInflight, TableIsServed, life, handling
    <2>2. UNCHANGED <<spc, conn, ownDb, resultSets, hold, late>>
        BY <1>38 DEF ClearInflight, life, calls, lent, closing
    <2>. QED  BY <2>1, <2>2, KeptFrame
<1>39. CASE UNCHANGED sqlVars
    BY <1>39, SqlAssumption, SMTT(30) DEF sqlVars, KeptInv, Kept, LeftBehind, TableIsServed,
        Active, PlaceInv, FetchInv, EvictInv, ConnInv, WithoutConn, UnregInv, TypeInv,
        SqlTypeOK, Goroutines, life, calls, lent, table, tx, handling, closing
<1>40. ASSUME NEW s \in Statements, Refuse(s)
      PROVE  KeptInv'
    <2>1. TableIsServed => TableIsServed'
        BY <1>40 DEF Refuse, TableIsServed, life, handling
    <2>. QED
        BY <1>40, <2>1, SqlAssumption, SMTT(30) DEF Refuse, Goto, KeptInv, Kept, LeftBehind,
            Active, PlaceInv, FetchInv, EvictInv, ConnInv, WithoutConn, UnregInv, TypeInv,
            SqlTypeOK, Goroutines, life, calls, lent, table, tx, handling, closing
<1>. QED  BY <1>1, <1>2, <1>3, <1>4, <1>5, <1>6, <1>7, <1>8, <1>9, <1>10, <1>11, <1>12, <1>13,
        <1>14, <1>15, <1>16, <1>17, <1>18, <1>19, <1>20, <1>21, <1>22, <1>23, <1>24, <1>25,
        <1>26, <1>27, <1>28, <1>29, <1>30, <1>31, <1>32, <1>33, <1>34, <1>35, <1>36, <1>37,
        <1>38, <1>39, <1>40
        DEF SqlNext, Exec, Handle

LEMMA StepCancellable ==
    ASSUME TypeInv, PlaceInv, StatementsCancellable, [SqlNext]_sqlVars
    PROVE  StatementsCancellable'
<1>1. ASSUME NEW s \in Statements, Arrive(s)
      PROVE  StatementsCancellable'
    BY <1>1, SqlAssumption DEF Arrive, Goto, StatementsCancellable, Live, PlaceInv, ConnInv,
        WithoutConn, TypeInv, SqlTypeOK, Goroutines, life, calls, lent, table, tx, handling,
        closing
<1>2. ASSUME NEW s \in Statements, Resolve(s)
      PROVE  StatementsCancellable'
    BY <1>2, SqlAssumption DEF Resolve, Goto, StatementsCancellable, Live, PlaceInv, ConnInv,
        WithoutConn, TypeInv, SqlTypeOK, Goroutines, life, calls, lent, table, tx, handling,
        closing
<1>3. ASSUME NEW s \in Statements, CheckDb(s)
      PROVE  StatementsCancellable'
    BY <1>3, SqlAssumption DEF CheckDb, Goto, StatementsCancellable, Live, PlaceInv, ConnInv,
        WithoutConn, TypeInv, SqlTypeOK, Goroutines, life, calls, lent, table, tx, handling,
        closing
<1>4. ASSUME NEW s \in Statements, RegisterQuery(s)
      PROVE  StatementsCancellable'
    BY <1>4, SqlAssumption DEF RegisterQuery, Goto, StatementsCancellable, Live, PlaceInv,
        ConnInv, WithoutConn, TypeInv, SqlTypeOK, Goroutines, life, calls, lent, table, tx,
        handling, closing
<1>5. ASSUME NEW s \in Statements, AcquireTxConn(s)
      PROVE  StatementsCancellable'
    BY <1>5, SqlAssumption DEF AcquireTxConn, Goto, UsesTx, StatementsCancellable, Live,
        PlaceInv, ConnInv, WithoutConn, TypeInv, SqlTypeOK, Goroutines, life, calls, lent,
        table, tx, handling, closing
<1>6. ASSUME NEW s \in Statements, WaitForConn(s)
      PROVE  StatementsCancellable'
    BY <1>6, SqlAssumption DEF WaitForConn, Goto, UsesTx, StatementsCancellable, Live, PlaceInv,
        ConnInv, WithoutConn, TypeInv, SqlTypeOK, Goroutines, life, calls, lent, table, tx,
        handling, closing
<1>7. ASSUME NEW s \in Statements, AcquireConn(s)
      PROVE  StatementsCancellable'
    BY <1>7, SqlAssumption DEF AcquireConn, Goto, FreeConns, StatementsCancellable, Live,
        PlaceInv, ConnInv, WithoutConn, TypeInv, SqlTypeOK, Goroutines, life, calls, lent,
        table, tx, handling, closing
<1>8. ASSUME NEW s \in Statements, AcquireFails(s)
      PROVE  StatementsCancellable'
    BY <1>8, SqlAssumption DEF AcquireFails, Goto, StatementsCancellable, Live, PlaceInv,
        ConnInv, WithoutConn, TypeInv, SqlTypeOK, Goroutines, life, calls, lent, table, tx,
        handling, closing
<1>9. ASSUME NEW s \in Statements, Execute(s)
      PROVE  StatementsCancellable'
    BY <1>9, SqlAssumption DEF Execute, Goto, StatementsCancellable, Live, PlaceInv, ConnInv,
        WithoutConn, TypeInv, SqlTypeOK, Goroutines, life, calls, lent, table, tx, handling,
        closing
<1>10. ASSUME NEW s \in Statements, Release(s)
      PROVE  StatementsCancellable'
    BY <1>10, SqlAssumption DEF Release, Goto, ReturnConn, StatementsCancellable, Live,
        PlaceInv, ConnInv, WithoutConn, TypeInv, SqlTypeOK, Goroutines, life, calls, lent,
        table, tx, handling, closing
<1>11. ASSUME NEW s \in Statements, Cleanup(s)
      PROVE  StatementsCancellable'
    BY <1>11, SqlAssumption DEF Cleanup, Goto, RemoveOwnEntry, StatementsCancellable, Live,
        PlaceInv, ConnInv, WithoutConn, TypeInv, SqlTypeOK, Goroutines, life, calls, lent,
        table, tx, handling, closing
<1>12. ASSUME NEW s \in Statements, ReadFirstPage(s)
      PROVE  StatementsCancellable'
    BY <1>12, SqlAssumption DEF ReadFirstPage, Goto, FinishLocked, ReturnConn,
        StatementsCancellable, Live, PlaceInv, ConnInv, WithoutConn, TypeInv, SqlTypeOK,
        Goroutines, life, calls, lent, table, tx, handling, closing
<1>13. ASSUME NEW s \in Statements, CloseOwnCursor(s)
      PROVE  StatementsCancellable'
    BY <1>13, SqlAssumption DEF CloseOwnCursor, Goto, FinishLocked, ReturnConn,
        StatementsCancellable, Live, PlaceInv, ConnInv, WithoutConn, TypeInv, SqlTypeOK,
        Goroutines, life, calls, lent, table, tx, handling, closing
<1>14. ASSUME NEW s \in Statements, Unregister(s)
      PROVE  StatementsCancellable'
    BY <1>14, SqlAssumption DEF Unregister, Goto, RemoveOwnEntry, StatementsCancellable, Live,
        PlaceInv, ConnInv, WithoutConn, TypeInv, SqlTypeOK, Goroutines, life, calls, lent,
        table, tx, handling, closing
<1>15. ASSUME NEW s \in Statements, PutResultSet(s)
      PROVE  StatementsCancellable'
    BY <1>15, SqlAssumption, SMTT(30) DEF PutResultSet, Goto, TableFull, StatementsCancellable,
        Live, PlaceInv, ConnInv, WithoutConn, TypeInv, SqlTypeOK, Goroutines, life, calls, lent,
        table, tx, handling, closing
<1>16. ASSUME NEW s \in Statements, Timeout(s)
      PROVE  StatementsCancellable'
    BY <1>16, SqlAssumption DEF Timeout, StatementsCancellable, Live, PlaceInv, ConnInv,
        WithoutConn, TypeInv, SqlTypeOK, Goroutines, life, calls, lent, table, tx, handling,
        closing
<1>17. ASSUME NEW h \in Handlers, Call(h)
      PROVE  StatementsCancellable'
    BY <1>17, SqlAssumption DEF Call, Continue, Resumes, StatementsCancellable, Live, PlaceInv,
        ConnInv, WithoutConn, TypeInv, SqlTypeOK, Goroutines, life, calls, lent, table, tx,
        handling, closing
<1>18. ASSUME NEW h \in Handlers, Fetch(h)
      PROVE  StatementsCancellable'
    BY <1>18, SqlAssumption DEF Fetch, Continue, StatementsCancellable, Live, PlaceInv, ConnInv,
        WithoutConn, TypeInv, SqlTypeOK, Goroutines, life, calls, lent, table, tx, handling,
        closing
<1>19. ASSUME NEW h \in Handlers, FetchPage(h)
      PROVE  StatementsCancellable'
    BY <1>19, SqlAssumption, SMTT(30) DEF FetchPage, FinishLocked, ReturnConn, Continue,
        StatementsCancellable, Live, PlaceInv, ConnInv, WithoutConn, TypeInv, SqlTypeOK,
        Goroutines, life, calls, lent, table, tx, handling, closing
<1>20. ASSUME NEW h \in Handlers, RemoveResultSet(h)
      PROVE  StatementsCancellable'
    BY <1>20, SqlAssumption DEF RemoveResultSet, Continue, StatementsCancellable, Live,
        PlaceInv, ConnInv, WithoutConn, TypeInv, SqlTypeOK, Goroutines, life, calls, lent,
        table, tx, handling, closing
<1>21. ASSUME NEW h \in Handlers, CloseResultSet(h)
      PROVE  StatementsCancellable'
    BY <1>21, SqlAssumption DEF CloseResultSet, Continue, Resumes, StatementsCancellable, Live,
        PlaceInv, ConnInv, WithoutConn, TypeInv, SqlTypeOK, Goroutines, life, calls, lent,
        table, tx, handling, closing
<1>22. ASSUME NEW h \in Handlers, CloseResultSets(h)
      PROVE  StatementsCancellable'
    BY <1>22, SqlAssumption DEF CloseResultSets, CloseAllCursors, Continue, Resumes,
        StatementsCancellable, Live, PlaceInv, ConnInv, WithoutConn, TypeInv, SqlTypeOK,
        Goroutines, life, calls, lent, table, tx, handling, closing
<1>23. ASSUME NEW h \in Handlers, CancelQuery(h)
      PROVE  StatementsCancellable'
    BY <1>23, SqlAssumption, SMTT(30) DEF CancelQuery, Continue, Resumes, CancelIds,
        StatementsCancellable, Live, PlaceInv, ConnInv, WithoutConn, TypeInv, SqlTypeOK,
        Goroutines, life, calls, lent, table, tx, handling, closing
<1>24. ASSUME NEW h \in Handlers, SetAutoCommit(h)
      PROVE  StatementsCancellable'
    BY <1>24, SqlAssumption DEF SetAutoCommit, CloseAllCursors, Continue, Resumes,
        StatementsCancellable, Live, PlaceInv, ConnInv, WithoutConn, TypeInv, SqlTypeOK,
        Goroutines, life, calls, lent, table, tx, handling, closing
<1>25. ASSUME NEW h \in Handlers, CheckBusy(h)
      PROVE  StatementsCancellable'
    BY <1>25, SqlAssumption DEF CheckBusy, Continue, Resumes, StatementsCancellable, Live,
        PlaceInv, ConnInv, WithoutConn, TypeInv, SqlTypeOK, Goroutines, life, calls, lent,
        table, tx, handling, closing
<1>26. ASSUME NEW h \in Handlers, LeaveTx(h)
      PROVE  StatementsCancellable'
    BY <1>26, SqlAssumption DEF LeaveTx, Continue, StatementsCancellable, Live, PlaceInv,
        ConnInv, WithoutConn, TypeInv, SqlTypeOK, Goroutines, life, calls, lent, table, tx,
        handling, closing
<1>27. ASSUME NEW h \in Handlers, ReturnTxConn(h)
      PROVE  StatementsCancellable'
    BY <1>27, SqlAssumption DEF ReturnTxConn, Continue, StatementsCancellable, Live, PlaceInv,
        ConnInv, WithoutConn, TypeInv, SqlTypeOK, Goroutines, life, calls, lent, table, tx,
        handling, closing
<1>28. ASSUME NEW h \in Handlers, ResetTx(h)
      PROVE  StatementsCancellable'
    BY <1>28, SqlAssumption DEF ResetTx, Continue, StatementsCancellable, Live, PlaceInv,
        ConnInv, WithoutConn, TypeInv, SqlTypeOK, Goroutines, life, calls, lent, table, tx,
        handling, closing
<1>29. ASSUME NEW h \in Handlers, EnterTx(h)
      PROVE  StatementsCancellable'
    BY <1>29, SqlAssumption DEF EnterTx, Continue, StatementsCancellable, Live, PlaceInv,
        ConnInv, WithoutConn, TypeInv, SqlTypeOK, Goroutines, life, calls, lent, table, tx,
        handling, closing
<1>30. ASSUME NEW h \in Handlers, TakeTxConn(h)
      PROVE  StatementsCancellable'
    BY <1>30, SqlAssumption DEF TakeTxConn, FreeConns, Continue, StatementsCancellable, Live,
        PlaceInv, ConnInv, WithoutConn, TypeInv, SqlTypeOK, Goroutines, life, calls, lent,
        table, tx, handling, closing
<1>31. ASSUME NEW h \in Handlers, InstallTxConn(h)
      PROVE  StatementsCancellable'
    BY <1>31, SqlAssumption DEF InstallTxConn, Continue, StatementsCancellable, Live, PlaceInv,
        ConnInv, WithoutConn, TypeInv, SqlTypeOK, Goroutines, life, calls, lent, table, tx,
        handling, closing
<1>32. ASSUME NEW h \in Handlers, SessionClose(h)
      PROVE  StatementsCancellable'
    BY <1>32, SqlAssumption DEF SessionClose, CloseAllCursors, Continue, Resumes,
        StatementsCancellable, Live, PlaceInv, ConnInv, WithoutConn, TypeInv, SqlTypeOK,
        Goroutines, life, calls, lent, table, tx, handling, closing
<1>33. ASSUME NEW h \in Handlers, CancelAll(h)
      PROVE  StatementsCancellable'
    BY <1>33, SqlAssumption, SMTT(30) DEF CancelAll, Continue, Resumes, CancelIds,
        StatementsCancellable, Live, PlaceInv, ConnInv, WithoutConn, TypeInv, SqlTypeOK,
        Goroutines, life, calls, lent, table, tx, handling, closing
<1>34. ASSUME NEW h \in Handlers, DropTxConn(h)
      PROVE  StatementsCancellable'
    BY <1>34, SqlAssumption DEF DropTxConn, Continue, Resumes, StatementsCancellable, Live,
        PlaceInv, ConnInv, WithoutConn, TypeInv, SqlTypeOK, Goroutines, life, calls, lent,
        table, tx, handling, closing
<1>35. ASSUME NEW h \in Handlers, CloseDb(h)
      PROVE  StatementsCancellable'
    BY <1>35, SqlAssumption DEF CloseDb, Continue, StatementsCancellable, Live, PlaceInv,
        ConnInv, WithoutConn, TypeInv, SqlTypeOK, Goroutines, life, calls, lent, table, tx,
        handling, closing
<1>36. ASSUME NEW g \in Goroutines, ForceClose(g)
      PROVE  StatementsCancellable'
    BY <1>36, SqlAssumption DEF ForceClose, FinishLocked, ReturnConn, StatementsCancellable,
        Live, PlaceInv, ConnInv, WithoutConn, TypeInv, SqlTypeOK, Goroutines, life, calls, lent,
        table, tx, handling, closing
<1>37. ASSUME NEW g \in Goroutines, CancelEntry(g)
      PROVE  StatementsCancellable'
    BY <1>37, SqlAssumption DEF CancelEntry, StatementsCancellable, Live, PlaceInv, ConnInv,
        WithoutConn, TypeInv, SqlTypeOK, Goroutines, life, calls, lent, table, tx, handling,
        closing
<1>38. ASSUME NEW g \in Goroutines, ClearInflight(g)
      PROVE  StatementsCancellable'
    BY <1>38, SqlAssumption DEF ClearInflight, StatementsCancellable, Live, PlaceInv, ConnInv,
        WithoutConn, TypeInv, SqlTypeOK, Goroutines, life, calls, lent, table, tx, handling,
        closing
<1>39. CASE UNCHANGED sqlVars
    BY <1>39, SqlAssumption DEF sqlVars, StatementsCancellable, Live, PlaceInv, ConnInv,
        WithoutConn, TypeInv, SqlTypeOK, Goroutines, life, calls, lent, table, tx, handling,
        closing
<1>40. ASSUME NEW s \in Statements, Refuse(s)
      PROVE  StatementsCancellable'
    BY <1>40, SqlAssumption DEF Refuse, Goto, StatementsCancellable, Live, PlaceInv, ConnInv,
        WithoutConn, TypeInv, SqlTypeOK, Goroutines, life, calls, lent, table, tx, handling,
        closing
<1>. QED  BY <1>1, <1>2, <1>3, <1>4, <1>5, <1>6, <1>7, <1>8, <1>9, <1>10, <1>11, <1>12, <1>13,
        <1>14, <1>15, <1>16, <1>17, <1>18, <1>19, <1>20, <1>21, <1>22, <1>23, <1>24, <1>25,
        <1>26, <1>27, <1>28, <1>29, <1>30, <1>31, <1>32, <1>33, <1>34, <1>35, <1>36, <1>37,
        <1>38, <1>39, <1>40
        DEF SqlNext, Exec, Handle

LEMMA InitInv == SqlInit => IInv
<1>. SUFFICES ASSUME SqlInit
              PROVE  IInv
    OBVIOUS
<1>1. TypeInv
    BY InitTypes
<1>2. PlaceInv /\ BusyInv
    BY <1>1, SqlAssumption DEF SqlInit, PlaceInv, FetchInv, EvictInv, ConnInv, UnregInv, BusyInv,
        Goroutines
<1>3. LateInv /\ KeptInv /\ StatementsCancellable
    BY <1>1, SqlAssumption DEF SqlInit, LateInv, TableIsServed, KeptInv, StatementsCancellable,
        Live, TypeInv, SqlTypeOK
<1>. QED  BY <1>1, <1>2, <1>3 DEF IInv

LEMMA StepInv == IInv /\ [SqlNext]_sqlVars => IInv'
BY StepTypes, StepPlace, StepBusy, StepLate, StepKept, StepCancellable DEF IInv

LEMMA Invariant == SqlSpec => []IInv
BY InitInv, StepInv, PTL DEF SqlSpec

\* A live statement or cursor is found under its request's id, or somebody is
\* about to cancel it: for any number of life, calls, ids and goroutines, in every
\* order of registrations, evictions, closes and cancels.
THEOREM Cancellable == SqlSpec => []StatementsCancellable
<1>1. IInv => StatementsCancellable
    BY DEF IInv
<1>. QED  BY <1>1, Invariant, PTL

\* What a statement has taken is held by somebody who will give it back, but
\* for the code's two leaks: a refusal before registration, and a cursor put
\* into a session after its Close.
THEOREM HoldersKept == SqlSpec => []HoldersAreKept
<1>1. IInv => HoldersAreKept
    <2>1. ASSUME IInv, txBusy
          PROVE  \E s \in sessionOwned : Kept(s) \/ LeftBehind(s)
        BY <2>1 DEF IInv, BusyInv, KeptInv, TypeInv, SqlTypeOK
    <2>. QED  BY <2>1 DEF IInv, KeptInv, HoldersAreKept
<1>. QED  BY <1>1, Invariant, PTL
=============================================================================
