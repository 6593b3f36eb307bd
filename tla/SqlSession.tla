----------------------------- MODULE SqlSession -----------------------------
(***************************************************************************)
(* One session of the MySQL service (services/mysql-service/internal):     *)
(* statements that a client can cancel by the request's id, cursors kept   *)
(* open between pages, the pool of connections both live on, and the       *)
(* connection that is pinned while auto-commit is off.  The services of    *)
(* the other databases have copies of this scheme.                         *)
(*                                                                         *)
(* Actors: a goroutine per query.exec (Statements), goroutines that serve  *)
(* the other calls (Handlers, each used again and again), and one per      *)
(* cursor that is evicted, which has the name of its statement.  A cursor  *)
(* has the name of the statement that opened it.  A step is a critical     *)
(* section of Session.mu or ResultSet.mu, or a call of the driver; what    *)
(* the server answers is a choice.  Left out are inTx and txDatabase: they *)
(* only spare a ROLLBACK or a USE, whose failure is possible anyway.       *)
(***************************************************************************)
EXTENDS Naturals, FiniteSets

CONSTANTS
    Statements,     \* calls of query.exec
    RequestIds,     \* the ids clients give them; two may have the same
    Handlers,
    Conns,          \* connections the session's pool may have open
    MaxOpenResultSets,
    NoStmt, NoConn,
    Private         \* the connection of a pool opened for one statement

ASSUME SqlAssumption ==
    /\ MaxOpenResultSets \in Nat \ {0}
    /\ IsFiniteSet(Statements)
    /\ NoStmt \notin Statements
    /\ NoConn \notin Conns /\ Private \notin Conns /\ NoConn # Private
    /\ Statements \cap Handlers = {}

VARIABLES
    session,        \* "open", "closing" (gone from the manager), "closed"
    late,           \* history: statements under way when Close took the last cursors
    spc, rid,       \* per statement: where it is, its request's id
    conn,           \* per statement: the connection it or its cursor has
    sessionOwned,   \* statements whose connection is the pinned one
    ownDb,          \* statements whose own pool is still open
    cancelled,      \* statements whose context is cancelled
    inflight,       \* [RequestIds -> the statement registered under the id]
    resultSets,     \* cursors the session knows
    autoCommit, txBusy, txConn,
    pinned,         \* connections calls of SetAutoCommit have taken
    task, cursor, taken,    \* per handler: what it does, the cursor it fetches
                    \* from, the connection it has read or taken
    hold, entries, clear    \* per goroutine: cursors it has to close, entries
                    \* it has to cancel, cursors whose ids it has to clear

Goroutines == Handlers \cup Statements

life      == <<session, late>>
calls     == <<spc, rid>>
lent      == <<conn, sessionOwned, ownDb, txBusy>>
table     == <<inflight, cancelled>>
tx        == <<autoCommit, txConn, pinned>>
handling  == <<task, cursor, taken>>
closing   == <<hold, entries, clear>>
sqlVars   == <<life, calls, lent, table, resultSets, tx, handling, closing>>

Active == {"resolving", "resolved", "permitted", "registered", "waiting", "acquired",
           "finishing", "cleaning", "reading", "putting", "closing", "unregistering"}

Tasks == {"idle", "called", "fetching", "removing", "checkOn", "checkOff", "on", "off", "leaving",
          "resetting", "pinning", "installing", "cancelAll", "dropTx", "closeDb"}

SqlTypeOK ==
    /\ session \in {"open", "closing", "closed"} /\ late \subseteq Statements
    /\ spc \in [Statements -> Active \cup {"idle", "refused", "ended"}]
    /\ rid \in [Statements -> RequestIds]
    /\ conn \in [Statements -> Conns \cup {NoConn, Private}]
    /\ sessionOwned \subseteq Statements /\ ownDb \subseteq Statements
    /\ cancelled \subseteq Statements
    /\ inflight \in [RequestIds -> Statements \cup {NoStmt}]
    /\ resultSets \subseteq Statements /\ Cardinality(resultSets) <= MaxOpenResultSets
    /\ autoCommit \in BOOLEAN /\ txBusy \in BOOLEAN
    /\ txConn \in Conns \cup {NoConn} /\ pinned \subseteq Conns
    /\ task \in [Handlers -> Tasks]
    /\ cursor \in [Handlers -> Statements \cup {NoStmt}]
    /\ taken \in [Handlers -> Conns \cup {NoConn}]
    /\ hold \in [Goroutines -> SUBSET Statements]
    /\ entries \in [Goroutines -> SUBSET Statements]
    /\ clear \in [Goroutines -> SUBSET Statements]

\* A new session has autoCommit's zero value, but no connection is pinned.
SqlInit ==
    /\ session = "open" /\ late = {}
    /\ spc = [s \in Statements |-> "idle"]
    /\ rid \in [Statements -> RequestIds]
    /\ conn = [s \in Statements |-> NoConn]
    /\ sessionOwned = {} /\ ownDb = {} /\ cancelled = {}
    /\ inflight = [r \in RequestIds |-> NoStmt]
    /\ resultSets = {}
    /\ autoCommit = FALSE /\ txBusy = FALSE
    /\ txConn = NoConn /\ pinned = {}
    /\ task = [h \in Handlers |-> "idle"]
    /\ cursor = [h \in Handlers |-> NoStmt]
    /\ taken = [h \in Handlers |-> NoConn]
    /\ hold = [g \in Goroutines |-> {}]
    /\ entries = [g \in Goroutines |-> {}]
    /\ clear = [g \in Goroutines |-> {}]

-----------------------------------------------------------------------------
(* Helpers.                                                                *)

IsAutoCommit == autoCommit \/ txConn = NoConn

\* acquireExecConn's useTx.
UsesTx == ~autoCommit /\ txConn # NoConn

FreeConns == Conns \ (pinned \cup {conn[s] : s \in Statements})

Goto(s, where) == spc' = [spc EXCEPT ![s] = where]

\* The connection goes back: to the pool, or by clearing txBusy.
ReturnConn(s) ==
    /\ conn' = [conn EXCEPT ![s] = NoConn]
    /\ txBusy' = (txBusy /\ s \notin sessionOwned)
    /\ sessionOwned' = sessionOwned \ {s}

\* Mutant: the claim on the pinned connection is not given up.
FinishLockedForgetsTx(s) ==
    /\ conn' = [conn EXCEPT ![s] = NoConn]
    /\ sessionOwned' = sessionOwned \ {s}
    /\ ownDb' = ownDb \ {s}
    /\ UNCHANGED txBusy

\* ResultSet.finishLocked: the connection and the pool of its own, once.
FinishLocked(s) ==
    /\ ReturnConn(s)
    /\ ownDb' = ownDb \ {s}

\* Mutant: without the comparison with the statement's own entry.
RemoveAnyEntry(s) == inflight' = [inflight EXCEPT ![rid[s]] = NoStmt]

\* The entry under a statement's id is removed if it is still its own.
RemoveOwnEntry(s) ==
    inflight' = IF inflight[rid[s]] = s THEN [inflight EXCEPT ![rid[s]] = NoStmt] ELSE inflight

\* Mutant: one too many.
TableFullLate == Cardinality(resultSets) > MaxOpenResultSets

TableFull == Cardinality(resultSets) >= MaxOpenResultSets

\* h is at a point of its call, and has closed and cancelled what it had to before.
Resumes(h, where) == task[h] = where /\ hold[h] = {} /\ entries[h] = {} /\ clear[h] = {}

Continue(h, next) == task' = [task EXCEPT ![h] = next]

\* CloseResultSet(""): every cursor leaves the table, to be closed and its id cleared.
CloseAllCursors(h) ==
    /\ resultSets' = {}
    /\ hold' = [hold EXCEPT ![h] = resultSets]
    /\ clear' = [clear EXCEPT ![h] = resultSets]

-----------------------------------------------------------------------------
(* query.exec: queryExec and OpenPagedQuery.                               *)

\* The session is found; for another database a pool of its own is opened.
Arrive(s) ==
    /\ session = "open" /\ spc[s] = "idle"
    /\ \E other \in BOOLEAN : ownDb' = IF other THEN ownDb \cup {s} ELSE ownDb
    /\ Goto(s, "resolving")
    /\ UNCHANGED <<life, rid, conn, sessionOwned, txBusy, table, resultSets, tx, handling, closing>>

\* resolveDBForSessionQuery: no pool of its own while auto-commit is off.
Resolve(s) ==
    /\ spc[s] = "resolving"
    /\ ownDb' = IF IsAutoCommit THEN ownDb ELSE ownDb \ {s}
    /\ Goto(s, "resolved")
    /\ UNCHANGED <<life, rid, conn, sessionOwned, txBusy, table, resultSets, tx, handling, closing>>

\* ensureSessionAllowsQueryDB: refused if auto-commit went off in between.
CheckDb(s) ==
    /\ spc[s] = "resolved"
    /\ IF s \in ownDb /\ ~IsAutoCommit
       THEN Goto(s, "ended") /\ ownDb' = ownDb \ {s}
       ELSE Goto(s, "permitted") /\ UNCHANGED ownDb
    /\ UNCHANGED <<life, rid, conn, sessionOwned, txBusy, table, resultSets, tx, handling, closing>>

\* OpenPagedQuery returns early, for an empty text or a session whose pool is
\* gone; neither it nor queryExec closes the statement's own pool.
Refuse(s) ==
    /\ spc[s] = "permitted"
    /\ Goto(s, "refused")
    /\ UNCHANGED <<life, rid, lent, table, resultSets, tx, handling, closing>>

\* The statement is registered; one with the same id is cancelled.
RegisterQuery(s) ==
    /\ spc[s] = "permitted"
    /\ cancelled' = cancelled \cup ({inflight[rid[s]]} \ {NoStmt})
    /\ inflight' = [inflight EXCEPT ![rid[s]] = s]
    /\ Goto(s, "registered")
    /\ UNCHANGED <<life, rid, lent, resultSets, tx, handling, closing>>

\* acquireExecConn: the pinned connection, if nobody has it; or one of a pool.
AcquireTxConn(s) ==
    /\ spc[s] = "registered" /\ UsesTx
    /\ IF txBusy
       THEN Goto(s, "cleaning") /\ UNCHANGED <<conn, sessionOwned, txBusy>>
       ELSE /\ txBusy' = TRUE
            /\ conn' = [conn EXCEPT ![s] = txConn]
            /\ sessionOwned' = sessionOwned \cup {s}
            /\ Goto(s, "acquired")
    /\ UNCHANGED <<life, rid, ownDb, table, resultSets, tx, handling, closing>>

WaitForConn(s) ==
    /\ spc[s] = "registered" /\ ~UsesTx
    /\ Goto(s, "waiting")
    /\ UNCHANGED <<life, rid, lent, table, resultSets, tx, handling, closing>>

AcquireConn(s) ==
    /\ spc[s] = "waiting" /\ s \notin cancelled
    /\ \E c \in IF s \in ownDb THEN {Private} ELSE FreeConns :
          conn' = [conn EXCEPT ![s] = c]
    /\ s \notin ownDb => session # "closed"
    /\ Goto(s, "acquired")
    /\ UNCHANGED <<life, rid, sessionOwned, ownDb, txBusy, table, resultSets, tx, handling, closing>>

\* The context is cancelled, the pool is closed or the server cannot be reached.
AcquireFails(s) ==
    /\ spc[s] = "waiting"
    /\ Goto(s, "cleaning")
    /\ UNCHANGED <<life, rid, lent, table, resultSets, tx, handling, closing>>

\* USE (ensureConnDatabase), then the statement: an error or a result without
\* rows, or rows.  A cancelled context gives no rows.
Execute(s) ==
    /\ spc[s] = "acquired"
    /\ \/ Goto(s, "finishing")
       \/ s \notin cancelled /\ Goto(s, "reading")
    /\ UNCHANGED <<life, rid, lent, table, resultSets, tx, handling, closing>>

\* releaseConn.
Release(s) ==
    /\ spc[s] = "finishing"
    /\ ReturnConn(s)
    /\ Goto(s, "cleaning")
    /\ UNCHANGED <<life, rid, ownDb, table, resultSets, tx, handling, closing>>

\* cleanupFailed, which finishDML calls too.
Cleanup(s) ==
    /\ spc[s] = "cleaning"
    /\ RemoveOwnEntry(s)
    /\ cancelled' = cancelled \cup {s}
    /\ ownDb' = ownDb \ {s}
    /\ Goto(s, "ended")
    /\ UNCHANGED <<life, rid, conn, sessionOwned, txBusy, resultSets, tx, handling, closing>>

\* The first page: an error, the last row (readPage finishes the cursor), or
\* more rows to come.
ReadFirstPage(s) ==
    /\ spc[s] = "reading"
    /\ \/ Goto(s, "closing") /\ UNCHANGED lent
       \/ Goto(s, "closing") /\ FinishLocked(s)
       \/ Goto(s, "putting") /\ UNCHANGED lent
    /\ UNCHANGED <<life, rid, table, resultSets, tx, handling, closing>>

\* forceClose of the cursor that nobody else knows yet.
CloseOwnCursor(s) ==
    /\ spc[s] = "closing"
    /\ FinishLocked(s)
    /\ cancelled' = cancelled \cup {s}
    /\ Goto(s, "unregistering")
    /\ UNCHANGED <<life, rid, inflight, resultSets, tx, handling, closing>>

Unregister(s) ==
    /\ spc[s] = "unregistering"
    /\ RemoveOwnEntry(s)
    /\ Goto(s, "ended")
    /\ UNCHANGED <<life, rid, lent, cancelled, resultSets, tx, handling, closing>>

\* putResultSet: where the table is full, some
\* cursor is evicted, to be closed by a goroutine of its own.
PutResultSet(s) ==
    /\ spc[s] = "putting"
    /\ \/ /\ ~TableFull
          /\ resultSets' = resultSets \cup {s}
          /\ UNCHANGED closing
       \/ /\ TableFull
          /\ \E victim \in resultSets :
                /\ resultSets' = (resultSets \ {victim}) \cup {s}
                /\ hold' = [hold EXCEPT ![victim] = {victim}]
                /\ clear' = [clear EXCEPT ![victim] = {victim}]
          /\ UNCHANGED entries
    /\ Goto(s, "ended")
    /\ UNCHANGED <<life, rid, lent, table, tx, handling>>

\* The timer of the first page cancels the context.
Timeout(s) ==
    /\ spc[s] \in {"registered", "waiting", "acquired", "reading"}
    /\ cancelled' = cancelled \cup {s}
    /\ UNCHANGED <<life, calls, lent, inflight, resultSets, tx, handling, closing>>

-----------------------------------------------------------------------------
(* query.fetch, query.close and query.cancel.                              *)

\* Manager.Get: the session may be closed before the call goes on.
Call(h) ==
    /\ session = "open" /\ Resumes(h, "idle")
    /\ Continue(h, "called")
    /\ UNCHANGED <<life, calls, lent, table, resultSets, tx, cursor, taken, closing>>

Fetch(h) ==
    /\ task[h] = "called"
    /\ \E c \in resultSets : cursor' = [cursor EXCEPT ![h] = c]
    /\ Continue(h, "fetching")
    /\ UNCHANGED <<life, calls, lent, table, resultSets, tx, taken, closing>>

\* readPage: an error, which a cursor closed meanwhile always gives; the last
\* row; or more to come.
FetchPage(h) ==
    /\ task[h] = "fetching"
    /\ \/ Continue(h, "removing") /\ UNCHANGED <<lent, cursor>>
       \/ /\ conn[cursor[h]] # NoConn /\ FinishLocked(cursor[h])
          /\ Continue(h, "removing") /\ UNCHANGED cursor
       \/ /\ conn[cursor[h]] # NoConn /\ cursor' = [cursor EXCEPT ![h] = NoStmt]
          /\ Continue(h, "idle") /\ UNCHANGED lent
    /\ UNCHANGED <<life, calls, table, resultSets, tx, taken, closing>>

\* removeResultSet; forceClose and clearInflight follow.
RemoveResultSet(h) ==
    /\ task[h] = "removing"
    /\ resultSets' = resultSets \ {cursor[h]}
    /\ hold' = [hold EXCEPT ![h] = {cursor[h]}]
    /\ clear' = [clear EXCEPT ![h] = {cursor[h]}]
    /\ cursor' = [cursor EXCEPT ![h] = NoStmt]
    /\ Continue(h, "idle")
    /\ UNCHANGED <<life, calls, lent, table, tx, taken, entries>>

CloseResultSet(h) ==
    /\ Resumes(h, "called")
    /\ \E c \in resultSets :
          /\ resultSets' = resultSets \ {c}
          /\ hold' = [hold EXCEPT ![h] = {c}]
          /\ clear' = [clear EXCEPT ![h] = {c}]
    /\ Continue(h, "idle")
    /\ UNCHANGED <<life, calls, lent, table, tx, cursor, taken, entries>>

\* tx.commit and tx.rollback do the same before they execute COMMIT or
\* ROLLBACK, or refuse because the pinned connection is busy.
CloseResultSets(h) ==
    /\ Resumes(h, "called")
    /\ CloseAllCursors(h)
    /\ Continue(h, "idle")
    /\ UNCHANGED <<life, calls, lent, table, tx, cursor, taken, entries>>

\* CancelQuery: the cursors of the ids and the registered statements leave
\* the tables, to be closed and then cancelled.
CancelIds(h, ids) ==
    LET cursors == {c \in resultSets : rid[c] \in ids} IN
    /\ resultSets' = resultSets \ cursors
    /\ hold' = [hold EXCEPT ![h] = cursors]
    /\ entries' = [entries EXCEPT ![h] = {inflight[r] : r \in ids} \ {NoStmt}]
    /\ inflight' = [r \in RequestIds |-> IF r \in ids THEN NoStmt ELSE inflight[r]]

\* query.cancel of one id, or of all when the id is empty.
CancelQuery(h) ==
    /\ Resumes(h, "called")
    /\ \E ids \in {{r} : r \in RequestIds} \cup {RequestIds} : CancelIds(h, ids)
    /\ Continue(h, "idle")
    /\ UNCHANGED <<life, calls, lent, cancelled, tx, cursor, taken, clear>>

\* forceClose.
ForceClose(g) ==
    /\ \E c \in hold[g] :
          /\ FinishLocked(c)
          /\ cancelled' = cancelled \cup {c}
          /\ hold' = [hold EXCEPT ![g] = @ \ {c}]
    /\ UNCHANGED <<life, calls, inflight, resultSets, tx, handling, entries, clear>>

\* entry.cancel().
CancelEntry(g) ==
    /\ hold[g] = {}
    /\ \E s \in entries[g] :
          /\ cancelled' = cancelled \cup {s}
          /\ entries' = [entries EXCEPT ![g] = @ \ {s}]
    /\ UNCHANGED <<life, calls, lent, inflight, resultSets, tx, handling, hold, clear>>

\* clearInflight: whatever is registered under the id is removed, to be cancelled.
ClearInflight(g) ==
    /\ hold[g] = {} /\ entries[g] = {}
    /\ \E c \in clear[g] :
          /\ entries' = [entries EXCEPT ![g] = {inflight[rid[c]]} \ {NoStmt}]
          /\ inflight' = [inflight EXCEPT ![rid[c]] = NoStmt]
          /\ clear' = [clear EXCEPT ![g] = @ \ {c}]
    /\ UNCHANGED <<life, calls, lent, cancelled, resultSets, tx, handling, hold>>

-----------------------------------------------------------------------------
(* tx.setAutoCommit.                                                       *)

\* An open session's cursors are all closed first.
SetAutoCommit(h) ==
    /\ session # "closed" /\ Resumes(h, "called")
    /\ CloseAllCursors(h)
    /\ \E check \in {"checkOn", "checkOff"} : Continue(h, check)
    /\ UNCHANGED <<life, calls, lent, table, tx, cursor, taken, entries>>

\* txBusy is read and the lock released.
CheckBusy(h) ==
    /\ \E on \in BOOLEAN :
          /\ Resumes(h, IF on THEN "checkOn" ELSE "checkOff")
          /\ Continue(h, IF txBusy THEN "idle" ELSE IF on THEN "on" ELSE "off")
    /\ UNCHANGED <<life, calls, lent, table, resultSets, tx, cursor, taken, closing>>

\* ensureAutoCommitOn reads the pinned connection.
LeaveTx(h) ==
    /\ task[h] = "on"
    /\ taken' = [taken EXCEPT ![h] = txConn]
    /\ Continue(h, IF txConn = NoConn THEN "resetting" ELSE "leaving")
    /\ UNCHANGED <<life, calls, lent, table, resultSets, tx, cursor, closing>>

\* A connection is closed when no rows are being read from it.
NoRowsOn(c) == \A s \in Statements : conn[s] = c => spc[s] \in {"acquired", "finishing"}

\* ROLLBACK, SET autocommit=1 and Close; an error ends the call.
ReturnTxConn(h) ==
    /\ task[h] = "leaving"
    /\ \/ /\ taken[h] \in pinned /\ NoRowsOn(taken[h])
          /\ pinned' = pinned \ {taken[h]}
          /\ Continue(h, "resetting")
       \/ Continue(h, "idle") /\ UNCHANGED pinned
    /\ taken' = [taken EXCEPT ![h] = NoConn]
    /\ UNCHANGED <<life, calls, lent, table, resultSets, autoCommit, txConn, cursor, closing>>

ResetTx(h) ==
    /\ task[h] = "resetting"
    /\ txConn' = NoConn /\ autoCommit' = TRUE /\ txBusy' = FALSE
    /\ Continue(h, "idle")
    /\ UNCHANGED <<life, calls, conn, sessionOwned, ownDb, table, resultSets, pinned, cursor, taken, closing>>

\* ensureAutoCommitOff: nothing but the flag if a connection is pinned.
EnterTx(h) ==
    /\ task[h] = "off"
    /\ IF txConn # NoConn
       THEN autoCommit' = FALSE /\ Continue(h, "idle")
       ELSE Continue(h, "pinning") /\ UNCHANGED autoCommit
    /\ UNCHANGED <<life, calls, lent, table, resultSets, txConn, pinned, cursor, taken, closing>>

\* A connection of the pool and SET autocommit=0; an error ends the call.  Once
\* Close has put nil for the pool the call panics, and with it the process,
\* where this model, like a call that read the pool just before, has an error.
TakeTxConn(h) ==
    /\ task[h] = "pinning"
    /\ \/ /\ session # "closed"
          /\ \E c \in FreeConns :
                pinned' = pinned \cup {c} /\ taken' = [taken EXCEPT ![h] = c]
          /\ Continue(h, "installing")
       \/ Continue(h, "idle") /\ UNCHANGED <<pinned, taken>>
    /\ UNCHANGED <<life, calls, lent, table, resultSets, autoCommit, txConn, cursor, closing>>

InstallTxConn(h) ==
    /\ task[h] = "installing"
    /\ txConn' = taken[h] /\ autoCommit' = FALSE /\ txBusy' = FALSE
    /\ taken' = [taken EXCEPT ![h] = NoConn]
    /\ Continue(h, "idle")
    /\ UNCHANGED <<life, calls, conn, sessionOwned, ownDb, table, resultSets, pinned, cursor, closing>>

-----------------------------------------------------------------------------
(* session.close.                                                          *)

\* The manager forgets the session; Close begins with CloseResultSet("").
SessionClose(h) ==
    /\ session = "open" /\ Resumes(h, "idle")
    /\ session' = "closing"
    /\ CloseAllCursors(h)
    /\ Continue(h, "cancelAll")
    /\ UNCHANGED <<late, calls, lent, table, tx, cursor, taken, entries>>

CancelAll(h) ==
    /\ Resumes(h, "cancelAll")
    /\ CancelIds(h, RequestIds)
    /\ Continue(h, "dropTx")
    /\ late' = {s \in Statements : spc[s] \in Active}
    /\ UNCHANGED <<session, calls, lent, cancelled, tx, cursor, taken, clear>>

\* releaseTxConnLocked.
DropTxConn(h) ==
    /\ Resumes(h, "dropTx") /\ (txConn = NoConn \/ NoRowsOn(txConn))
    /\ pinned' = pinned \ {txConn}
    /\ txConn' = NoConn /\ autoCommit' = TRUE /\ txBusy' = FALSE
    /\ Continue(h, "closeDb")
    /\ UNCHANGED <<life, calls, conn, sessionOwned, ownDb, table, resultSets, cursor, taken, closing>>

CloseDb(h) ==
    /\ task[h] = "closeDb"
    /\ session' = "closed"
    /\ Continue(h, "idle")
    /\ UNCHANGED <<late, calls, lent, table, resultSets, tx, cursor, taken, closing>>

-----------------------------------------------------------------------------
Exec(s) ==
    \/ Arrive(s) \/ Resolve(s) \/ CheckDb(s) \/ Refuse(s) \/ RegisterQuery(s)
    \/ AcquireTxConn(s) \/ WaitForConn(s) \/ AcquireConn(s) \/ AcquireFails(s)
    \/ Execute(s) \/ Release(s) \/ Cleanup(s)
    \/ ReadFirstPage(s) \/ CloseOwnCursor(s) \/ Unregister(s) \/ PutResultSet(s)
    \/ Timeout(s)

Handle(h) ==
    \/ Call(h) \/ Fetch(h) \/ FetchPage(h) \/ RemoveResultSet(h)
    \/ CloseResultSet(h) \/ CloseResultSets(h) \/ CancelQuery(h)
    \/ SetAutoCommit(h) \/ CheckBusy(h)
    \/ LeaveTx(h) \/ ReturnTxConn(h) \/ ResetTx(h)
    \/ EnterTx(h) \/ TakeTxConn(h) \/ InstallTxConn(h)
    \/ SessionClose(h) \/ CancelAll(h) \/ DropTxConn(h) \/ CloseDb(h)

SqlNext ==
    \/ \E s \in Statements : Exec(s)
    \/ \E h \in Handlers : Handle(h)
    \/ \E g \in Goroutines : ForceClose(g) \/ CancelEntry(g) \/ ClearInflight(g)

SqlSpec == SqlInit /\ [][SqlNext]_sqlVars

-----------------------------------------------------------------------------
(* Properties.                                                             *)

\* A statement that runs, or whose cursor is open, under a context nobody
\* has cancelled.
Live(s) ==
    /\ s \notin cancelled
    /\ \/ spc[s] \in {"registered", "waiting", "acquired", "reading", "putting"}
       \/ spc[s] = "ended" /\ conn[s] # NoConn

\* query.cancel, while it finds the session, finds what it is to cancel: a
\* live statement or cursor is registered under its request's id, or is about
\* to be cancelled by a goroutine that has removed it, however often ids are
\* used again, and although every end of a statement or cursor clears the id.
StatementsCancellable ==
    \A s \in Statements :
        Live(s) => inflight[rid[s]] = s \/ \E g \in Goroutines : s \in entries[g]

\* The table's cursors can be finished: by the session's clients, or by a Close
\* that has yet to empty it.  After that no call finds the session.
TableIsServed == session = "open" \/ \E h \in Handlers : task[h] = "cancelAll"

\* Its own call still runs, its cursor is in a table that is served, or a
\* goroutine is about to close it.
Kept(s) ==
    \/ spc[s] \in Active
    \/ s \in resultSets /\ TableIsServed
    \/ \E g \in Goroutines : s \in hold[g]

\* The cursor of a statement that outlived Close's last look at the table, put
\* there since: nobody will finish it.
LeftBehind(s) == s \in late /\ s \in resultSets

\* What a statement takes is given back: a connection, a pool of its own or
\* the claim on the pinned connection (txBusy) is held by a statement or cursor
\* that somebody will finish, in every order of last pages, evictions, closes,
\* cancels and the end of the session.  The code has two leaks and no other: a
\* statement refused before it is registered keeps its own pool, and a cursor
\* put into a session that is closed keeps what it has.
HoldersAreKept ==
    /\ \A s \in Statements : conn[s] # NoConn => Kept(s) \/ LeftBehind(s)
    /\ \A s \in ownDb : Kept(s) \/ LeftBehind(s) \/ spc[s] = "refused"
    /\ txBusy => \E s \in sessionOwned : Kept(s) \/ LeftBehind(s)
=============================================================================
