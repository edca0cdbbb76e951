----------------------------- MODULE IsqlSession -----------------------------
(***************************************************************************)
(* The session of isql with the server (psql/src/utISPApi.cpp,             *)
(* iSQLExecuteCommand.cpp, iSQLPrepareCommand.cpp, iSQLAdminCommand.cpp).  *)
(*                                                                         *)
(* A session is a record: conn (the handles are connected), admin (to the  *)
(* server it is a sysdba session), user (what gProperty says), sysdba      *)
(* (what gProgOption says), auto, tx and plan (the server's view of the    *)
(* session), kind (gSessionKind: the explain mode isql believes in),       *)
(* planCommit and foreignKeys (SET options), cursors (the statement        *)
(* handles with an open result), server ("up" or "down") and fault (the    *)
(* server refused to change the explain mode, or to end a transaction, for *)
(* a reason of its own in this command).                                   *)
(*                                                                         *)
(* An operation may end in several ways, so it maps a session to a set of  *)
(* outcomes [s, ok]: ok is IDE_SUCCESS.                                    *)
(*                                                                         *)
(* SQLError of utISPApi.cpp never fills in the state: no error of a call   *)
(* is taken for a lost connection, and the session goes on.                *)
(***************************************************************************)
EXTENDS Integers, Sequences, FiniteSets

CONSTANT Strict   \* the driver refuses to execute on a statement whose
                  \* cursor is open (ODBC state 24000)

ASSUME StrictAssumption == Strict \in BOOLEAN

Plans    == {"off", "on", "only"}
Handles  == {"m_IStmt", "m_TmpStmt", "m_TmpStmt2", "m_TmpStmt3"}

Ok(s)    == [s |-> s, ok |-> TRUE]
Fail(s)  == [s |-> s, ok |-> FALSE]

(* IDE_TEST: what follows a call that succeeded; a call whose result is    *)
(* not looked at; and a step taken on every path, which keeps the result.  *)
Do(S, F(_))     == UNION {IF o.ok THEN F(o.s) ELSE {o} : o \in S}
Ignore(S, F(_)) == UNION {F(o.s) : o \in S}
Finally(S, F(_)) == {[s |-> F(o.s), ok |-> o.ok] : o \in S}

StmtClose(s, h) == [s EXCEPT !.cursors = @ \ {h}]

(***************************************************************************)
(* The calls of the driver, with SetErrorMsgWithStmt, which closes the     *)
(* statement of a failed call.                                             *)
(***************************************************************************)
Alive(s) == s.conn /\ s.server = "up"
Broken(s) == Fail([s EXCEPT !.fault = TRUE])

(* A statement: done is the session when it succeeds.                      *)
SQLExecDirect(s, h, done) ==
    IF ~Alive(s) \/ (Strict /\ h \in s.cursors)
    THEN {Fail(StmtClose(s, h))}
    ELSE {Ok(done), Fail(StmtClose(s, h))}

Begin(s) == [s EXCEPT !.tx = @ \/ ~s.auto]
Open(h, s) == [Begin(s) EXCEPT !.cursors = @ \cup {h}]

(* A query whose rows are fetched and its cursor closed.                   *)
Query(s, h) == Finally(SQLExecDirect(s, h, Open(h, s)), LAMBDA t : StmtClose(t, h))

ExplainPlanExecute(s, p) ==
    IF ~Alive(s) \/ s.tx \/ (Strict /\ "m_IStmt" \in s.cursors)
    THEN {Fail(StmtClose(s, "m_IStmt"))}
    ELSE {Ok([s EXCEPT !.plan = p]), Broken(StmtClose(s, "m_IStmt"))}

EndTran(s) == IF Alive(s) THEN {Ok([s EXCEPT !.tx = FALSE]), Broken(s)} ELSE {Fail(s)}

AutoCommit(s, on) ==
    IF Alive(s) THEN {Ok([s EXCEPT !.auto = on, !.tx = @ /\ ~on]), Fail(s)} ELSE {Fail(s)}

GetConnectAttr(s) == IF s.conn THEN {Ok(s)} ELSE {Fail(s)}

(***************************************************************************)
(* The connection.  A server that is up may refuse the logon.  Close       *)
(* forgets the handles even when SQLDisconnect refuses, as it does in a    *)
(* transaction: the server then keeps the session.                         *)
(***************************************************************************)
Connect(s, asSysdba) ==
    IF s.server = "down" THEN {Fail(s)}
    ELSE {Ok([s EXCEPT !.conn = TRUE, !.admin = asSysdba, !.auto = TRUE, !.tx = FALSE,
                       !.plan = "off", !.cursors = {}]), Fail(s)}

Close(s) == [s EXCEPT !.conn = FALSE, !.admin = FALSE, !.tx = FALSE, !.cursors = {}]

ExecuteConnectStmt(s, user, asSysdba) ==
    {[o EXCEPT !.s.user = IF o.ok THEN user ELSE ""] : o \in Connect(Close(s), asSysdba)}

ExecuteDisconnectStmt(s) == [Close(s) EXCEPT !.user = ""]

disconnectCommand(s) == [ExecuteDisconnectStmt(s) EXCEPT !.sysdba = FALSE]

(* A CONNECT that fails keeps the sysdba flag of the session before it.    *)
connectCommandKeepsSysdba(s, user, asSysdba, sameUser) ==   \* defect: set, never cleared
    LET gone == ExecuteDisconnectStmt(s)
    IN  IF asSysdba /\ ~sameUser THEN {Fail(gone)}
        ELSE Do(ExecuteConnectStmt(gone, user, asSysdba),
                LAMBDA t : {Ok([t EXCEPT !.sysdba = @ \/ asSysdba])})

connectCommand(s, user, asSysdba, sameUser) ==
    LET gone == ExecuteDisconnectStmt(s)
    IN  IF asSysdba /\ ~sameUser THEN {Fail(gone)}
        ELSE Do(ExecuteConnectStmt(gone, user, asSysdba),
                LAMBDA t : {Ok([t EXCEPT !.sysdba = asSysdba])})

(***************************************************************************)
(* Statements.                                                             *)
(***************************************************************************)
DirectExecute(s, done) == SQLExecDirect(s, "m_IStmt", done)
CloseMain(s) == StmtClose(s, "m_IStmt")

ExecuteDDLStmt(s, kind) ==
    Finally(DirectExecute(s, [s EXCEPT !.tx = @ /\ kind \notin {"commit", "rollback"}]),
            CloseMain)

GetRowCount(s) == {Ok(s), Fail(CloseMain(s))}

ExecuteDMLStmt(s) ==
    Finally(Do(DirectExecute(s, Begin(s)), GetRowCount), CloseMain)

(* ALTER SESSION SET EXPLAIN PLAN asks for what the lexer has put into     *)
(* gSessionKind; every other statement of this kind is sent as it is.      *)
ExecuteOtherCommandStmt(s, isExplain) ==
    Finally(IF isExplain THEN ExplainPlanExecute(s, s.kind) ELSE DirectExecute(s, s),
            CloseMain)

(* A column of a type that cannot be shown is an error; a fetch that fails *)
(* ends the list of the rows and is none.                                  *)
SelectExecute(s, h) ==
    Do(SQLExecDirect(s, h, Open(h, s)), LAMBDA t : {Ok(t), Fail(StmtClose(t, h))})

Fetch(s, h) == {Ok(s), Fail(StmtClose(s, h))}
FetchSelectStmt(s, h) == Ignore(Fetch(s, h), LAMBDA t : {Ok(t)})

SelectRows(s, h) == Do(SelectExecute(s, h), LAMBDA t : FetchSelectStmt(t, h))

ExecuteSelectStmt(s) == Finally(SelectRows(s, "m_IStmt"), CloseMain)

(* Prepared statements use m_TmpStmt3; binding may fail on any variable.   *)
ClosePrepared(s) == StmtClose(s, "m_TmpStmt3")
Prepare(s) == SQLExecDirect(s, "m_TmpStmt3", s)
BindParam(s) == {Ok(s), Fail(ClosePrepared(s))}
Execute(s) == Finally(SQLExecDirect(s, "m_TmpStmt3", Begin(s)), ClosePrepared)

PrepareBound(s) == Do(Prepare(s), BindParam)

PrepareDMLStmt(s) == Finally(Do(PrepareBound(s), Execute), ClosePrepared)

SelectPrepared(s) == SelectRows(s, "m_TmpStmt3")

PrepareSelectStmtLeftOpen(s) ==   \* defect: the cursor is not closed
    Do(PrepareBound(s), SelectPrepared)

PrepareSelectStmt(s) == Finally(Do(PrepareBound(s), SelectPrepared), ClosePrepared)

(***************************************************************************)
(* EXEC.  The parameters of the procedure are read from m_TmpStmt until    *)
(* there are no more or, with its cursor left open, until the last host    *)
(* variable is bound; the type of a function's result is read from         *)
(* m_TmpStmt2, which is not closed.  "more": the procedure has parameters  *)
(* after the last host variable.                                           *)
(***************************************************************************)
GetProcInfo(s) == SQLExecDirect(s, "m_TmpStmt", Open("m_TmpStmt", s))

GetReturnType(s) ==
    Do(SQLExecDirect(s, "m_TmpStmt2", Open("m_TmpStmt2", s)),
       LAMBDA t : {Ok(t), Fail(StmtClose(t, "m_TmpStmt2"))})

FetchProcInfo(s, more) ==
    {Ok(IF more THEN s ELSE StmtClose(s, "m_TmpStmt")), Fail(StmtClose(s, "m_TmpStmt"))}

ProcBindPara(s) == {Ok(s), Fail(ClosePrepared(s))}

ProcTypes(s, isFunc) ==
    Do(GetProcInfo(s), LAMBDA t : IF isFunc THEN GetReturnType(t) ELSE {Ok(t)})

BindHostVariables(s, isFunc, more) ==
    Do(Do(ProcTypes(s, isFunc), ProcBindPara), LAMBDA t : FetchProcInfo(t, more))

PreparePSM(s, isFunc, binds, more) ==
    Do(Prepare(s), LAMBDA t : IF binds THEN BindHostVariables(t, isFunc, more) ELSE {Ok(t)})

ExecutePSMStmt(s, isFunc, binds, more) ==
    Finally(Do(PreparePSM(s, isFunc, binds, more), Execute), ClosePrepared)

(***************************************************************************)
(* The catalog.  A first query counts the rows on m_TmpStmt, the second    *)
(* one reads them on m_IStmt; both are closed on every path.               *)
(***************************************************************************)
Counted(s) == Do(Query(s, "m_TmpStmt"), LAMBDA t : Query(t, "m_IStmt"))

Tables(s) == Counted(s)

(* The lists of the fixed tables and of their columns are not in this      *)
(* port: they succeed and list nothing.                                    *)
FixedTables(s) == {Ok(s)}
Columns4FTnPV(s) == {Ok(s)}

Sequence(s) == SQLExecDirect(s, "m_IStmt", Open("m_IStmt", s))
FetchNext(s) == {Ok(s), Fail(CloseMain(s))}
SequenceRows(s) == Finally(Do(Sequence(s), FetchNext), CloseMain)

getTBSName(s) == Query(s, "m_TmpStmt")
Columns(s) == Counted(s)
Statistics(s) == Query(s, "m_IStmt")
PrimaryKeys(s) == Query(s, "m_IStmt")
ForeignKeys(s) == SQLExecDirect(s, "m_IStmt", Open("m_IStmt", s))

ShowColumns(s) == Do(getTBSName(s), Columns)
ShowColumns4FTnPV(s) == Columns4FTnPV(s)
ShowIndexInfo(s) == Statistics(s)
ShowPrimaryKeys(s) == PrimaryKeys(s)

(* Both lists are read on one statement, not closed between them.          *)
ShowForeignKeys(s) == Finally(Do(ForeignKeys(s), ForeignKeys), CloseMain)

(* DESC: no index, no primary key; the foreign keys are shown anyway.      *)
ShowKeys(s) == IF s.foreignKeys THEN Ignore(ShowForeignKeys(s), LAMBDA t : {Ok(t)}) ELSE {Ok(s)}
ShowIndexes(s) == Do(ShowIndexInfo(s), ShowPrimaryKeys)

ShowAttributes(s) == Do(ShowColumns(s), LAMBDA t : Ignore(ShowIndexes(t), ShowKeys))

(***************************************************************************)
(* Every list turns the plans off, as isql believes them to be on, reads   *)
(* the catalog, and turns them on again, also when the query failed.  The  *)
(* server refuses to change the mode inside a transaction: PLANCOMMIT ends *)
(* it first.                                                               *)
(***************************************************************************)
CommitForPlanNever(s) == {Ok(s)}   \* defect: PLANCOMMIT does nothing

CommitForPlan(s) == IF ~s.auto /\ s.planCommit
                    THEN Ignore(EndTran(s), LAMBDA t : {Ok(t)}) ELSE {Ok(s)}

SetPlan(s, p)  == Do(CommitForPlan(s), LAMBDA t : ExplainPlanExecute(t, p))
PlanOff(s)     == IF s.kind = "off" THEN {Ok(s)} ELSE SetPlan(s, "off")
PlanRestore(s) == IF s.kind = "off" THEN {Ok(s)} ELSE SetPlan(s, s.kind)

WithPlanOff(s) == Do(GetConnectAttr(s), PlanOff)

(* The two lists try once more when the first attempt to restore fails.    *)
ListRestored(S) ==
    LET Again(t) == {Fail(r.s) : r \in PlanRestore(t)}
    IN  UNION {IF o.ok THEN UNION {IF r.ok THEN {r} ELSE Again(r.s) : r \in PlanRestore(o.s)}
               ELSE Again(o.s) : o \in S}

DisplayTableList(s)      == Do(WithPlanOff(s), LAMBDA t : ListRestored(Tables(t)))
DisplayFixedTableList(s) == Do(WithPlanOff(s), LAMBDA t : ListRestored(FixedTables(t)))
DisplaySequenceList(s)   == Do(WithPlanOff(s), LAMBDA t : ListRestored(SequenceRows(t)))

DisplayAttributeList(s)       == Do(WithPlanOff(s), LAMBDA t : Ignore(ShowAttributes(t), PlanRestore))
DisplayAttributeList4FTnPV(s) == Do(WithPlanOff(s), LAMBDA t : Ignore(ShowColumns4FTnPV(t), PlanRestore))

(***************************************************************************)
(* STARTUP and SHUTDOWN look at the sysdba flag and at nothing else.  The  *)
(* session after SHUTDOWN is the one of the command line's login.          *)
(***************************************************************************)
Startup(s) == ExecuteOtherCommandStmt(s, FALSE)

ConnectDB(s) == Connect(s, TRUE)

(* ABORT asks nothing of the server in this port.                          *)
ExecuteSysdbaCommandStmt(s) == Finally(DirectExecute(s, s), CloseMain)

Shutdown(s, abort) ==
    Do(IF abort THEN {Ok(s)} ELSE ExecuteSysdbaCommandStmt(s), LAMBDA t : ConnectDB(Close(t)))

(* A write to a dead server: SIGPIPE ends isql, but not during SHUTDOWN.   *)
DisconnectDB(s) == Close(s)
=============================================================================
