----------------------------- MODULE IsqlProofs -----------------------------
(***************************************************************************)
(* Theorems about isql, for every command line, all scripts and whatever   *)
(* its user types, the server answers and the editor leaves.               *)
(***************************************************************************)
EXTENDS Isql, SequenceTheorems, WellFoundedInduction, TLAPS

-----------------------------------------------------------------------------
(* The session.  An operation that is no logon leaves who is logged on,    *)
(* opens no transaction under autocommit, and leaves open at most the two  *)
(* statements of EXEC and those of H.                                      *)
Temporary == {"m_TmpStmt", "m_TmpStmt2"}

Kept(s, t, H) ==
    /\ t \in Session
    /\ t.conn = s.conn /\ t.admin = s.admin /\ t.sysdba = s.sysdba
    /\ t.cursors \subseteq s.cursors \cup Temporary \cup H
    /\ (s.auto => ~s.tx) => (t.auto => ~t.tx)

LEMMA KeptTwice ==
    ASSUME NEW s \in Session, NEW t, NEW u, NEW H, Kept(s, t, H), Kept(t, u, H)
    PROVE  Kept(s, u, H)
  BY DEF Kept

LEMMA KeptMore ==
    ASSUME NEW s \in Session, NEW t, NEW H, Kept(s, t, {})
    PROVE  Kept(s, t, H)
  BY DEF Kept

LEMMA CloseKeeps ==
    ASSUME NEW s \in Session, NEW h, NEW t, NEW u, Kept(s, t, {h}), u = StmtClose(t, h)
    PROVE  Kept(s, u, {}) /\ h \notin u.cursors
  BY DEF Kept, StmtClose, Session

LEMMA Outcome == \A t : Ok(t).s = t /\ Ok(t).ok /\ Fail(t).s = t /\ ~Fail(t).ok
  BY DEF Ok, Fail

(* A call of the driver. *)
LEMMA CallKeeps ==
    ASSUME NEW s \in Session, NEW h \in Handles, NEW done, NEW H, Kept(s, done, H),
           NEW o \in SQLExecDirect(s, h, done)
    PROVE  Kept(s, o.s, H)
  <1>1. o = Ok(done) \/ o = Fail(StmtClose(s, h))
    BY DEF SQLExecDirect
  <1>2. Kept(s, StmtClose(s, h), H)
    BY DEF Kept, StmtClose, Session
  <1>3. QED
    BY <1>1, <1>2 DEF Ok, Fail

LEMMA OpenKeeps ==
    ASSUME NEW s \in Session, NEW h \in Handles
    PROVE  Kept(s, Begin(s), {}) /\ Kept(s, Open(h, s), {h})
  BY DEF Kept, Begin, Open, Session

LEMMA FailedCallCloses ==
    ASSUME NEW s \in Session, NEW h \in Handles, NEW o \in {Ok(s), Fail(StmtClose(s, h))}
    PROVE  Kept(s, o.s, {}) /\ (h \notin s.cursors => h \notin o.s.cursors)
  BY DEF Kept, StmtClose, Session, Ok, Fail

LEMMA CloseKept ==
    ASSUME NEW s \in Session, NEW h, NEW t, NEW H, Kept(s, t, H)
    PROVE  Kept(s, StmtClose(t, h), H)
  BY DEF Kept, StmtClose, Session

LEMMA QueryKeeps ==
    ASSUME NEW s \in Session, NEW h \in Handles, NEW o \in Query(s, h)
    PROVE  Kept(s, o.s, {})
  <1>1. PICK x \in SQLExecDirect(s, h, Open(h, s)) : o.s = StmtClose(x.s, h)
    BY DEF Query, Finally
  <1>2. Kept(s, x.s, {h})
    BY OpenKeeps, CallKeeps
  <1>3. QED
    BY <1>1, <1>2, CloseKeeps

LEMMA DDLKeeps ==
    ASSUME NEW s \in Session, NEW kind, NEW o \in ExecuteDDLStmt(s, kind)
    PROVE  Kept(s, o.s, {})
  <1> DEFINE done == [s EXCEPT !.tx = @ /\ kind \notin {"commit", "rollback"}]
  <1>1. PICK x \in SQLExecDirect(s, "m_IStmt", done) : o.s = StmtClose(x.s, "m_IStmt")
    BY DEF ExecuteDDLStmt, Finally, DirectExecute, CloseMain
  <1>2. Kept(s, done, {})
    BY DEF Kept, Session
  <1>3. QED
    BY <1>1, <1>2, CallKeeps, CloseKept DEF Handles

LEMMA DMLKeeps ==
    ASSUME NEW s \in Session, NEW o \in ExecuteDMLStmt(s)
    PROVE  Kept(s, o.s, {})
  <1>1. PICK x \in Do(DirectExecute(s, Begin(s)), GetRowCount) : o.s = StmtClose(x.s, "m_IStmt")
    BY DEF ExecuteDMLStmt, Finally, CloseMain
  <1>2. PICK y \in SQLExecDirect(s, "m_IStmt", Begin(s)) : x = y \/ x \in GetRowCount(y.s)
    BY <1>1 DEF Do, DirectExecute
  <1>3. Kept(s, y.s, {}) /\ "m_IStmt" \in Handles
    BY <1>2, OpenKeeps, CallKeeps DEF Handles
  <1>4. x.s = y.s \/ x.s = StmtClose(y.s, "m_IStmt")
    BY <1>2, Outcome DEF GetRowCount, CloseMain
  <1>5. QED
    BY <1>1, <1>3, <1>4, CloseKept

LEMMA ExplainKeeps ==
    ASSUME NEW s \in Session, NEW p \in Plans, NEW o \in ExplainPlanExecute(s, p)
    PROVE  Kept(s, o.s, {})
  <1> DEFINE closed == StmtClose(s, "m_IStmt")
  <1>1. Kept(s, closed, {}) /\ closed \in Session
    BY DEF StmtClose, Kept, Session
  <1>2. Kept(s, [closed EXCEPT !.fault = TRUE], {})
    BY <1>1 DEF Kept, Session
  <1>3. Kept(s, [s EXCEPT !.plan = p], {})
    BY DEF Kept, Session
  <1>4. o = Fail(closed) \/ o = Ok([s EXCEPT !.plan = p]) \/ o = Fail([closed EXCEPT !.fault = TRUE])
    BY DEF ExplainPlanExecute, Broken
  <1>5. QED
    BY <1>1, <1>2, <1>3, <1>4, Outcome

LEMMA OtherKeeps ==
    ASSUME NEW s \in Session, NEW isExplain, NEW o \in ExecuteOtherCommandStmt(s, isExplain)
    PROVE  Kept(s, o.s, {})
  <1>1. PICK x : /\ x \in ExplainPlanExecute(s, s.kind) \/ x \in SQLExecDirect(s, "m_IStmt", s)
                 /\ o.s = StmtClose(x.s, "m_IStmt")
    BY DEF ExecuteOtherCommandStmt, Finally, CloseMain, DirectExecute
  <1>2. Kept(s, s, {}) /\ s.kind \in Plans /\ "m_IStmt" \in Handles
    BY DEF Kept, Session, Handles
  <1>3. Kept(s, x.s, {})
    BY <1>1, <1>2, ExplainKeeps, CallKeeps
  <1>4. QED
    BY <1>1, <1>3, CloseKept

LEMMA SelectOpens ==
    ASSUME NEW s \in Session, NEW h \in Handles,
           NEW o \in SelectRows(s, h)
    PROVE  Kept(s, o.s, {h})
  <1>1. PICK x \in SelectExecute(s, h) : o = x \/ o \in FetchSelectStmt(x.s, h)
    BY DEF SelectRows, Do
  <1>2. PICK y \in SQLExecDirect(s, h, Open(h, s)) : x = y \/ x \in {Ok(y.s), Fail(StmtClose(y.s, h))}
    BY DEF SelectExecute, Do
  <1>3. Kept(s, y.s, {h})
    BY OpenKeeps, CallKeeps
  <1>4. Kept(s, x.s, {h})
    BY <1>2, <1>3, CloseKept DEF Ok, Fail
  <1>5. o = x \/ o.s = x.s \/ o.s = StmtClose(x.s, h)
    <2>1. CASE o = x
      BY <2>1
    <2>2. CASE o \in FetchSelectStmt(x.s, h)
      <3>1. PICK z \in Fetch(x.s, h) : o = Ok(z.s)
        BY <2>2 DEF FetchSelectStmt, Ignore
      <3>2. QED
        BY <3>1 DEF Fetch, Ok, Fail
    <2>3. QED
      BY <1>1, <2>1, <2>2
  <1>6. QED
    BY <1>4, <1>5, CloseKept

LEMMA SelectKeeps ==
    ASSUME NEW s \in Session, NEW o \in ExecuteSelectStmt(s)
    PROVE  Kept(s, o.s, {})
  <1>1. PICK x \in SelectRows(s, "m_IStmt") : o.s = StmtClose(x.s, "m_IStmt")
    BY DEF ExecuteSelectStmt, Finally, CloseMain
  <1>2. Kept(s, x.s, {"m_IStmt"})
    BY SelectOpens DEF Handles
  <1>3. QED
    BY <1>1, <1>2, CloseKeeps

-----------------------------------------------------------------------------
(* Prepared statements and EXEC. *)
LEMMA PrepareBoundKeeps ==
    ASSUME NEW s \in Session, NEW o \in PrepareBound(s)
    PROVE  Kept(s, o.s, {})
  <1>1. PICK x \in SQLExecDirect(s, "m_TmpStmt3", s) : o = x \/ o \in BindParam(x.s)
    BY DEF PrepareBound, Prepare, Do
  <1>2. Kept(s, x.s, {})
    BY CallKeeps DEF Kept, Handles
  <1>3. o = x \/ o.s = x.s \/ o.s = StmtClose(x.s, "m_TmpStmt3")
    BY <1>1, Outcome DEF BindParam, ClosePrepared
  <1>4. QED
    BY <1>2, <1>3, CloseKept

LEMMA ExecuteKeeps ==
    ASSUME NEW s \in Session, NEW o \in Execute(s)
    PROVE  Kept(s, o.s, {})
  <1>1. PICK x \in SQLExecDirect(s, "m_TmpStmt3", Begin(s)) : o.s = StmtClose(x.s, "m_TmpStmt3")
    BY DEF Execute, Finally, ClosePrepared
  <1>2. Kept(s, x.s, {})
    BY OpenKeeps, CallKeeps DEF Handles
  <1>3. QED
    BY <1>1, <1>2, CloseKept

LEMMA PrepareDMLKeeps ==
    ASSUME NEW s \in Session, NEW o \in PrepareDMLStmt(s)
    PROVE  Kept(s, o.s, {})
  <1>1. PICK x : /\ \E y \in PrepareBound(s) : x = y \/ x \in Execute(y.s)
                 /\ o.s = StmtClose(x.s, "m_TmpStmt3")
    BY DEF PrepareDMLStmt, Finally, Do, ClosePrepared
  <1>2. PICK y \in PrepareBound(s) : x = y \/ x \in Execute(y.s)
    BY <1>1
  <1>3. Kept(s, y.s, {}) /\ y.s \in Session
    BY PrepareBoundKeeps DEF Kept
  <1>4. Kept(s, x.s, {})
    BY <1>2, <1>3, ExecuteKeeps, KeptTwice
  <1>5. QED
    BY <1>1, <1>4, CloseKept

LEMMA PrepareSelectKeeps ==
    ASSUME NEW s \in Session, NEW o \in PrepareSelectStmt(s)
    PROVE  Kept(s, o.s, {})
  <1>1. PICK x : /\ \E y \in PrepareBound(s) : x = y \/ x \in SelectRows(y.s, "m_TmpStmt3")
                 /\ o.s = StmtClose(x.s, "m_TmpStmt3")
    BY DEF PrepareSelectStmt, SelectPrepared, Finally, Do, ClosePrepared
  <1>2. PICK y \in PrepareBound(s) : x = y \/ x \in SelectRows(y.s, "m_TmpStmt3")
    BY <1>1
  <1>3. Kept(s, y.s, {}) /\ y.s \in Session
    BY PrepareBoundKeeps DEF Kept
  <1>4. Kept(s, x.s, {"m_TmpStmt3"})
    BY <1>2, <1>3, SelectOpens, KeptMore, KeptTwice DEF Handles
  <1>5. QED
    BY <1>1, <1>4, CloseKeeps

LEMMA ProcTypesKeep ==
    ASSUME NEW s \in Session, NEW isFunc, NEW o \in ProcTypes(s, isFunc)
    PROVE  Kept(s, o.s, {})
  <1>0. /\ {"m_TmpStmt", "m_TmpStmt2"} \subseteq Handles
        /\ \A t, H : Kept(s, t, H) /\ H \subseteq Temporary => Kept(s, t, {})
    BY DEF Handles, Kept, Temporary
  <1>1. PICK x \in SQLExecDirect(s, "m_TmpStmt", Open("m_TmpStmt", s)) :
            o = x \/ o = Ok(x.s) \/ o \in GetReturnType(x.s)
    BY DEF ProcTypes, GetProcInfo, Do
  <1>2. Kept(s, x.s, {"m_TmpStmt"})
    BY <1>0, OpenKeeps, CallKeeps
  <1>3. Kept(s, x.s, {}) /\ x.s \in Session
    BY <1>0, <1>2 DEF Temporary, Kept
  <1>4. CASE o = x \/ o = Ok(x.s)
    BY <1>3, <1>4, Outcome
  <1>5. CASE o \in GetReturnType(x.s)
    <2>1. PICK y \in SQLExecDirect(x.s, "m_TmpStmt2", Open("m_TmpStmt2", x.s)) :
              o = y \/ o \in {Ok(y.s), Fail(StmtClose(y.s, "m_TmpStmt2"))}
      BY <1>5 DEF GetReturnType, Do
    <2>2. Kept(x.s, y.s, {"m_TmpStmt2"})
      BY <1>0, <1>3, OpenKeeps, CallKeeps
    <2>3. Kept(s, y.s, {"m_TmpStmt2"})
      BY <1>3, <2>2, KeptMore, KeptTwice
    <2>4. Kept(s, o.s, {"m_TmpStmt2"})
      BY <2>1, <2>3, Outcome, CloseKept
    <2>5. QED
      BY <1>0, <2>4 DEF Temporary
  <1>6. QED
    BY <1>1, <1>4, <1>5

LEMMA BindKeeps ==
    ASSUME NEW s \in Session, NEW isFunc, NEW more, NEW o \in BindHostVariables(s, isFunc, more)
    PROVE  Kept(s, o.s, {})
  <1>1. PICK x \in ProcTypes(s, isFunc) :
            o = x \/ \E y \in ProcBindPara(x.s) : o = y \/ o \in FetchProcInfo(y.s, more)
    BY DEF BindHostVariables, Do
  <1>2. Kept(s, x.s, {})
    BY ProcTypesKeep
  <1>3. ASSUME NEW y \in ProcBindPara(x.s) PROVE Kept(s, y.s, {})
    BY <1>2, <1>3, Outcome, CloseKept DEF ProcBindPara, ClosePrepared
  <1>4. ASSUME NEW y \in ProcBindPara(x.s), o \in FetchProcInfo(y.s, more) PROVE Kept(s, o.s, {})
    <2>1. o.s = y.s \/ o.s = StmtClose(y.s, "m_TmpStmt")
      BY <1>4, Outcome DEF FetchProcInfo
    <2>2. QED
      BY <1>3, <2>1, CloseKept
  <1>5. QED
    BY <1>1, <1>2, <1>3, <1>4

LEMMA ExecKeeps ==
    ASSUME NEW s \in Session, NEW isFunc, NEW binds, NEW more,
           NEW o \in ExecutePSMStmt(s, isFunc, binds, more)
    PROVE  Kept(s, o.s, {})
  <1>1. PICK x : /\ \E y \in PreparePSM(s, isFunc, binds, more) : x = y \/ x \in Execute(y.s)
                 /\ o.s = StmtClose(x.s, "m_TmpStmt3")
    BY DEF ExecutePSMStmt, Finally, Do, ClosePrepared
  <1>2. PICK y \in PreparePSM(s, isFunc, binds, more) : x = y \/ x \in Execute(y.s)
    BY <1>1
  <1>3. PICK z \in SQLExecDirect(s, "m_TmpStmt3", s) :
            y = z \/ y = Ok(z.s) \/ y \in BindHostVariables(z.s, isFunc, more)
    BY <1>2 DEF PreparePSM, Prepare, Do
  <1>4. Kept(s, z.s, {}) /\ z.s \in Session
    BY CallKeeps DEF Kept, Handles
  <1>5. Kept(s, y.s, {}) /\ y.s \in Session
    BY <1>3, <1>4, Outcome, BindKeeps, KeptTwice DEF Kept
  <1>6. Kept(s, x.s, {})
    BY <1>2, <1>5, ExecuteKeeps, KeptTwice
  <1>7. QED
    BY <1>1, <1>6, CloseKept

-----------------------------------------------------------------------------
(* The lists.  They keep the server, what isql believes of the explain     *)
(* mode and its options, and once the server has refused it stays refused; *)
(* what only reads the catalog keeps the mode as well.                     *)
Mode(s, t) ==
    /\ Kept(s, t, {})
    /\ t.server = s.server /\ t.kind = s.kind /\ t.auto = s.auto
    /\ t.planCommit = s.planCommit
    /\ s.fault => t.fault

Quiet(s, t) == Mode(s, t) /\ t.plan = s.plan

LEMMA ModeTwice ==
    ASSUME NEW s \in Session, NEW t, NEW u, Mode(s, t)
    PROVE  /\ Mode(t, u) => Mode(s, u)
           /\ Quiet(s, t) /\ Quiet(t, u) => Quiet(s, u)
  BY DEF Kept, Mode, Quiet

LEMMA QuietSame == \A s \in Session : Mode(s, s) /\ Quiet(s, s)
  BY DEF Kept, Mode, Quiet

LEMMA CloseQuiet ==
    ASSUME NEW s \in Session, NEW h, NEW t, Quiet(s, t)
    PROVE  Quiet(s, StmtClose(t, h))
  BY DEF Kept, Mode, Quiet, StmtClose, Session

(* Opened h, or not, since s. *)
Reads(s, t, h) ==
    /\ Kept(s, t, {h})
    /\ t.server = s.server /\ t.kind = s.kind /\ t.auto = s.auto
    /\ t.planCommit = s.planCommit /\ t.fault = s.fault /\ t.plan = s.plan

LEMMA ReadsOnce ==
    ASSUME NEW s \in Session, NEW h \in Handles, NEW o \in SQLExecDirect(s, h, Open(h, s))
    PROVE  Reads(s, o.s, h)
  <1>1. o = Ok(Open(h, s)) \/ o = Fail(StmtClose(s, h))
    BY DEF SQLExecDirect
  <1>2. Reads(s, Open(h, s), h)
    BY OpenKeeps DEF Reads, Open, Begin, Session
  <1>3. Reads(s, StmtClose(s, h), h)
    BY DEF Reads, StmtClose, Kept, Session
  <1>4. QED
    BY <1>1, <1>2, <1>3, Outcome

LEMMA ReadsAgain ==
    ASSUME NEW s \in Session, NEW t, NEW u, NEW h, Reads(s, t, h), Reads(t, u, h)
    PROVE  Reads(s, u, h)
  BY DEF Reads, Kept

LEMMA ReadsClosed ==
    ASSUME NEW s \in Session, NEW t, NEW h, Reads(s, t, h)
    PROVE  Quiet(s, StmtClose(t, h))
  <1>1. Kept(s, StmtClose(t, h), {}) /\ t \in Session
    BY CloseKeeps DEF Reads, Kept
  <1>2. QED
    BY <1>1 DEF Reads, Quiet, Mode, StmtClose, Session

LEMMA QueryQuiet ==
    ASSUME NEW s \in Session, NEW h \in Handles, NEW o \in Query(s, h)
    PROVE  Quiet(s, o.s) /\ o.s \in Session
  <1>1. PICK x \in SQLExecDirect(s, h, Open(h, s)) : o.s = StmtClose(x.s, h)
    BY DEF Query, Finally
  <1>2. QED
    BY <1>1, ReadsOnce, ReadsClosed DEF Quiet, Mode, Kept

LEMMA CountedQuiet ==
    ASSUME NEW s \in Session, NEW o \in Counted(s)
    PROVE  Quiet(s, o.s) /\ o.s \in Session
  <1>1. PICK x \in Query(s, "m_TmpStmt") : o = x \/ o \in Query(x.s, "m_IStmt")
    BY DEF Counted, Do
  <1>2. Quiet(s, x.s) /\ x.s \in Session
    BY QueryQuiet DEF Handles
  <1>3. QED
    BY <1>1, <1>2, QueryQuiet, ModeTwice DEF Handles, Quiet

LEMMA SequenceQuiet ==
    ASSUME NEW s \in Session, NEW o \in SequenceRows(s)
    PROVE  Quiet(s, o.s) /\ o.s \in Session
  <1>1. PICK x : /\ \E y \in Sequence(s) : x = y \/ x \in FetchNext(y.s)
                 /\ o.s = StmtClose(x.s, "m_IStmt")
    BY DEF SequenceRows, Finally, Do, CloseMain
  <1>2. PICK y \in SQLExecDirect(s, "m_IStmt", Open("m_IStmt", s)) : x = y \/ x \in FetchNext(y.s)
    BY <1>1 DEF Sequence
  <1>3. Reads(s, y.s, "m_IStmt")
    BY ReadsOnce DEF Handles
  <1>4. x.s = y.s \/ x.s = StmtClose(y.s, "m_IStmt")
    BY <1>2, Outcome DEF FetchNext, CloseMain
  <1>5. Quiet(s, StmtClose(y.s, "m_IStmt"))
    BY <1>3, ReadsClosed
  <1>6. QED
    BY <1>1, <1>3, <1>4, <1>5, CloseQuiet DEF Quiet, Mode, Kept

LEMMA ForeignKeysQuiet ==
    ASSUME NEW s \in Session, NEW o \in ShowForeignKeys(s)
    PROVE  Quiet(s, o.s) /\ o.s \in Session
  <1>1. PICK x : /\ \E y \in ForeignKeys(s) : x = y \/ x \in ForeignKeys(y.s)
                 /\ o.s = StmtClose(x.s, "m_IStmt")
    BY DEF ShowForeignKeys, Finally, Do, CloseMain
  <1>2. PICK y \in ForeignKeys(s) : x = y \/ x \in ForeignKeys(y.s)
    BY <1>1
  <1>3. Reads(s, y.s, "m_IStmt") /\ y.s \in Session
    BY ReadsOnce DEF Handles, ForeignKeys, Reads, Kept
  <1>4. Reads(s, x.s, "m_IStmt")
    BY <1>2, <1>3, ReadsOnce, ReadsAgain DEF Handles, ForeignKeys
  <1>5. QED
    BY <1>1, <1>4, ReadsClosed DEF Quiet, Mode, Kept

LEMMA AttributesQuiet ==
    ASSUME NEW s \in Session, NEW o \in ShowAttributes(s)
    PROVE  Quiet(s, o.s) /\ o.s \in Session
  <1>1. PICK x \in ShowColumns(s) :
            o = x \/ \E y \in ShowIndexes(x.s) : o \in ShowKeys(y.s)
    BY DEF ShowAttributes, Do, Ignore
  <1>2. Quiet(s, x.s) /\ x.s \in Session
    <2>1. PICK y \in Query(s, "m_TmpStmt") : x = y \/ x \in Counted(y.s)
      BY DEF ShowColumns, getTBSName, Columns, Do
    <2>2. Quiet(s, y.s) /\ y.s \in Session
      BY QueryQuiet DEF Handles
    <2>3. QED
      BY <2>1, <2>2, CountedQuiet, ModeTwice DEF Quiet
  <1>3. ASSUME NEW y \in ShowIndexes(x.s) PROVE Quiet(s, y.s) /\ y.s \in Session
    <2>1. PICK z \in Query(x.s, "m_IStmt") : y = z \/ y \in Query(z.s, "m_IStmt")
      BY <1>3 DEF ShowIndexes, ShowIndexInfo, Statistics, ShowPrimaryKeys, PrimaryKeys, Do
    <2>2. Quiet(s, z.s) /\ z.s \in Session
      BY <1>2, QueryQuiet, ModeTwice DEF Handles, Quiet
    <2>3. QED
      BY <2>1, <2>2, QueryQuiet, ModeTwice DEF Handles, Quiet
  <1>4. ASSUME NEW y \in ShowIndexes(x.s), o \in ShowKeys(y.s) PROVE Quiet(s, o.s) /\ o.s \in Session
    <2>1. o = Ok(y.s) \/ \E z \in ShowForeignKeys(y.s) : o = Ok(z.s)
      BY <1>4 DEF ShowKeys, Ignore
    <2>2. QED
      BY <1>3, <2>1, Outcome, ForeignKeysQuiet, ModeTwice DEF Quiet
  <1>5. QED
    BY <1>1, <1>2, <1>4

-----------------------------------------------------------------------------
(* The explain mode.  A server that is there and may be asked does what it *)
(* is asked, or it has refused for a reason of its own.                    *)
Ready(s) ==
    /\ Alive(s) /\ "m_IStmt" \notin s.cursors
    /\ s.auto => ~s.tx
    /\ s.planCommit \/ s.auto

LEMMA ReadyStays ==
    ASSUME NEW s \in Session, NEW t, Mode(s, t), Ready(s)
    PROVE  Ready(t)
  BY DEF Mode, Kept, Ready, Alive, Temporary

LEMMA CommitForPlanMode ==
    ASSUME NEW s \in Session, NEW o \in CommitForPlan(s)
    PROVE  /\ Mode(s, o.s) /\ o.s \in Session /\ o.s.plan = s.plan /\ o.ok
           /\ Ready(s) => o.s.fault \/ ~o.s.tx
  <1>1. CASE ~s.auto /\ s.planCommit
    <2>1. PICK x \in EndTran(s) : o = Ok(x.s)
      BY <1>1 DEF CommitForPlan, Ignore
    <2>2. /\ x.s \in {[s EXCEPT !.tx = FALSE], [s EXCEPT !.fault = TRUE], s}
          /\ Ready(s) => x.s # s \/ s.fault \/ ~s.tx
      <3>1. CASE Alive(s)
        <4>1. x.s = [s EXCEPT !.tx = FALSE] \/ x.s = [s EXCEPT !.fault = TRUE]
          BY <3>1, Outcome DEF EndTran, Broken
        <4>2. ~[s EXCEPT !.tx = FALSE].tx /\ [s EXCEPT !.fault = TRUE].fault
          BY DEF Session
        <4>3. QED
          BY <4>1, <4>2
      <3>2. CASE ~Alive(s)
        BY <3>2, Outcome DEF EndTran, Ready
      <3>3. QED
        BY <3>1, <3>2
    <2>3. /\ Mode(s, s) /\ Mode(s, [s EXCEPT !.tx = FALSE]) /\ Mode(s, [s EXCEPT !.fault = TRUE])
          /\ \A t \in {[s EXCEPT !.tx = FALSE], [s EXCEPT !.fault = TRUE], s} :
                t \in Session /\ t.plan = s.plan
          /\ ~[s EXCEPT !.tx = FALSE].tx /\ [s EXCEPT !.fault = TRUE].fault
      BY DEF Mode, Kept, Session
    <2>4. Mode(s, x.s) /\ x.s \in Session /\ x.s.plan = s.plan
      BY <2>2, <2>3
    <2>5. Ready(s) => x.s.fault \/ ~x.s.tx
      BY <2>2, <2>3
    <2>6. QED
      BY <2>1, <2>4, <2>5, Outcome
  <1>2. CASE ~(~s.auto /\ s.planCommit)
    <2>1. o = Ok(s)
      BY <1>2 DEF CommitForPlan
    <2>2. QED
      BY <1>2, <2>1, Outcome, QuietSame DEF Ready
  <1>3. QED
    BY <1>1, <1>2

LEMMA SetPlanMode ==
    ASSUME NEW s \in Session, NEW p \in Plans, NEW o \in SetPlan(s, p)
    PROVE  /\ Mode(s, o.s) /\ o.s \in Session
           /\ Ready(s) => o.s.fault \/ (o.ok /\ o.s.plan = p)
  <1>1. PICK x \in CommitForPlan(s) : o \in ExplainPlanExecute(x.s, p)
    BY CommitForPlanMode DEF SetPlan, Do
  <1>2. /\ Mode(s, x.s) /\ x.s \in Session
        /\ Ready(s) => x.s.fault \/ ~x.s.tx
    BY CommitForPlanMode
  <1> DEFINE closed == StmtClose(x.s, "m_IStmt")
             asked  == [x.s EXCEPT !.plan = p]
             broken == [closed EXCEPT !.fault = TRUE]
  <1>3. /\ o \in {Ok(asked), Fail(broken), Fail(closed)}
        /\ o = Fail(closed) => o = Fail(broken) \/ ~Alive(x.s) \/ x.s.tx \/ "m_IStmt" \in x.s.cursors
    <2>1. CASE ~Alive(x.s) \/ x.s.tx \/ (Strict /\ "m_IStmt" \in x.s.cursors)
      BY <1>1, <2>1 DEF ExplainPlanExecute
    <2>2. CASE ~(~Alive(x.s) \/ x.s.tx \/ (Strict /\ "m_IStmt" \in x.s.cursors))
      <3>1. o = Ok(asked) \/ o = Fail(broken)
        BY <1>1, <2>2 DEF ExplainPlanExecute, Broken
      <3>2. o = Ok(asked) => o # Fail(closed)
        BY Outcome
      <3>3. QED
        BY <3>1, <3>2
    <2>3. QED
      BY <2>1, <2>2
  <1>4. /\ Mode(x.s, closed) /\ closed \in Session /\ closed.fault = x.s.fault
        /\ Mode(x.s, asked) /\ asked \in Session /\ asked.plan = p
        /\ Mode(x.s, broken) /\ broken \in Session /\ broken.fault
    BY <1>2 DEF Mode, Kept, StmtClose, Session
  <1>5. Mode(s, o.s) /\ o.s \in Session
    BY <1>2, <1>3, <1>4, Outcome, ModeTwice
  <1>6. ASSUME Ready(s) PROVE o.s.fault \/ (o.ok /\ o.s.plan = p)
    <2>1. Ready(x.s) /\ (x.s.fault \/ ~x.s.tx)
      BY <1>2, <1>6, ReadyStays
    <2>2. CASE o = Ok(asked)
      BY <1>4, <2>2, Outcome
    <2>3. CASE o = Fail(broken)
      BY <1>4, <2>3, Outcome
    <2>4. CASE o = Fail(closed)
      <3>1. o = Fail(broken) \/ x.s.tx
        BY <1>3, <2>1, <2>4 DEF Ready
      <3>2. QED
        BY <1>4, <2>1, <2>3, <2>4, <3>1, Outcome
    <2>5. QED
      BY <1>3, <2>2, <2>3, <2>4
  <1>7. QED
    BY <1>5, <1>6

(* What a list does on its way: without plans it never asks for a mode. *)
Listing(s, t) == Mode(s, t) /\ t \in Session /\ (s.kind = "off" => t.plan = s.plan)

LEMMA ListingTwice ==
    ASSUME NEW s \in Session, NEW t, NEW u, Listing(s, t)
    PROVE  /\ Listing(t, u) => Listing(s, u)
           /\ Quiet(t, u) => Listing(s, u)
  <1>1. t \in Session
    BY DEF Listing
  <1>2. Quiet(t, u) => Listing(t, u)
    BY <1>1 DEF Quiet, Listing, Mode, Kept
  <1>3. Listing(t, u) => Listing(s, u)
    BY <1>1, ModeTwice DEF Listing, Mode
  <1>4. QED
    BY <1>2, <1>3

LEMMA PlanOffLists ==
    ASSUME NEW s \in Session, NEW o \in WithPlanOff(s)
    PROVE  /\ Listing(s, o.s)
           /\ Ready(s) => o.s.fault \/ o.ok
  <1>1. (o = Fail(s) /\ ~s.conn) \/ o \in PlanOff(s)
    BY Outcome DEF WithPlanOff, GetConnectAttr, Do
  <1>2. CASE o = Fail(s) /\ ~s.conn
    BY <1>2, Outcome, QuietSame DEF Listing, Ready, Alive
  <1>3. CASE o \in PlanOff(s)
    <2>1. CASE s.kind = "off"
      BY <1>3, <2>1, Outcome, QuietSame DEF PlanOff, Listing
    <2>2. CASE s.kind # "off"
      <3>1. o \in SetPlan(s, "off") /\ "off" \in Plans
        BY <1>3, <2>2 DEF PlanOff, Plans
      <3>2. QED
        BY <2>2, <3>1, SetPlanMode DEF Listing
    <2>3. QED
      BY <2>1, <2>2
  <1>4. QED
    BY <1>1, <1>2, <1>3

(* The mode is given back. *)
Restored(s, t) ==
    /\ Listing(s, t)
    /\ Ready(s) /\ s.plan = s.kind => t.fault \/ t.plan = s.kind

LEMMA RestoreLists ==
    ASSUME NEW s \in Session, NEW t, Listing(s, t), NEW o \in PlanRestore(t)
    PROVE  Restored(s, o.s)
  <1>1. t \in Session /\ t.kind \in Plans /\ t.kind = s.kind /\ Mode(s, t)
    BY DEF Listing, Mode, Session
  <1>2. CASE t.kind = "off"
    <2>1. o.s = t
      BY <1>2, Outcome DEF PlanRestore
    <2>2. QED
      BY <1>1, <1>2, <2>1 DEF Restored, Listing
  <1>3. CASE t.kind # "off"
    <2>1. o \in SetPlan(t, t.kind)
      BY <1>3 DEF PlanRestore
    <2>2. Mode(t, o.s) /\ o.s \in Session /\ (Ready(t) => o.s.fault \/ o.s.plan = t.kind)
      BY <1>1, <2>1, SetPlanMode
    <2>3. Mode(s, o.s)
      BY <1>1, <2>2, ModeTwice
    <2>4. Ready(s) => Ready(t)
      BY <1>1, ReadyStays
    <2>5. QED
      BY <1>1, <1>3, <2>2, <2>3, <2>4 DEF Restored, Listing
  <1>4. QED
    BY <1>2, <1>3

LEMMA ListRestores ==
    ASSUME NEW s \in Session, NEW S, \A y \in S : Listing(s, y.s), NEW o \in ListRestored(S)
    PROVE  Restored(s, o.s)
  <1>1. PICK y \in S :
            \/ o \in PlanRestore(y.s)
            \/ \E q \in PlanRestore(y.s) : o = Fail(q.s)
            \/ \E r \in PlanRestore(y.s) : \E q \in PlanRestore(r.s) : o = Fail(q.s)
    BY DEF ListRestored
  <1>2. ASSUME NEW r \in PlanRestore(y.s) PROVE Restored(s, r.s) /\ Listing(s, r.s)
    BY <1>2, RestoreLists DEF Restored
  <1>3. ASSUME NEW r \in PlanRestore(y.s), NEW q \in PlanRestore(r.s) PROVE Restored(s, q.s)
    BY <1>2, RestoreLists
  <1>4. QED
    BY <1>1, <1>2, <1>3, Outcome

ListOutcomes(s) == DisplayTableList(s) \cup DisplayFixedTableList(s) \cup DisplaySequenceList(s)
                   \cup DisplayAttributeList(s) \cup DisplayAttributeList4FTnPV(s)

LEMMA ListsRestore ==
    ASSUME NEW s \in Session, NEW o \in ListOutcomes(s)
    PROVE  Restored(s, o.s)
  <1>1. PICK x \in WithPlanOff(s) :
            \/ o = x /\ ~x.ok
            \/ o \in ListRestored(Tables(x.s))
            \/ o \in ListRestored(FixedTables(x.s))
            \/ o \in ListRestored(SequenceRows(x.s))
            \/ \E y \in ShowAttributes(x.s) \cup Columns4FTnPV(x.s) : o \in PlanRestore(y.s)
    <2>1. CASE o \in DisplayTableList(s)
      BY <2>1 DEF DisplayTableList, Do
    <2>2. CASE o \in DisplayFixedTableList(s)
      BY <2>2 DEF DisplayFixedTableList, Do
    <2>3. CASE o \in DisplaySequenceList(s)
      BY <2>3 DEF DisplaySequenceList, Do
    <2>4. CASE o \in DisplayAttributeList(s)
      BY <2>4 DEF DisplayAttributeList, Do, Ignore
    <2>5. CASE o \in DisplayAttributeList4FTnPV(s)
      BY <2>5 DEF DisplayAttributeList4FTnPV, ShowColumns4FTnPV, Do, Ignore
    <2>6. QED
      BY <2>1, <2>2, <2>3, <2>4, <2>5 DEF ListOutcomes
  <1>2. Listing(s, x.s) /\ x.s \in Session /\ (Ready(s) => x.s.fault \/ x.ok)
    BY PlanOffLists DEF Listing
  <1>3. CASE o = x /\ ~x.ok
    BY <1>2, <1>3 DEF Restored
  <1>4. \A y \in Tables(x.s) \cup SequenceRows(x.s) \cup ShowAttributes(x.s) : Listing(s, y.s)
    BY <1>2, CountedQuiet, SequenceQuiet, AttributesQuiet, ListingTwice DEF Tables
  <1>5. \A y \in FixedTables(x.s) \cup Columns4FTnPV(x.s) : Listing(s, y.s)
    BY <1>2, Outcome DEF FixedTables, Columns4FTnPV
  <1>6. QED
    BY <1>1, <1>3, <1>4, <1>5, ListRestores, RestoreLists

-----------------------------------------------------------------------------
(* Who is logged on. *)
LoggedOn(s) ==
    /\ s \in Session
    /\ {"m_IStmt", "m_TmpStmt3"} \cap s.cursors = {}
    /\ s.conn => s.sysdba = s.admin
    /\ s.auto => ~s.tx

LEMMA KeptLoggedOn ==
    ASSUME NEW s, NEW t, LoggedOn(s), Kept(s, t, {})
    PROVE  LoggedOn(t)
  BY DEF LoggedOn, Kept, Temporary

LEMMA ConnectLogsOn ==
    ASSUME NEW s \in Session, ~s.conn, LoggedOn(s), NEW asSysdba \in BOOLEAN, NEW o \in Connect(s, asSysdba)
    PROVE  /\ o.s \in Session
           /\ ~o.ok => o.s = s
           /\ o.ok => o.s.conn /\ o.s.admin = asSysdba /\ o.s.auto /\ ~o.s.tx /\ o.s.cursors = {}
                      /\ o.s.sysdba = s.sysdba
  <1> DEFINE on == [s EXCEPT !.conn = TRUE, !.admin = asSysdba, !.auto = TRUE, !.tx = FALSE,
                             !.plan = "off", !.cursors = {}]
  <1>1. o = Fail(s) \/ o = Ok(on)
    BY DEF Connect
  <1>2. /\ on \in Session /\ on.conn /\ on.admin = asSysdba /\ on.auto /\ ~on.tx /\ on.cursors = {}
        /\ on.sysdba = s.sysdba
    BY DEF Session, Plans
  <1> HIDE DEF on
  <1>3. CASE o = Fail(s)
    BY <1>3, Outcome
  <1>4. CASE o = Ok(on)
    BY <1>2, <1>4, Outcome
  <1>5. QED
    BY <1>1, <1>3, <1>4

LEMMA CloseLogsOff ==
    ASSUME NEW s \in Session
    PROVE  /\ Close(s) \in Session /\ ~Close(s).conn /\ Close(s).cursors = {} /\ ~Close(s).tx
           /\ Close(s).sysdba = s.sysdba
           /\ LoggedOn(Close(s)) /\ LoggedOn(ExecuteDisconnectStmt(s)) /\ LoggedOn(disconnectCommand(s))
           /\ ~ExecuteDisconnectStmt(s).conn /\ ~disconnectCommand(s).conn
  <1>1. /\ Close(s) \in Session /\ ~Close(s).conn /\ Close(s).cursors = {} /\ ~Close(s).tx
        /\ Close(s).sysdba = s.sysdba
    BY DEF Close, Session
  <1>2. /\ ExecuteDisconnectStmt(s) \in Session /\ ~ExecuteDisconnectStmt(s).conn
        /\ ExecuteDisconnectStmt(s).cursors = {} /\ ~ExecuteDisconnectStmt(s).tx
    BY <1>1, TextsAssumption DEF ExecuteDisconnectStmt, Session
  <1>3. /\ disconnectCommand(s) \in Session /\ ~disconnectCommand(s).conn
        /\ disconnectCommand(s).cursors = {} /\ ~disconnectCommand(s).tx
    BY <1>2 DEF disconnectCommand, Session
  <1>4. QED
    BY <1>1, <1>2, <1>3 DEF LoggedOn

LEMMA UserConnects ==
    ASSUME NEW s \in Session, NEW user \in Texts, NEW asSysdba \in BOOLEAN, NEW sameUser,
           NEW o \in connectCommand(s, user, asSysdba, sameUser)
    PROVE  LoggedOn(o.s)
  <1> DEFINE gone == ExecuteDisconnectStmt(s)
  <1>1. gone \in Session /\ ~gone.conn /\ LoggedOn(gone)
    BY CloseLogsOff DEF LoggedOn
  <1>2. CASE o = Fail(gone)
    BY <1>1, <1>2, Outcome
  <1>3. ASSUME NEW x \in ExecuteConnectStmt(gone, user, asSysdba),
               o = IF x.ok THEN Ok([x.s EXCEPT !.sysdba = asSysdba]) ELSE x
        PROVE  LoggedOn(o.s)
    <2>1. PICK y \in Connect(Close(gone), asSysdba) : x = [y EXCEPT !.s.user = IF y.ok THEN user ELSE ""]
      BY <1>3 DEF ExecuteConnectStmt
    <2>2. /\ y.s \in Session /\ (~y.ok => y.s = Close(gone)) /\ LoggedOn(Close(gone)) /\ ~Close(gone).conn
          /\ y.ok => y.s.conn /\ y.s.admin = asSysdba /\ y.s.auto /\ ~y.s.tx /\ y.s.cursors = {}
      BY <1>1, CloseLogsOff, ConnectLogsOn
    <2>3. \E t : y = Ok(t) \/ y = Fail(t)
      BY DEF Connect
    <2>4. x.s = [y.s EXCEPT !.user = IF y.ok THEN user ELSE ""] /\ x.ok = y.ok
      BY <2>1, <2>3 DEF Ok, Fail
    <2>5. CASE y.ok
      <3>1. /\ x.s \in Session /\ x.s.conn /\ x.s.admin = asSysdba /\ x.s.auto /\ ~x.s.tx
            /\ x.s.cursors = {}
        BY <2>2, <2>4, <2>5 DEF Session
      <3>2. o.s = [x.s EXCEPT !.sysdba = asSysdba]
        BY <1>3, <2>4, <2>5, Outcome
      <3>3. QED
        BY <3>1, <3>2 DEF LoggedOn, Session
    <2>6. CASE ~y.ok
      <3>1. o = x
        BY <1>3, <2>4, <2>6
      <3>2. o.s = [y.s EXCEPT !.user = ""]
        BY <2>4, <2>6, <3>1
      <3>3. QED
        BY <2>2, <2>6, <3>2, TextsAssumption DEF LoggedOn, Session
    <2>7. QED
      BY <2>5, <2>6
  <1>4. \/ o = Fail(gone)
        \/ \E x \in ExecuteConnectStmt(gone, user, asSysdba) :
              o = IF x.ok THEN Ok([x.s EXCEPT !.sysdba = asSysdba]) ELSE x
    BY DEF connectCommand, Do
  <1>5. QED
    BY <1>2, <1>3, <1>4

LEMMA ShutdownLogsOn ==
    ASSUME NEW s \in Session, LoggedOn(s), s.sysdba, NEW abort, NEW o \in Shutdown(s, abort)
    PROVE  LoggedOn(o.s)
  <1>1. PICK x : /\ x = Ok(s) \/ x \in ExecuteSysdbaCommandStmt(s)
                 /\ o = x \/ o \in Connect(Close(x.s), TRUE)
    BY DEF Shutdown, ConnectDB, Do
  <1>2. Kept(s, x.s, {})
    <2>1. CASE x = Ok(s)
      BY <2>1, Outcome, QuietSame DEF Mode
    <2>2. CASE x \in ExecuteSysdbaCommandStmt(s)
      <3>1. PICK y \in SQLExecDirect(s, "m_IStmt", s) : x.s = StmtClose(y.s, "m_IStmt")
        BY <2>2 DEF ExecuteSysdbaCommandStmt, Finally, DirectExecute, CloseMain
      <3>2. QED
        BY <3>1, CallKeeps, CloseKept, QuietSame DEF Handles, Mode
    <2>3. QED
      BY <1>1, <2>1, <2>2
  <1>3. LoggedOn(x.s) /\ x.s \in Session /\ x.s.sysdba = TRUE
    BY <1>2, KeptLoggedOn DEF Kept, Session
  <1>4. CASE o \in Connect(Close(x.s), TRUE)
    <2>1. /\ Close(x.s) \in Session /\ ~Close(x.s).conn /\ LoggedOn(Close(x.s))
          /\ Close(x.s).sysdba = TRUE
      BY <1>3, CloseLogsOff
    <2>2. QED
      BY <1>4, <2>1, ConnectLogsOn DEF LoggedOn
  <1>5. QED
    BY <1>1, <1>3, <1>4

(* Each command for the server, and the two options of isql. *)
LEMMA ServerCommandKeeps ==
    ASSUME NEW s \in Session, LoggedOn(s), NEW c \in Command, c.kind \in ServerKinds,
           NEW o \in Outcomes(s, c)
    PROVE  LoggedOn(o.s)
  <1>1. CASE c.kind \in {"ddl", "commit", "rollback", "dml", "select", "explain", "other"}
    <2>1. Kept(s, o.s, {})
      BY <1>1, DDLKeeps, DMLKeeps, SelectKeeps, OtherKeeps DEF Outcomes
    <2>2. QED
      BY <2>1, KeptLoggedOn
  <1>2. CASE c.kind \in {"tables", "xtables", "sequence", "desc", "desc$"}
    <2>1. o \in ListOutcomes(s)
      BY <1>2 DEF Outcomes, ListOutcomes
    <2>2. QED
      BY <2>1, ListsRestore, KeptLoggedOn DEF Restored, Listing, Mode
  <1>3. CASE c.kind = "autocommit"
    <2>1. o \in AutoCommit(s, c.arg = "on")
      BY <1>3 DEF Outcomes
    <2>2. o.s = s \/ o.s = [s EXCEPT !.auto = (c.arg = "on"), !.tx = @ /\ ~(c.arg = "on")]
      BY <2>1, Outcome DEF AutoCommit
    <2>3. QED
      BY <2>2 DEF LoggedOn, Session
  <1>4. CASE c.kind = "startup"
    <2>1. o = Fail(s) \/ o \in ExecuteOtherCommandStmt(s, FALSE)
      BY <1>4 DEF Outcomes, SysdbaOnly, Startup
    <2>2. QED
      BY <2>1, Outcome, OtherKeeps, KeptLoggedOn
  <1>5. CASE c.kind = "shutdown"
    <2>1. o = Fail(s) \/ (s.sysdba /\ o \in Shutdown(s, c.arg = "abort"))
      BY <1>5 DEF Outcomes, SysdbaOnly
    <2>2. QED
      BY <2>1, Outcome, ShutdownLogsOn
  <1>6. QED
    BY <1>1, <1>2, <1>3, <1>4, <1>5 DEF ServerKinds

-----------------------------------------------------------------------------
(* The input: script mode, and the user's input at the bottom. *)
Fits(x, f) ==
    /\ x \in Input
    /\ x.list # <<>> => (x.fileRead <=> f \/ Len(x.list) > 1)
    /\ \A i \in DOMAIN x.list : x.list[i].name = Stdin => i = Len(x.list) /\ ~f

LEMMA PushFits ==
    ASSUME NEW x, NEW f \in BOOLEAN, Fits(x, f), x.list # <<>>, NEW sc \in File, sc.name # Stdin
    PROVE  Fits(SetScriptFile(x, sc), f) /\ SetScriptFile(x, sc).list # <<>>
  <1> DEFINE y == SetScriptFile(x, sc)
  <1>1. x.list \in Seq(File) /\ Len(x.list) \in Nat /\ Len(x.list) > 0
    BY DEF Fits, Input
  <1>2. y \in Input /\ y.list = <<sc>> \o x.list /\ y.fileRead = TRUE
    <2>1. <<sc>> \o x.list \in Seq(File)
      BY <1>1
    <2>2. QED
      BY <2>1 DEF Fits, Input, SetScriptFile
  <1>3. /\ Len(y.list) = 1 + Len(x.list) /\ DOMAIN y.list = 1..(1 + Len(x.list)) /\ y.list # <<>>
        /\ \A i \in 1..(1 + Len(x.list)) : y.list[i] = IF i = 1 THEN sc ELSE x.list[i - 1]
    BY <1>1, <1>2
  <1>4. \A i \in DOMAIN y.list : y.list[i].name = Stdin => i = Len(y.list) /\ ~f
    <2>1. ASSUME NEW i \in DOMAIN y.list, y.list[i].name = Stdin PROVE i = Len(y.list) /\ ~f
      <3>1. i # 1 /\ i - 1 \in 1..Len(x.list) /\ x.list[i - 1].name = Stdin
        BY <1>1, <1>3, <2>1
      <3>2. i - 1 = Len(x.list) /\ ~f
        BY <1>1, <3>1 DEF Fits
      <3>3. QED
        BY <1>1, <1>3, <3>1, <3>2
    <2>2. QED
      BY <2>1
  <1>5. Len(y.list) > 1
    BY <1>1, <1>3
  <1>6. QED
    BY <1>2, <1>3, <1>4, <1>5 DEF Fits

LEMMA ResetFits ==
    ASSUME NEW x, NEW f \in BOOLEAN, Fits(x, f), x.list # <<>>
    PROVE  Fits(ResetInput(x, f), f)
  <1> DEFINE rest == Tail(x.list)
             read == IF rest = <<>> \/ (~f /\ Len(rest) = 1) THEN FALSE ELSE x.fileRead
             y    == [x EXCEPT !.list = rest, !.fileRead = read]
  <1>1. x.list \in Seq(File) /\ Len(x.list) \in Nat /\ Len(x.list) > 0 /\ x.fileRead \in BOOLEAN
    BY DEF Fits, Input
  <1>2. /\ rest \in Seq(File) /\ Len(rest) = Len(x.list) - 1 /\ DOMAIN rest = 1..Len(rest)
        /\ \A i \in 1..Len(rest) : rest[i] = x.list[i + 1]
    BY <1>1
  <1>3. y = ResetInput(x, f)
    BY DEF ResetInput
  <1>4. y \in Input /\ y.list = rest /\ y.fileRead = read
    BY <1>1, <1>2 DEF Fits, Input
  <1>5. rest # <<>> => (read <=> f \/ Len(rest) > 1)
    <2>1. x.fileRead <=> f \/ Len(x.list) > 1
      BY DEF Fits
    <2>2. /\ rest # <<>> /\ Len(rest) # 1 => Len(rest) > 1
          /\ Len(rest) = 1 => ~(Len(rest) > 1)
      <3>1. \A n \in Nat : (n # 0 /\ n # 1 => n > 1) /\ (n = 1 => ~(n > 1))
        OBVIOUS
      <3>2. rest # <<>> => Len(rest) # 0
        BY <1>2, EmptySeq
      <3>3. Len(rest) \in Nat
        BY <1>1, <1>2
      <3>4. QED
        BY <3>1, <3>2, <3>3, Zenon
    <2>3. CASE rest = <<>> \/ (~f /\ Len(rest) = 1)
      <3>1. ~read /\ (rest # <<>> => ~f /\ ~(Len(rest) > 1))
        BY <2>2, <2>3, Zenon
      <3>2. QED
        BY <3>1
    <2>4. CASE ~(rest = <<>> \/ (~f /\ Len(rest) = 1))
      <3>1. f \/ Len(rest) > 1
        BY <2>2, <2>4, Zenon
      <3>2. x.fileRead
        BY <1>1, <1>2, <2>1, <3>1
      <3>3. read
        BY <2>4, <3>2, Zenon
      <3>4. QED
        BY <3>1, <3>3
    <2>5. QED
      BY <2>3, <2>4
  <1>6. ASSUME NEW i \in DOMAIN rest, rest[i].name = Stdin PROVE i = Len(rest) /\ ~f
    <2>1. i + 1 \in DOMAIN x.list /\ x.list[i + 1].name = Stdin
      BY <1>1, <1>2, <1>6
    <2>2. i + 1 = Len(x.list) /\ ~f
      BY <2>1 DEF Fits
    <2>3. QED
      BY <1>1, <1>2, <1>6, <2>2
  <1>7. QED
    BY <1>3, <1>4, <1>5, <1>6 DEF Fits

(* What leaves the stack and the mode alone. *)
LEMMA FlagsFit ==
    ASSUME NEW x, NEW y \in Input, NEW f, Fits(x, f), y.list = x.list, y.fileRead = x.fileRead
    PROVE  Fits(y, f)
  BY DEF Fits

LEMMA ReadFits ==
    ASSUME NEW x, NEW f \in BOOLEAN, Fits(x, f), x.list # <<>>, Top(x).rest # <<>>
    PROVE  Fits(ReadCommand(x), f) /\ ReadCommand(x).list # <<>> /\ Head(Top(x).rest) \in Command
  <1> DEFINE top  == [x.list[1] EXCEPT !.rest = Tail(x.list[1].rest)]
             next == [x EXCEPT !.list = [x.list EXCEPT ![1] = top]]
  <1>1. x.list \in Seq(File) /\ Len(x.list) \in Nat /\ Len(x.list) > 0 /\ x.list[1] \in File
    BY DEF Fits, Input
  <1>2. top \in File /\ top.name = x.list[1].name /\ Head(Top(x).rest) \in Command
    <2>1. x.list[1].rest \in Seq(Command) /\ x.list[1].rest # <<>>
      BY <1>1 DEF File, Top
    <2>2. Head(x.list[1].rest) \in Command /\ Tail(x.list[1].rest) \in Seq(Command)
      BY <2>1
    <2>3. QED
      BY <1>1, <2>2 DEF File, Top
  <1>3. /\ [x.list EXCEPT ![1] = top] \in Seq(File) /\ Len([x.list EXCEPT ![1] = top]) = Len(x.list)
        /\ DOMAIN [x.list EXCEPT ![1] = top] = DOMAIN x.list
        /\ \A i \in DOMAIN x.list : [x.list EXCEPT ![1] = top][i].name = x.list[i].name
    BY <1>1, <1>2
  <1>4. next \in Input /\ next.list = [x.list EXCEPT ![1] = top] /\ next.fileRead = x.fileRead
    BY <1>1, <1>3 DEF Fits, Input
  <1>5. Fits(next, f) /\ next.list # <<>>
    BY <1>1, <1>3, <1>4 DEF Fits
  <1>6. ReadCommand(x) = next \/ ReadCommand(x) = EndOfFile(next)
    BY DEF ReadCommand, Top
  <1>7. /\ EndOfFile(next) \in Input /\ EndOfFile(next).list = next.list
        /\ EndOfFile(next).fileRead = next.fileRead
    BY <1>4 DEF EndOfFile, Input
  <1>8. QED
    BY <1>2, <1>5, <1>6, <1>7, FlagsFit

LEMMA LoginFits ==
    ASSUME NEW o \in Options, NEW x, Fits(x, o.inFile), x.list # <<>>
    PROVE  Fits(ExecuteLoginScripts(x, o.scripts, o.home), o.inFile)
  <1> DEFINE y == gExecuteLogin(x, o.scripts)
             z == gExecuteGlogin(y, o.scripts, o.home)
  <1>1. /\ o.inFile \in BOOLEAN
        /\ \A f \in DOMAIN o.scripts : o.scripts[f] \in File /\ o.scripts[f].name # Stdin
    BY OptionsAssumption
  <1>2. \A v : Fits(v, o.inFile) => /\ v \in Input
                                    /\ Fits([v EXCEPT !.login = TRUE], o.inFile)
                                    /\ Fits([v EXCEPT !.login = FALSE], o.inFile)
                                    /\ Fits([v EXCEPT !.glogin = TRUE], o.inFile)
                                    /\ Fits([v EXCEPT !.glogin = FALSE], o.inFile)
                                    /\ [v EXCEPT !.login = TRUE].list = v.list
                                    /\ [v EXCEPT !.login = FALSE].list = v.list
    BY DEF Fits, Input
  <1>3. Fits(y, o.inFile) /\ y.list # <<>>
    <2>1. CASE "login" \in DOMAIN o.scripts
      <3>1. LET v == SetScriptFile(x, o.scripts["login"])
            IN  Fits(v, o.inFile) /\ v.list # <<>> /\ y = [v EXCEPT !.login = TRUE]
        BY <1>1, <2>1, PushFits DEF gExecuteLogin
      <3>2. QED
        BY <1>2, <3>1
    <2>2. CASE "login" \notin DOMAIN o.scripts
      BY <1>2, <2>2 DEF gExecuteLogin
    <2>3. QED
      BY <2>1, <2>2
  <1>4. Fits(z, o.inFile)
    <2>1. CASE o.home /\ "glogin" \in DOMAIN o.scripts
      BY <1>1, <1>2, <1>3, <2>1, PushFits DEF gExecuteGlogin
    <2>2. CASE ~(o.home /\ "glogin" \in DOMAIN o.scripts)
      BY <1>2, <1>3, <2>2 DEF gExecuteGlogin
    <2>3. QED
      BY <2>1, <2>2
  <1>5. QED
    BY <1>4 DEF ExecuteLoginScripts

-----------------------------------------------------------------------------
(* The history.  Remainders first: the provers know only what a division   *)
(* by a constant does.                                                     *)
LEMMA Division ==
    ASSUME NEW L \in Nat, NEW m \in Nat, m > 0
    PROVE  L = m * (L \div m) + (L % m) /\ L \div m \in Int /\ L % m \in 0..(m - 1)
  OBVIOUS

LEMMA Multiple ==
    ASSUME NEW m \in Nat, NEW d \in Int, m > 0, d # 0
    PROVE  m * d >= m \/ m * d <= -m
  <1>1. d >= 1 \/ d <= -1
    OBVIOUS
  <1>2. CASE d >= 1
    <2>1. m * d = m * (d - 1) + m /\ m * (d - 1) >= 0
      BY <1>2
    <2>2. QED
      BY <2>1
  <1>3. CASE d <= -1
    BY <1>3
  <1>4. QED
    BY <1>1, <1>2, <1>3

LEMMA OneRemainder ==
    ASSUME NEW m \in Nat, m > 0, NEW q \in Int, NEW p \in Int,
           NEW r \in 0..(m - 1), NEW s \in 0..(m - 1), m * q + r = m * p + s
    PROVE  r = s
  <1>1. m * (q - p) = s - r
    OBVIOUS
  <1>2. q - p # 0 => m * (q - p) >= m \/ m * (q - p) <= -m
    BY Multiple
  <1>3. s - r < m /\ s - r > -m
    OBVIOUS
  <1>4. QED
    BY <1>1, <1>2, <1>3

LEMMA NextRemainder ==
    ASSUME NEW L \in Nat, NEW m \in Nat, m > 1
    PROVE  (L + 1) % m = IF L % m = m - 1 THEN 0 ELSE (L % m) + 1
  <1> DEFINE q == L \div m
             r == L % m
             p == (L + 1) \div m
             s == (L + 1) % m
  <1>1. /\ r \in 0..(m - 1) /\ s \in 0..(m - 1) /\ q \in Int /\ p \in Int
        /\ L = m * q + r /\ L + 1 = m * p + s
    BY Division
  <1> HIDE DEF q, r, p, s
  <1>2. CASE r = m - 1
    <2>1. m * (q + 1) = m * q + m
      BY <1>1
    <2>2. m * (q + 1) + 0 = m * p + s
      BY <1>1, <1>2, <2>1
    <2>3. s = 0
      BY <1>1, <2>2, OneRemainder
    <2>4. QED
      BY <1>2, <2>3 DEF r, s
  <1>3. CASE r # m - 1
    <2>1. m * q + (r + 1) = m * p + s /\ r + 1 \in 0..(m - 1)
      BY <1>1, <1>3
    <2>2. s = r + 1
      BY <1>1, <2>1, OneRemainder
    <2>3. QED
      BY <1>3, <2>2 DEF r, s
  <1>4. QED
    BY <1>2, <1>3

LEMMA RemaindersDiffer ==
    ASSUME NEW L \in Nat, NEW m \in Nat, m > 1, NEW d \in 1..(m - 1), d <= L
    PROVE  (L - d) % m # L % m
  <1> DEFINE q == L \div m
             r == L % m
             p == (L - d) \div m
             s == (L - d) % m
  <1>1. /\ r \in 0..(m - 1) /\ s \in 0..(m - 1) /\ q \in Int /\ p \in Int
        /\ L = m * q + r /\ L - d = m * p + s
    BY Division
  <1> HIDE DEF q, r, p, s
  <1>2. SUFFICES ASSUME s = r PROVE FALSE
    BY DEF r, s
  <1>3. m * (q - p) = m * q - m * p
    BY <1>1
  <1>4. m * (q - p) + 0 = m * 0 + d
    BY <1>1, <1>2, <1>3
  <1>5. 0 = d
    BY <1>1, <1>4, OneRemainder
  <1>6. QED
    BY <1>5

(* Where the entry that follows L commands goes. *)
Place(L) == (L % (Slots - 1)) + 1

LEMMA Places ==
    ASSUME NEW L \in Nat
    PROVE  /\ Place(L) \in 1 .. Slots - 1
           /\ Place(L + 1) = IF Place(L) = Slots - 1 THEN 1 ELSE Place(L) + 1
           /\ L < Slots - 1 => Place(L) = L + 1
           /\ \A d \in 1 .. Slots - 2 : d <= L => Place(L - d) # Place(L)
  <1> DEFINE m == Slots - 1
  <1>1. m \in Nat /\ m > 1
    BY SlotsAssumption
  <1>2. \A k \in Nat : Place(k) = (k % m) + 1
    BY DEF Place
  <1> HIDE DEF m
  <1>3. \A k \in Nat : k % m \in 0..(m - 1)
    BY <1>1, Division
  <1>4. L < m => L % m = L
    <2>1. SUFFICES ASSUME L < m PROVE L % m = L
      OBVIOUS
    <2>2. m * (L \div m) + (L % m) = m * 0 + L /\ L \in 0..(m - 1) /\ L \div m \in Int
      <3>1. L = m * (L \div m) + (L % m) /\ L \div m \in Int
        BY <1>1, Division
      <3>2. QED
        BY <1>1, <2>1, <3>1
    <2>3. QED
      BY <1>1, <1>3, <2>2, OneRemainder
  <1>5. ASSUME NEW d \in 1..(m - 1), d <= L PROVE Place(L - d) # Place(L)
    <2>1. (L - d) % m # L % m /\ L - d \in Nat
      <3>1. (L - d) % m # L % m
        BY <1>1, <1>5, RemaindersDiffer, Zenon
      <3>2. QED
        BY <1>1, <1>5, <3>1
    <2>2. (L - d) % m \in 0..(m - 1) /\ L % m \in 0..(m - 1)
      BY <1>3, <2>1
    <2>3. QED
      BY <1>1, <1>2, <2>1, <2>2
  <1>6. /\ Place(L) \in 1..m
        /\ Place(L + 1) = IF Place(L) = m THEN 1 ELSE Place(L) + 1
    <2>1. (L + 1) % m = IF L % m = m - 1 THEN 0 ELSE (L % m) + 1
      BY <1>1, NextRemainder
    <2>2. L % m \in 0..(m - 1) /\ L + 1 \in Nat
      BY <1>3
    <2>3. QED
      BY <1>1, <1>2, <2>1, <2>2
  <1>7. L < m => Place(L) = L + 1
    BY <1>2, <1>4
  <1>8. m = Slots - 1 /\ 1..(m - 1) = 1 .. Slots - 2
    BY SlotsAssumption DEF m
  <1>9. QED
    BY <1>5, <1>6, <1>7, <1>8

(* What a history holds that was given the commands of a. *)
Turns(h, a) ==
    /\ h \in History /\ a \in Seq(Command)
    /\ h.max = Len(a)
    /\ h.cur = IF a = <<>> THEN -1 ELSE Place(Len(a))
    /\ \A i \in 1 .. Slots - 1 : i <= h.max => h.queue[i] \in Command
    /\ \A j \in 1 .. Slots - 1 : j <= Len(a) => h.queue[Place(Len(a) - j)] = a[Len(a) + 1 - j]

LEMMA LastIsPrevious ==
    ASSUME NEW h, NEW a, Turns(h, a), a # <<>>
    PROVE  Previous(h) \in 1 .. Slots - 1 /\ h.cur # -1 /\ h.queue[Previous(h)] = a[Len(a)]
  <1> DEFINE L == Len(a) - 1
  <1>1. L \in Nat /\ Len(a) = L + 1 /\ Slots - 1 >= 1 /\ Len(a) - 1 = L /\ Len(a) + 1 - 1 = Len(a)
    BY SlotsAssumption DEF Turns
  <1>2. h.cur = Place(L + 1)
    BY <1>1 DEF Turns
  <1>3. h.queue[Place(L)] = a[Len(a)]
    BY <1>1, SlotsAssumption DEF Turns
  <1> HIDE DEF L
  <1>4. Place(L) \in 1 .. Slots - 1 /\ Place(L + 1) = IF Place(L) = Slots - 1 THEN 1 ELSE Place(L) + 1
    BY <1>1, Places
  <1>5. Previous(h) = Place(L)
    BY <1>1, <1>2, <1>4, SlotsAssumption DEF Previous
  <1>6. QED
    BY <1>2, <1>3, <1>4, <1>5, SlotsAssumption

LEMMA AddTurns ==
    ASSUME NEW h, NEW a, Turns(h, a), NEW c \in Command,
           NEW b, (a # <<>> /\ a[Len(a)] = c) => b = a,
           ~(a # <<>> /\ a[Len(a)] = c) => b = Append(a, c)
    PROVE  Turns(AddCommand(h, c), b) /\ b # <<>> /\ b[Len(b)] = c
  <1> DEFINE L   == Len(a)
             cur == IF h.cur = -1 THEN 1 ELSE h.cur
             q   == [h.queue EXCEPT ![cur] = c]
             g   == [queue |-> q, cur |-> IF cur = Slots - 1 THEN 1 ELSE cur + 1, max |-> h.max + 1]
  <1>1. CASE a # <<>> /\ a[Len(a)] = c
    <2>1. AddCommand(h, c) = h
      BY <1>1, LastIsPrevious DEF AddCommand
    <2>2. QED
      BY <1>1, <2>1
  <1>2. CASE ~(a # <<>> /\ a[Len(a)] = c)
    <2>1. /\ L \in Nat /\ b = Append(a, c) /\ b \in Seq(Command) /\ Len(b) = L + 1 /\ b[L + 1] = c
          /\ \A i \in 1..L : b[i] = a[i]
          /\ b # <<>> /\ (a = <<>> <=> L = 0)
      <3>1. a \in Seq(Command) /\ b = Append(a, c) /\ L \in Nat
        BY <1>2 DEF Turns
      <3>2. b \in Seq(Command) /\ Len(b) = L + 1 /\ b[L + 1] = c /\ \A i \in 1..L : b[i] = a[i]
        BY <3>1, AppendProperties
      <3>3. b # <<>> /\ (a = <<>> <=> L = 0)
        BY <3>1, <3>2, EmptySeq
      <3>4. QED
        BY <3>1, <3>2, <3>3
    <2>2. AddCommand(h, c) = g
      <3>1. ~(h.cur # -1 /\ h.queue[Previous(h)] = c)
        BY <1>2, LastIsPrevious DEF Turns
      <3>2. QED
        BY <3>1 DEF AddCommand
    <2>3. h.queue \in [1 .. Slots - 1 -> {NoCommand} \cup Command] /\ h.max = L
      BY DEF Turns, History
    <2> HIDE DEF L
    <2>4. /\ Place(L) \in 1 .. Slots - 1
          /\ Place(L + 1) = IF Place(L) = Slots - 1 THEN 1 ELSE Place(L) + 1
          /\ L < Slots - 1 => Place(L) = L + 1
          /\ \A d \in 1 .. Slots - 2 : d <= L => Place(L - d) # Place(L)
      BY <2>1, Places
    <2>5. cur = Place(L)
      <3>1. CASE a = <<>>
        BY <2>1, <2>4, <3>1, SlotsAssumption DEF Turns
      <3>2. CASE a # <<>>
        <4>1. h.cur = Place(L)
          BY <3>2 DEF Turns, L
        <4>2. QED
          BY <2>4, <4>1, SlotsAssumption
      <3>3. QED
        BY <3>1, <3>2
    <2> HIDE DEF cur
    <2>6. g.queue = q /\ g.max = L + 1 /\ g.cur = Place(L + 1)
      BY <2>3, <2>4, <2>5
    <2>7. /\ q \in [1 .. Slots - 1 -> {NoCommand} \cup Command] /\ q[cur] = c
          /\ \A i \in 1 .. Slots - 1 : i # cur => q[i] = h.queue[i]
      BY <2>3, <2>4, <2>5
    <2> HIDE DEF q
    <2>8. g \in History
      BY <2>1, <2>3, <2>4, <2>5, <2>7, SlotsAssumption DEF History
    <2>9. ASSUME NEW i \in 1 .. Slots - 1, i <= L + 1 PROVE q[i] \in Command
      <3>1. CASE i = cur
        BY <2>7, <3>1
      <3>2. CASE i # cur
        <4>1. i <= L
          BY <2>1, <2>4, <2>5, <2>9, <3>2, SlotsAssumption
        <4>2. QED
          BY <2>3, <2>7, <3>2, <4>1 DEF Turns
      <3>3. QED
        BY <3>1, <3>2
    <2>10. ASSUME NEW j \in 1 .. Slots - 1, j <= L + 1
           PROVE  q[Place(L + 1 - j)] = b[L + 1 + 1 - j]
      <3>1. CASE j = 1
        <4>1. L + 1 - j = L /\ L + 1 + 1 - j = L + 1
          BY <2>1, <3>1
        <4>2. QED
          BY <2>1, <2>5, <2>7, <4>1
      <3>2. CASE j # 1
        <4> DEFINE d == j - 1
        <4>1. /\ d \in 1 .. Slots - 2 /\ d \in 1 .. Slots - 1 /\ d <= L /\ L - d \in Nat
              /\ L + 1 - j = L - d /\ L + 1 + 1 - j = L + 1 - d /\ L + 1 - d \in 1..L
          BY <2>1, <2>10, <3>2, SlotsAssumption
        <4> HIDE DEF d
        <4>2. Place(L - d) # cur /\ Place(L - d) \in 1 .. Slots - 1
          BY <2>4, <2>5, <4>1, Places
        <4>3. h.queue[Place(L - d)] = a[L + 1 - d]
          BY <4>1 DEF Turns, L
        <4>4. QED
          BY <2>1, <2>7, <4>1, <4>2, <4>3
      <3>3. QED
        BY <3>1, <3>2
    <2>11. Turns(g, b)
      BY <2>1, <2>6, <2>8, <2>9, <2>10 DEF Turns
    <2>12. QED
      BY <2>1, <2>2, <2>11
  <1>3. QED
    BY <1>1, <1>2

LEMMA OldIsCommand ==
    ASSUME NEW h, NEW a, Turns(h, a), NEW n \in Nat, HasCommand(h, n)
    PROVE  GetCommand(h, n) \in Command
  <1>1. a # <<>> /\ n <= Slots - 1 /\ n <= h.max
    BY DEF Turns, HasCommand, CheckHisNum
  <1>2. CASE n = 0
    <2>1. a[Len(a)] \in Command
      BY <1>1 DEF Turns
    <2>2. QED
      BY <1>1, <1>2, <2>1, LastIsPrevious DEF GetCommand
  <1>3. CASE n # 0
    BY <1>1, <1>3, SlotsAssumption DEF GetCommand, Turns
  <1>4. QED
    BY <1>2, <1>3

-----------------------------------------------------------------------------
(* The invariant: the stack of scripts and its mode, the history, and what *)
(* lies between two commands of the session.  Before its first turn isql   *)
(* has neither an input nor a session.                                     *)
BeforeLogon ==
    pc = "start" => in.list = <<>> /\ ~in.fileRead /\ ~ses.conn /\ ses.sysdba = opt.sysdba

Inv ==
    /\ opt \in Options /\ pc \in {"start", "run", "exit", "crash"}
    /\ Fits(in, opt.inFile)
    /\ Turns(his, added)
    /\ LoggedOn(ses)
    /\ BeforeLogon

LEMMA OptionTypes ==
    ASSUME NEW o \in Options
    PROVE  /\ o.inFile \in BOOLEAN /\ o.home \in BOOLEAN /\ o.sysdba \in BOOLEAN /\ o.sameUser \in BOOLEAN
           /\ \A f \in DOMAIN o.scripts : o.scripts[f] \in File /\ o.scripts[f].name # Stdin
           /\ Typed[o.profile] \subseteq Command
  BY OptionsAssumption

LEMMA InitInv == Init => Inv
  <1>1. SUFFICES ASSUME Init PROVE Inv
    OBVIOUS
  <1>2. opt \in Options /\ opt.inFile \in BOOLEAN /\ opt.sysdba \in BOOLEAN
    BY <1>1, OptionTypes DEF Init
  <1>3. Fits(in, opt.inFile) /\ in.list = <<>> /\ ~in.fileRead
    <2>1. NewInput \in Input /\ NewInput.list = <<>> /\ ~NewInput.fileRead
      BY DEF NewInput, Input
    <2>2. DOMAIN NewInput.list = {}
      BY <2>1
    <2>3. QED
      BY <1>1, <2>1, <2>2 DEF Fits, Init
  <1>4. Turns(his, added)
    <2>1. NewHistory \in History /\ NewHistory.max = 0 /\ NewHistory.cur = -1
      BY DEF NewHistory, History
    <2>2. <<>> \in Seq(Command) /\ Len(<<>>) = 0
      OBVIOUS
    <2>3. QED
      BY <1>1, <2>1, <2>2 DEF Turns, Init
  <1>5. LoggedOn(ses) /\ ~ses.conn /\ ses.sysdba = opt.sysdba
    <2>1. "login" \in Texts /\ "off" \in Plans
      BY TextsAssumption DEF Plans
    <2>2. NewSession(opt) \in Session
      BY <1>2, <2>1 DEF NewSession, Session
    <2>3. QED
      BY <1>1, <2>2 DEF LoggedOn, NewSession, Init
  <1>6. QED
    BY <1>1, <1>2, <1>3, <1>4, <1>5 DEF Inv, BeforeLogon, Init

(* A turn of the loop. *)
Moved == Fits(in', opt.inFile) /\ LoggedOn(ses') /\ pc' \in {"run", "exit"}

LEMMA LoadedFits ==
    ASSUME opt \in Options, NEW x, Fits(x, opt.inFile), x.list # <<>>, NEW name
    PROVE  Fits(Push(x, name), opt.inFile) /\ Push(x, name).list # <<>>
  <1>1. opt.inFile \in BOOLEAN /\ \A f \in DOMAIN opt.scripts : opt.scripts[f] \in File /\ opt.scripts[f].name # Stdin
    BY OptionTypes
  <1>2. QED
    BY <1>1, PushFits DEF Push

LEMMA EditFits ==
    ASSUME opt \in Options, NEW x, Fits(x, opt.inFile), x.list # <<>>, Turns(his, added),
           NEW c \in Command, HasCommand(his, c.n), NEW e \in ExecuteEditStmt(GetCommand(his, c.n))
    PROVE  Fits([SetScriptFile(x, e) EXCEPT !.inEdit = TRUE], opt.inFile)
  <1> DEFINE old == GetCommand(his, c.n)
             y   == SetScriptFile(x, e)
  <1>1. old \in Command
    BY OldIsCommand DEF Command
  <1>2. e \in File /\ e.name # Stdin
    <2>1. CASE e \in Edits
      BY <2>1, EditsAssumption
    <2>2. CASE e \notin Edits
      <3>1. e = Script("iSQL.buf", <<old>>, FALSE, TRUE)
        BY <2>2 DEF ExecuteEditStmt
      <3> HIDE DEF old
      <3>2. <<old>> \in Seq(Command)
        BY <1>1
      <3>3. QED
        BY <3>1, <3>2, TextsAssumption DEF Script, File
    <2>3. QED
      BY <2>1, <2>2
  <1>3. Fits(y, opt.inFile)
    BY <1>2, OptionTypes, PushFits
  <1>4. [y EXCEPT !.inEdit = TRUE] \in Input
    BY <1>3 DEF Fits, Input
  <1>5. QED
    BY <1>3, <1>4, FlagsFit DEF Fits, Input

(* One command carried out. *)
LEMMA DispatchMoves ==
    ASSUME Inv, pc = "run", NEW x, Fits(x, opt.inFile), x.list # <<>>,
           NEW h, NEW s, LoggedOn(s), NEW c \in Command, Dispatch(x, h, s, c)
    PROVE  Moved
  <1>0. /\ opt \in Options /\ Turns(his, added) /\ s \in Session /\ c.arg \in Texts
        /\ opt.sameUser \in BOOLEAN /\ x \in Input
    BY OptionTypes DEF Inv, LoggedOn, Command, Fits
  <1>1. CASE ScriptRun(x, h, s, c)
    <2>1. Fits(Push(x, c.arg), opt.inFile)
      BY <1>0, LoadedFits
    <2>2. QED
      BY <1>1, <2>1 DEF ScriptRun, Keep, Moved
  <1>2. CASE EditRun(x, h, s, c)
    <2>1. Fits(in', opt.inFile)
      <3>1. CASE HasCommand(his, c.n)
        <4>1. PICK e \in ExecuteEditStmt(GetCommand(his, c.n)) : in' = [SetScriptFile(x, e) EXCEPT !.inEdit = TRUE]
          BY <1>2, <3>1 DEF EditRun
        <4>2. QED
          BY <1>0, <3>1, <4>1, EditFits
      <3>2. CASE ~HasCommand(his, c.n)
        BY <1>2, <3>2 DEF EditRun
      <3>3. QED
        BY <3>1, <3>2
    <2>2. QED
      BY <1>2, <2>1 DEF EditRun, Keep, Moved
  <1>3. CASE Spool(x, h, s, c)
    BY <1>3 DEF Spool, Moved
  <1>4. CASE Exit(x, h, s, c)
    BY <1>0, <1>4, CloseLogsOff DEF Exit, Moved
  <1>5. CASE Other(x, h, s, c)
    BY <1>5 DEF Other, Keep, Moved
  <1>6. CASE Statement(x, h, s, c)
    BY <1>0, <1>6, ServerCommandKeeps DEF Statement, Moved
  <1>7. CASE Prepared(x, h, s, c)
    <2>1. PICK o : /\ ses' = o.s
                   /\ o = Fail(s) \/ o \in PrepareDMLStmt(s) \/ o \in PrepareSelectStmt(s)
      BY <1>7 DEF Prepared
    <2>2. LoggedOn(o.s)
      BY <1>0, <2>1, Outcome, PrepareDMLKeeps, PrepareSelectKeeps, KeptLoggedOn
    <2>3. QED
      BY <1>7, <2>1, <2>2 DEF Prepared, Moved
  <1>8. CASE SignalPipe(x, h, s, c)
    BY <1>0, <1>8, CloseLogsOff DEF SignalPipe, DisconnectDB, Moved
  <1>9. CASE SetOption(x, h, s, c)
    <2>1. LoggedOn(ses')
      BY <1>0, <1>9 DEF SetOption, LoggedOn, Session
    <2>2. QED
      BY <1>9, <2>1 DEF SetOption, Moved
  <1>10. CASE ConnectRun(x, h, s, c)
    <2>1. PICK o \in connectCommand(s, c.arg, c.arg = "dba", opt.sameUser) :
               /\ ses' = o.s
               /\ in' = x \/ in' = ExecuteLoginScripts(x, opt.scripts, opt.home)
      BY <1>10 DEF ConnectRun
    <2>2. LoggedOn(ses')
      BY <1>0, <2>1, UserConnects
    <2>3. Fits(in', opt.inFile)
      BY <1>0, <2>1, LoginFits
    <2>4. QED
      BY <1>10, <2>2, <2>3 DEF ConnectRun, Moved
  <1>11. CASE DisconnectRun(x, h, s, c)
    BY <1>0, <1>11, CloseLogsOff DEF DisconnectRun, Moved
  <1>12. CASE Exec(x, h, s, c)
    <2>1. \/ ses' = s
          \/ \E o \in ExecutePSMStmt(s, Proc[c.arg].isFunc, Proc[c.arg].names # <<>>, Proc[c.arg].more) : ses' = o.s
      BY <1>12 DEF Exec
    <2>2. LoggedOn(ses')
      BY <1>0, <2>1, ExecKeeps, KeptLoggedOn
    <2>3. QED
      BY <1>12, <2>2 DEF Exec, Moved
  <1>13. QED
    BY <1>1, <1>2, <1>3, <1>4, <1>5, <1>6, <1>7, <1>8, <1>9, <1>10, <1>11, <1>12 DEF Dispatch

LEMMA ParsedLoggedOn ==
    ASSUME NEW s, LoggedOn(s), NEW c \in Command
    PROVE  /\ LoggedOn(ParsedSession(s, c))
           /\ LoggedOn([ParsedSession(s, c) EXCEPT !.fault = FALSE])
  BY DEF LoggedOn, ParsedSession, Command, Session

LEMMA AddedTurns ==
    ASSUME Turns(his, added), NEW c \in Command, Added(c)
    PROVE  Turns(his', added') /\ added' # <<>> /\ added'[Len(added')] = c
  <1>1. \A b : /\ (added # <<>> /\ added[Len(added)] = c) => b = added
               /\ ~(added # <<>> /\ added[Len(added)] = c) => b = Append(added, c)
               => Turns(AddCommand(his, c), b) /\ b # <<>> /\ b[Len(b)] = c
    BY AddTurns
  <1>2. QED
    BY <1>1 DEF Added

LEMMA DispatchTurns ==
    ASSUME Turns(his, added), NEW x, NEW h, NEW s, NEW c \in Command, Dispatch(x, h, s, c)
    PROVE  Turns(his', added')
  BY AddedTurns DEF Dispatch

LEMMA TurnMoves ==
    ASSUME Inv, pc = "run", NEW x, Fits(x, opt.inFile), x.list # <<>>, NEW c \in Command, Turn(x, c)
    PROVE  Moved /\ Turns(his', added')
  <1> DEFINE h == ParsedVars(hv, c)
             s == [ParsedSession(ses, c) EXCEPT !.fault = FALSE]
  <1>0. /\ opt \in Options /\ opt.inFile \in BOOLEAN /\ Turns(his, added) /\ LoggedOn(s)
        /\ c.n \in Nat /\ x \in Input
    BY OptionTypes, ParsedLoggedOn DEF Inv, Command, Fits
  <1>s. ASSUME Skipped(x, h, s) PROVE Moved /\ Turns(his', added')
    BY <1>0, <1>s DEF Skipped, Keep, Moved
  <1>1. CASE c.kind = "syntax"
    BY <1>1, <1>s DEF Turn
  <1>2. CASE c.kind # "syntax" /\ (x.inLoad \/ x.inEdit)
    <2> DEFINE y == IF x.inLoad THEN [x EXCEPT !.inLoad = FALSE] ELSE [x EXCEPT !.inEdit = FALSE]
    <2>1. Taken(x, h, s, c)
      BY <1>2 DEF Turn
    <2>2. y \in Input /\ y.list = x.list /\ y.fileRead = x.fileRead
      BY <1>0 DEF Input
    <2>3. Fits(y, opt.inFile)
      BY <2>2, FlagsFit
    <2>4. Fits(ResetInput(y, opt.inFile), opt.inFile)
      BY <1>0, <2>2, <2>3, ResetFits
    <2>5. in' = ResetInput(y, opt.inFile) /\ ses' = s /\ pc' = pc /\ Added(c)
      BY <2>1 DEF Taken, Keep
    <2>6. QED
      BY <1>0, <2>4, <2>5, AddedTurns DEF Moved
  <1>3. CASE ~(c.kind = "syntax") /\ ~(x.inLoad \/ x.inEdit)
    <2>1. \/ Skipped(x, h, s) \/ Rerun(x, h, s, c) \/ LoadRun(x, h, s, c)
          \/ Dispatch(x, h, s, c)
      BY <1>3 DEF Turn
    <2>2. CASE Dispatch(x, h, s, c)
      BY <1>0, <2>2, DispatchMoves, DispatchTurns
    <2>3. CASE Rerun(x, h, s, c)
      <3> DEFINE old == GetCommand(his, c.n)
      <3>1. CASE HasCommand(his, c.n)
        <4>1. old \in Command
          BY <1>0, <3>1, OldIsCommand
        <4>2. Dispatch(x, ParsedVars(h, old), ParsedSession(s, old), old)
          BY <2>3, <3>1 DEF Rerun
        <4>3. LoggedOn(ParsedSession(s, old))
          BY <1>0, <4>1, ParsedLoggedOn
        <4> HIDE DEF old
        <4>4. QED
          BY <1>0, <4>1, <4>2, <4>3, DispatchMoves, DispatchTurns
      <3>2. CASE ~HasCommand(his, c.n)
        BY <1>s, <2>3, <3>2 DEF Rerun
      <3>3. QED
        BY <3>1, <3>2
    <2>4. CASE LoadRun(x, h, s, c)
      <3>1. /\ Fits(Push(x, c.arg), opt.inFile) /\ Push(x, c.arg) \in Input
        BY <1>0, LoadedFits DEF Fits
      <3>2. LET y == [Push(x, c.arg) EXCEPT !.inLoad = TRUE]
            IN  y \in Input /\ y.list = Push(x, c.arg).list /\ y.fileRead = Push(x, c.arg).fileRead
        BY <3>1 DEF Input
      <3>3. Fits([Push(x, c.arg) EXCEPT !.inLoad = TRUE], opt.inFile)
        BY <3>1, <3>2, FlagsFit
      <3>4. QED
        BY <1>0, <2>4, <3>3 DEF LoadRun, Keep, Moved
    <2>5. QED
      BY <1>s, <2>1, <2>2, <2>3, <2>4
  <1>4. QED
    BY <1>1, <1>2, <1>3

LEMMA StartInv == Inv /\ Start => Inv'
  <1>1. SUFFICES ASSUME Inv, Start PROVE Inv'
    OBVIOUS
  <1> DEFINE refused == (opt.sysdba /\ ~opt.sameUser) \/ (opt.inFile /\ "infile" \notin DOMAIN opt.scripts)
  <1>2. PICK o \in Connect(ses, opt.sysdba) :
            /\ ses' = IF refused THEN ses ELSE o.s
            /\ pc'  = IF refused \/ ~o.ok THEN "exit" ELSE "run"
            /\ in'  = IF refused \/ ~o.ok THEN in
                      ELSE ExecuteLoginScripts(FirstInput, opt.scripts, opt.home)
            /\ opt' = opt /\ his' = his /\ added' = added
    BY <1>1 DEF Start
  <1>3. /\ opt \in Options /\ opt.inFile \in BOOLEAN /\ opt.sysdba \in BOOLEAN
        /\ in.list = <<>> /\ ~in.fileRead /\ ~ses.conn /\ ses.sysdba = opt.sysdba
        /\ in \in Input /\ LoggedOn(ses) /\ ses \in Session
    BY <1>1, OptionTypes DEF Inv, BeforeLogon, Start, Fits, LoggedOn
  <1>4. LoggedOn(ses')
    <2>1. /\ o.s \in Session
          /\ ~o.ok => o.s = ses
          /\ o.ok => o.s.conn /\ o.s.admin = opt.sysdba /\ o.s.auto /\ ~o.s.tx /\ o.s.cursors = {}
                     /\ o.s.sysdba = ses.sysdba
      BY <1>3, ConnectLogsOn
    <2>2. LoggedOn(o.s)
      BY <1>3, <2>1 DEF LoggedOn
    <2>3. QED
      BY <1>2, <1>3, <2>2
  <1>5. ASSUME ~refused PROVE Fits(FirstInput, opt.inFile) /\ FirstInput.list # <<>>
    <2>1. CASE opt.inFile
      <3> DEFINE sc == opt.scripts["infile"]
      <3>1. sc \in File /\ sc.name # Stdin
        BY <1>3, <1>5, <2>1, OptionTypes
      <3> HIDE DEF sc
      <3>2. <<sc>> \in Seq(File) /\ Len(<<sc>>) = 1 /\ <<sc>>[1] = sc /\ DOMAIN <<sc>> = {1} /\ <<sc>> # <<>>
        BY <3>1
      <3>3. FirstInput = [in EXCEPT !.list = <<sc>>, !.fileRead = TRUE]
        <4>1. <<sc>> \o <<>> = <<sc>>
          BY <3>2
        <4>2. FirstInput = SetScriptFile([in EXCEPT !.fileRead = TRUE], sc)
          BY <2>1 DEF FirstInput, sc
        <4>3. QED
          BY <1>3, <4>1, <4>2 DEF SetScriptFile, Input
      <3>4. FirstInput \in Input /\ FirstInput.list = <<sc>> /\ FirstInput.fileRead
        BY <1>3, <3>2, <3>3 DEF Input
      <3>5. QED
        BY <1>3, <2>1, <3>1, <3>2, <3>4 DEF Fits
    <2>2. CASE ~opt.inFile
      <3> DEFINE sc == Script(Stdin, <<>>, FALSE, TRUE)
      <3>1. sc \in File
        BY DEF Script, File
      <3> HIDE DEF sc
      <3>2. <<sc>> \in Seq(File) /\ Len(<<sc>>) = 1 /\ DOMAIN <<sc>> = {1} /\ <<sc>> # <<>>
        BY <3>1
      <3>3. FirstInput = [in EXCEPT !.list = <<sc>>]
        <4>1. <<sc>> \o <<>> = <<sc>>
          BY <3>2
        <4>2. QED
          BY <1>3, <2>2, <4>1 DEF FirstInput, RegStdin, sc
      <3>4. FirstInput \in Input /\ FirstInput.list = <<sc>> /\ ~FirstInput.fileRead
        BY <1>3, <3>2, <3>3 DEF Input
      <3>5. QED
        BY <1>3, <2>2, <3>1, <3>2, <3>4 DEF Fits
    <2>3. QED
      BY <2>1, <2>2
  <1>6. Fits(in', opt.inFile)
    <2>1. CASE refused \/ ~o.ok
      BY <1>1, <1>2, <2>1 DEF Inv
    <2>2. CASE ~(refused \/ ~o.ok)
      BY <1>2, <1>3, <1>5, <2>2, LoginFits
    <2>3. QED
      BY <2>1, <2>2
  <1>7. pc' \in {"run", "exit"}
    BY <1>2
  <1>8. QED
    BY <1>1, <1>2, <1>4, <1>6, <1>7 DEF Inv, BeforeLogon

LEMMA EndFits ==
    ASSUME NEW x, NEW f \in BOOLEAN, Fits(x, f), x.list # <<>>
    PROVE  Fits(ReadEnd(x), f) /\ Fits(AfterEnd(x, f), f)
  <1>1. Fits(ReadEnd(x), f)
    <2>1. x \in Input /\ Top(x).tail \in BOOLEAN
      <3>1. x \in Input /\ x.list \in Seq(File)
        BY DEF Fits, Input
      <3>2. x.list[1] \in File
        BY <3>1
      <3>3. QED
        BY <3>1, <3>2 DEF File, Top
    <2>2. ReadEnd(x) \in Input /\ ReadEnd(x).list = x.list /\ ReadEnd(x).fileRead = x.fileRead
      BY <2>1 DEF ReadEnd, EndOfFile, Input
    <2>3. QED
      BY <2>2, FlagsFit
  <1>2. Fits(AfterEnd(x, f), f)
    <2> DEFINE r == ResetInput(x, f)
               p == [r EXCEPT !.eof = FALSE, !.text = FALSE]
    <2>1. Fits(r, f) /\ r \in Input
      BY ResetFits DEF Fits
    <2>2. /\ p \in Input /\ p.list = r.list /\ p.fileRead = r.fileRead
          /\ [p EXCEPT !.inLoad = FALSE, !.inEdit = FALSE] \in Input
          /\ [p EXCEPT !.inLoad = FALSE, !.inEdit = FALSE].list = r.list
          /\ [p EXCEPT !.inLoad = FALSE, !.inEdit = FALSE].fileRead = r.fileRead
      BY <2>1 DEF Input
    <2>3. AfterEnd(x, f) = p \/ AfterEnd(x, f) = [p EXCEPT !.inLoad = FALSE, !.inEdit = FALSE]
      BY DEF AfterEnd
    <2>4. QED
      BY <2>1, <2>2, <2>3, FlagsFit
  <1>3. QED
    BY <1>1, <1>2

LEMMA NextInv == Inv /\ [Next]_vars => Inv'
  <1>1. SUFFICES ASSUME Inv, [Next]_vars PROVE Inv'
    OBVIOUS
  <1>2. opt \in Options /\ opt.inFile \in BOOLEAN /\ Fits(in, opt.inFile) /\ in \in Input
    BY <1>1, OptionTypes DEF Inv, Fits
  <1>3. ASSUME NEW x, pc = "run", Fits(x, opt.inFile), x.list # <<>>, NEW c \in Command,
               Turn(x, c), opt' = opt
        PROVE  Inv'
    <2>1. Moved /\ Turns(his', added')
      BY <1>1, <1>3, TurnMoves
    <2>2. QED
      BY <1>2, <1>3, <2>1 DEF Moved, Inv, BeforeLogon
  <1>4. CASE Start
    BY <1>1, <1>4, StartInv
  <1>5. CASE ReadScript
    <2>1. Fits(ReadCommand(in), opt.inFile) /\ ReadCommand(in).list # <<>> /\ Head(Top(in).rest) \in Command
      BY <1>2, <1>5, ReadFits DEF ReadScript
    <2>2. pc = "run" /\ Turn(ReadCommand(in), Head(Top(in).rest)) /\ opt' = opt
      BY <1>5 DEF ReadScript
    <2>3. QED
      BY <1>3, <2>1, <2>2
  <1>6. ASSUME NEW c \in Typed[opt.profile], Type(c) PROVE Inv'
    <2>1. c \in Command
      BY <1>2, OptionTypes
    <2>2. pc = "run" /\ Turn(in, c) /\ opt' = opt /\ in.list # <<>>
      BY <1>6 DEF Type, AtStdin
    <2>3. QED
      BY <1>2, <1>3, <2>1, <2>2
  <1>7. CASE ReadEndOfFile
    <2>1. Fits(in', opt.inFile)
      BY <1>2, <1>7, EndFits DEF ReadEndOfFile, Exhausted
    <2>2. QED
      BY <1>1, <1>7, <2>1 DEF ReadEndOfFile, Inv, BeforeLogon
  <1>8. CASE NextFile
    <2>1. Fits(in', opt.inFile)
      BY <1>2, <1>8, EndFits DEF NextFile
    <2>2. pc' \in {"run", "exit"}
      BY <1>8 DEF NextFile
    <2>3. QED
      BY <1>1, <1>8, <2>1, <2>2 DEF NextFile, Inv, BeforeLogon
  <1>9. CASE Crash
    BY <1>1, <1>9 DEF Crash, Inv, BeforeLogon
  <1>10. CASE ServerDown
    <2>1. LoggedOn(ses')
      BY <1>1, <1>10 DEF ServerDown, Inv, LoggedOn, Session
    <2>2. QED
      BY <1>1, <1>10, <2>1 DEF ServerDown, Inv, BeforeLogon
  <1>11. CASE UNCHANGED vars
    BY <1>1, <1>11 DEF vars, Inv, BeforeLogon
  <1>12. QED
    BY <1>1, <1>4, <1>5, <1>6, <1>7, <1>8, <1>9, <1>10, <1>11 DEF Next

LEMMA SpecInv == Spec => []Inv
  BY InitInv, NextInv, PTL DEF Spec

-----------------------------------------------------------------------------
(* isql is in script mode exactly while a script lies above the user's     *)
(* input, or under -f (SetScriptFile, ResetInput).                         *)
THEOREM ModeFollowsStack == Spec => []ScriptModeTracksStack
  <1>1. Inv => ScriptModeTracksStack
    BY DEF Inv, Fits, ScriptModeTracksStack
  <1>2. QED
    BY SpecInv, <1>1, PTL

(* The entries of the history are the last commands typed, each where      *)
(* HISRUN looks for it, however often the ring went round (AddCommand).    *)
THEOREM RingHoldsLast == Spec => []HistoryKeepsLast
  <1>1. Inv => HistoryKeepsLast
    <2>1. SUFFICES ASSUME Inv,
                          NEW j \in 1 .. (IF Len(added) < Slots - 1 THEN Len(added) ELSE Slots - 1)
                   PROVE  his.queue[((Len(added) - j) % (Slots - 1)) + 1] = added[Len(added) + 1 - j]
      BY DEF HistoryKeepsLast
    <2>2. Len(added) \in Nat /\ Turns(his, added)
      BY <2>1 DEF Inv, Turns
    <2>3. j \in 1 .. Slots - 1 /\ j <= Len(added)
      BY <2>1, <2>2, SlotsAssumption
    <2>4. QED
      BY <2>2, <2>3 DEF Turns, Place
  <1>2. QED
    BY SpecInv, <1>1, PTL

(* On whichever path a command ended, it left no cursor open on the        *)
(* statement of the direct commands or on the prepared one (StmtClose).    *)
THEOREM CommandsClose == Spec => []StatementsClosed
  <1>1. Inv => StatementsClosed
    BY DEF Inv, LoggedOn, StatementsClosed
  <1>2. QED
    BY SpecInv, <1>1, PTL

(* On a connected session isql and the server agree on SYSDBA, whatever    *)
(* CONNECT, DISCONNECT and SHUTDOWN came before (ExecuteConnectStmt).      *)
THEOREM SysdbaAgrees == Spec => []SysdbaMatchesSession
  <1>1. Inv => SysdbaMatchesSession
    BY DEF Inv, LoggedOn, SysdbaMatchesSession
  <1>2. QED
    BY SpecInv, <1>1, PTL

-----------------------------------------------------------------------------
(* A list of the user's gives the explain mode back.  Premises of a turn   *)
(* that PlanRestored speaks about, with s the session after the parse.     *)
LEMMA ListingTurn ==
    ASSUME NEW s, LoggedOn(s), InStep(s), s.planCommit \/ s.auto,
           NEW x, NEW h, NEW c \in Command, Dispatch(x, h, s, c), c.kind \in Lists,
           ses'.conn, ~ses'.fault
    PROVE  InStep(ses')
  <1>1. /\ \E o \in Outcomes(s, c) : ses' = o.s
        /\ c.kind \in {"tables", "xtables", "sequence", "desc", "desc$"}
    <2>1. s.server = "up"
      BY DEF InStep
    <2>2. Statement(x, h, s, c)
      BY <2>1 DEF Dispatch, Lists, ScriptRun, EditRun, Spool, Exit, Other, Prepared, SignalPipe,
                  SetOption, ConnectRun, DisconnectRun, Exec
    <2>3. QED
      BY <2>2 DEF Statement, Lists
  <1>2. PICK o \in ListOutcomes(s) : ses' = o.s
    BY <1>1 DEF Outcomes, ListOutcomes
  <1>3. Restored(s, ses') /\ s \in Session
    BY <1>2, ListsRestore DEF LoggedOn
  <1>4. Ready(s) /\ s.plan = s.kind
    BY DEF LoggedOn, InStep, Ready, Alive
  <1>5. ses'.plan = s.kind /\ ses'.server = s.server /\ ses'.kind = s.kind
    BY <1>3, <1>4 DEF Restored, Listing, Mode
  <1>6. QED
    BY <1>5 DEF InStep

(* A command that stays out of the history changes no mode. *)
LEMMA UnsavedTurn ==
    ASSUME NEW s, NEW x, NEW h, NEW c, Dispatch(x, h, s, c), c.kind \in NotSaved
    PROVE  ses' = s
  BY DEF Dispatch, NotSaved, ScriptRun, EditRun, Spool, Exit, Other, Statement, Prepared, SignalPipe,
         SetOption, ConnectRun, DisconnectRun, Exec, ServerKinds, Keep

Commits(s) == s.planCommit \/ s.auto

(* The command last put into the history is a list: the session is in step *)
(* after the turn, unless it is lost or broken.                            *)
InStepAfterList ==
    added' # <<>> /\ added'[Len(added')].kind \in Lists /\ ses'.conn /\ ~ses'.fault => InStep(ses')

LEMMA DispatchRestores ==
    ASSUME Turns(his, added), NEW x, ~x.fileRead, NEW h, NEW s, LoggedOn(s), NEW c \in Command,
           c.kind # "explain" => InStep(s) /\ Commits(s), Dispatch(x, h, s, c)
    PROVE  InStepAfterList
  <1>1. CASE c.kind \in NotSaved
    BY <1>1, UnsavedTurn DEF InStepAfterList, NotSaved
  <1>2. CASE c.kind \notin NotSaved
    <2>1. Added(c)
      BY <1>2 DEF Dispatch
    <2>2. added'[Len(added')] = c
      BY <2>1, AddedTurns
    <2>3. CASE c.kind \in Lists
      <3>1. InStep(s) /\ Commits(s)
        BY <2>3 DEF Lists
      <3>2. QED
        BY <2>3, <3>1, ListingTurn DEF InStepAfterList, Commits
    <2>4. CASE c.kind \notin Lists
      BY <2>2, <2>4 DEF InStepAfterList
    <2>5. QED
      BY <2>3, <2>4
  <1>3. QED
    BY <1>1, <1>2

LEMMA ParsedInStep ==
    ASSUME NEW s \in Session, InStep(s), Commits(s), NEW c
    PROVE  LET t == ParsedSession(s, c)
           IN  c.kind # "explain" => /\ InStep(t) /\ Commits(t)
                                     /\ InStep([t EXCEPT !.fault = FALSE]) /\ Commits([t EXCEPT !.fault = FALSE])
  BY DEF ParsedSession, InStep, Commits, Session

(* The user types to a bare stack. *)
LEMMA StdinIsNoScript == Inv /\ AtStdin(in) => ~in.fileRead
  <1> SUFFICES ASSUME Inv, AtStdin(in) PROVE ~in.fileRead
    OBVIOUS
  <1>1. in.list \in Seq(File) /\ in.list # <<>> /\ in.list[1].name = Stdin
    BY DEF AtStdin, Top, Inv, Fits, Input
  <1>2. 1 \in DOMAIN in.list
    BY <1>1
  <1>3. Len(in.list) = 1 /\ ~opt.inFile
    BY <1>1, <1>2 DEF Inv, Fits
  <1>4. QED
    BY <1>1, <1>3 DEF Inv, Fits

LEMMA TurnRestores ==
    ASSUME Inv, AtStdin(in), InStep(ses), Commits(ses), NEW c \in Command, Turn(in, c)
    PROVE  InStepAfterList
  <1> DEFINE h == ParsedVars(hv, c)
             s == [ParsedSession(ses, c) EXCEPT !.fault = FALSE]
  <1>0. /\ Turns(his, added) /\ LoggedOn(s) /\ c.n \in Nat
        /\ c.kind # "explain" => InStep(s) /\ Commits(s)
    BY ParsedLoggedOn, ParsedInStep DEF Inv, LoggedOn, Command
  <1>1. ~in.fileRead
    BY StdinIsNoScript
  <1>2. ASSUME ses' = s, c.kind # "explain" PROVE InStepAfterList
    BY <1>0, <1>2 DEF InStepAfterList
  <1> HIDE DEF s, h
  <1>3. CASE c.kind = "syntax"
    <2>1. Skipped(in, h, s)
      BY <1>3 DEF Turn, h, s
    <2>2. QED
      BY <1>2, <1>3, <2>1 DEF Skipped, Keep
  <1>4. CASE c.kind # "syntax" /\ (in.inLoad \/ in.inEdit)
    <2>1. Added(c) /\ ses' = s
      BY <1>4 DEF Turn, Taken, Keep, h, s
    <2>2. added'[Len(added')] = c
      BY <1>0, <2>1, AddedTurns
    <2>3. QED
      BY <1>2, <2>1, <2>2 DEF InStepAfterList, Lists
  <1>5. CASE ~(c.kind = "syntax") /\ ~(in.inLoad \/ in.inEdit)
    <2>1. \/ c.kind = "hisrun" /\ Rerun(in, h, s, c)
          \/ c.kind = "save" /\ Skipped(in, h, s)
          \/ c.kind = "load" /\ LoadRun(in, h, s, c)
          \/ Dispatch(in, h, s, c)
      BY <1>1, <1>5 DEF Turn, h, s
    <2>2. CASE Dispatch(in, h, s, c)
      BY <1>0, <1>1, <2>2, DispatchRestores
    <2>3. CASE c.kind = "hisrun" /\ Rerun(in, h, s, c)
      <3> DEFINE old == GetCommand(his, c.n)
      <3>1. CASE HasCommand(his, c.n)
        <4>1. old \in Command
          BY <1>0, <3>1, OldIsCommand
        <4>2. Dispatch(in, ParsedVars(h, old), ParsedSession(s, old), old)
          BY <2>3, <3>1 DEF Rerun
        <4>3. InStep(s) /\ Commits(s) /\ s \in Session
          BY <1>0, <2>3 DEF LoggedOn
        <4>4. LoggedOn(ParsedSession(s, old))
          BY <1>0, <4>1, ParsedLoggedOn
        <4>5. old.kind # "explain" => InStep(ParsedSession(s, old)) /\ Commits(ParsedSession(s, old))
          BY <4>3, ParsedInStep
        <4> HIDE DEF old
        <4>6. QED
          BY <1>0, <1>1, <4>1, <4>2, <4>4, <4>5, DispatchRestores
      <3>2. CASE ~HasCommand(his, c.n)
        BY <1>2, <2>3, <3>2 DEF Rerun, Skipped, Keep
      <3>3. QED
        BY <3>1, <3>2
    <2>4. CASE (c.kind = "save" /\ Skipped(in, h, s)) \/ (c.kind = "load" /\ LoadRun(in, h, s, c))
      BY <1>2, <2>4 DEF Skipped, LoadRun, Keep
    <2>5. QED
      BY <2>1, <2>2, <2>3, <2>4
  <1>6. QED
    BY <1>3, <1>4, <1>5

(* A list of tables, sequences or columns that the user asks for, also by  *)
(* HISRUN, leaves the explain mode as it was, also when its query failed   *)
(* (PlanRestore).                                                          *)
THEOREM ListsRestorePlan == Spec => PlanRestored
  <1>1. Inv /\ [Next]_vars
        => [/\ typed' # typed /\ added' # <<>> /\ added'[Len(added')].kind \in Lists
            /\ InStep(ses) /\ (ses.planCommit \/ ses.auto) /\ ses'.conn /\ ~ses'.fault
            => InStep(ses')]_ses
    <2>1. SUFFICES ASSUME Inv, [Next]_vars, typed' # typed, InStep(ses), Commits(ses)
                   PROVE  InStepAfterList
      BY DEF InStepAfterList, Commits
    <2>2. PICK c \in Typed[opt.profile] : Type(c)
      BY <2>1 DEF Next, vars, Start, ReadScript, ReadEndOfFile, NextFile, Crash, ServerDown
    <2>3. c \in Command
      BY <2>1, OptionTypes DEF Inv
    <2>4. AtStdin(in) /\ Turn(in, c)
      BY <2>2 DEF Type
    <2>5. QED
      BY <2>1, <2>3, <2>4, TurnRestores
  <1>2. QED
    BY SpecInv, <1>1, PTL DEF Spec, PlanRestored

-----------------------------------------------------------------------------
(* The host variables.  The largest of some numbers, which a CHOOSE of the *)
(* model takes, exists because the naturals are well-founded.              *)
LEMMA Least ==
    ASSUME NEW T \in SUBSET Nat, T # {}
    PROVE  \E k \in T : \A j \in T : k <= j
  <1> DEFINE R == OpToRel(<, Nat)
  <1>1. IsWellFoundedOn(R, Nat)
    BY NatLessThanWellFounded
  <1>2. \A x, y \in Nat : y < x => <<y, x>> \in R
    BY DEF OpToRel
  <1> HIDE DEF R
  <1>3. PICK x \in T : \A y \in T : ~ (<<y, x>> \in R)
    BY <1>1, WFMin
  <1>4. x \in Nat /\ \A y \in T : y \in Nat
    OBVIOUS
  <1>5. \A y \in T : ~ (y < x)
    BY <1>2, <1>3, <1>4, Zenon
  <1>6. \A y \in T : x <= y
    BY <1>4, <1>5
  <1>7. QED
    BY <1>6

LEMMA Greatest ==
    ASSUME NEW n \in Nat, NEW T \in SUBSET (0..n), T # {}
    PROVE  \E k \in T : \A j \in T : j <= k
  <1> DEFINE U == {n - k : k \in T}
  <1>1. U \in SUBSET Nat /\ U # {}
    <2>1. \A k \in T : n - k \in Nat
      OBVIOUS
    <2>2. U \subseteq Nat
      BY <2>1, Zenon
    <2>3. U # {}
      OBVIOUS
    <2>4. QED
      BY <2>2, <2>3
  <1>2. PICK k \in U : \A j \in U : k <= j
    <2> HIDE DEF U
    <2>1. QED
      BY <1>1, Least
  <1>3. PICK i \in T : k = n - i
    BY <1>2
  <1>4. \A j \in T : k <= n - j /\ j \in Nat /\ i \in Nat
    BY <1>2
  <1>5. QED
    BY <1>3, <1>4

IsVariable(v) == \E T, V : v \in [type : T, value : V, assigned : BOOLEAN]

LEMMA Variables ==
    ASSUME NEW v, IsVariable(v), NEW x
    PROVE  /\ IsVariable([v EXCEPT !.assigned = FALSE])
           /\ IsVariable([v EXCEPT !.value = x])
           /\ IsVariable([type |-> v.type, value |-> x, assigned |-> TRUE])
           /\ v.assigned => v = [type |-> v.type, value |-> v.value, assigned |-> TRUE]
  <1>1. PICK T, V : v \in [type : T, value : V, assigned : BOOLEAN]
    BY DEF IsVariable
  <1>2. [v EXCEPT !.assigned = FALSE] \in [type : T, value : V, assigned : BOOLEAN]
    BY <1>1
  <1>3. [v EXCEPT !.value = x] \in [type : T, value : V \cup {x}, assigned : BOOLEAN]
    BY <1>1
  <1>4. [type |-> v.type, value |-> x, assigned |-> TRUE] \in [type : T, value : V \cup {x}, assigned : BOOLEAN]
    BY <1>1
  <1>5. v.assigned => v = [type |-> v.type, value |-> v.value, assigned |-> TRUE]
    BY <1>1
  <1>6. QED
    BY <1>2, <1>3, <1>4, <1>5 DEF IsVariable

WellFormed(h) ==
    /\ h = [vars |-> h.vars, bind |-> h.bind]
    /\ h.vars = [n \in Declared(h) |-> h.vars[n]]
    /\ \A n \in Declared(h) : IsVariable(h.vars[n])

LEMMA NewVarsFormed == WellFormed(NewVars)
  <1>1. DOMAIN <<>> = {}
    OBVIOUS
  <1>2. <<>> = [n \in {} |-> <<>>[n]]
    BY <1>1
  <1>3. QED
    BY <1>1, <1>2 DEF NewVars, WellFormed, Declared

LEMMA FormedBy ==
    ASSUME NEW h, WellFormed(h), NEW S, NEW f, f = [n \in S |-> f[n]], \A n \in S : IsVariable(f[n])
    PROVE  LET t == [h EXCEPT !.vars = f] IN WellFormed(t) /\ t.vars = f /\ t.bind = h.bind
  <1> DEFINE t == [h EXCEPT !.vars = f]
  <1>1. t = [vars |-> f, bind |-> h.bind]
    BY DEF WellFormed
  <1>2. t.vars = f /\ t.bind = h.bind /\ DOMAIN f = S
    BY <1>1
  <1>3. QED
    BY <1>1, <1>2 DEF WellFormed, Declared

LEMMA ParsedFormed ==
    ASSUME NEW h, WellFormed(h), NEW c
    PROVE  WellFormed(ParsedVars(h, c))
  <1>1. ASSUME NEW name, NEW type PROVE WellFormed(add(h, name, type))
    <2> DEFINE S == Declared(h) \cup {name}
               f == [n \in S |-> IF n = name THEN [type |-> type, value |-> Empty, assigned |-> FALSE] ELSE h.vars[n]]
    <2>1. f = [n \in S |-> f[n]]
      OBVIOUS
    <2>2. \A n \in S : IsVariable(f[n])
      BY DEF WellFormed, IsVariable
    <2>3. add(h, name, type) = [h EXCEPT !.vars = f]
      BY DEF add
    <2> HIDE DEF S, f
    <2>4. QED
      BY <2>1, <2>2, <2>3, FormedBy
  <1>2. ASSUME NEW name, NEW v, name \in Declared(h), IsVariable(v)
        PROVE  WellFormed([h EXCEPT !.vars = [h.vars EXCEPT ![name] = v]])
    <2> DEFINE S == Declared(h)
               f == [h.vars EXCEPT ![name] = v]
    <2>1. f = [n \in S |-> f[n]] /\ \A n \in S : f[n] = IF n = name THEN v ELSE h.vars[n]
      BY DEF WellFormed, Declared
    <2>2. \A n \in S : IsVariable(f[n])
      BY <1>2, <2>1 DEF WellFormed
    <2> HIDE DEF S, f
    <2>3. QED
      BY <2>1, <2>2, FormedBy DEF f
  <1>3. ASSUME NEW name, NEW literal PROVE WellFormed(setValue(h, name, literal))
    <2> DEFINE old == h.vars[name]
    <2>1. CASE setValue(h, name, literal) = h
      BY <2>1
    <2>2. CASE setValue(h, name, literal) # h
      <3>1. name \in Declared(h)
        BY <2>2 DEF setValue
      <3>2. PICK v \in {[old EXCEPT !.assigned = FALSE], [old EXCEPT !.value = Empty],
                        [old EXCEPT !.value = literal],
                        [type |-> old.type, value |-> literal, assigned |-> TRUE]} :
                setValue(h, name, literal) = [h EXCEPT !.vars = [h.vars EXCEPT ![name] = v]]
        BY <2>2 DEF setValue
      <3>3. IsVariable(v)
        <4>1. IsVariable(old)
          BY <3>1 DEF WellFormed
        <4> HIDE DEF old
        <4>2. \A x : /\ IsVariable([old EXCEPT !.assigned = FALSE])
                     /\ IsVariable([old EXCEPT !.value = x])
                     /\ IsVariable([type |-> old.type, value |-> x, assigned |-> TRUE])
          BY <4>1, Variables
        <4>3. v = [old EXCEPT !.assigned = FALSE] \/ (\E x : v = [old EXCEPT !.value = x])
              \/ v = [type |-> old.type, value |-> literal, assigned |-> TRUE]
          BY <3>2
        <4>4. QED
          BY <4>2, <4>3
      <3>4. QED
        BY <1>2, <3>1, <3>2, <3>3
    <2>3. QED
      BY <2>1, <2>2
  <1>4. QED
    BY <1>1, <1>3 DEF ParsedVars

LEMMA BindFinds ==
    ASSUME NEW h, WellFormed(h), NEW names \in Seq(Texts)
    PROVE  LET l == putBindList(h, names)
           IN  /\ WellFormed(l.hv) /\ l.hv.vars = h.vars
               /\ l.ok => /\ \A i \in 1 .. Len(names) : names[i] \in Declared(h)
                          /\ l.hv.bind = [i \in 1 .. Len(names) |-> Bound(h, names[i])]
  <1> DEFINE known == {k \in 0 .. Len(names) : \A i \in 1 .. k : names[i] \in Declared(h)}
             n     == CHOOSE k \in known : \A j \in known : j <= k
             bind  == [i \in 1 .. n |-> Bound(h, names[i])]
             t     == [h EXCEPT !.bind = bind]
             l     == putBindList(h, names)
  <1>1. l.hv = t /\ l.ok = (n = Len(names))
    BY DEF putBindList
  <1>2. n \in known
    <2>1. Len(names) \in Nat /\ 0 \in known /\ known \subseteq 0 .. Len(names)
      OBVIOUS
    <2> HIDE DEF known
    <2>2. \E k \in known : \A j \in known : j <= k
      BY <2>1, Greatest
    <2>3. QED
      BY <2>2
  <1>3. t = [vars |-> h.vars, bind |-> bind]
    <2> HIDE DEF bind
    <2>1. QED
      BY DEF WellFormed
  <1>4. n = Len(names) => /\ \A i \in 1 .. Len(names) : names[i] \in Declared(h)
                          /\ bind = [i \in 1 .. Len(names) |-> Bound(h, names[i])]
    <2>1. \A i \in 1 .. n : names[i] \in Declared(h)
      BY <1>2
    <2>2. QED
      BY <2>1
  <1> HIDE DEF n, bind, t
  <1>5. t.vars = h.vars /\ t.bind = bind
    BY <1>3
  <1>6. WellFormed(t)
    BY <1>3, <1>5 DEF WellFormed, Declared
  <1>7. QED
    BY <1>1, <1>4, <1>5, <1>6

(* What a call returned goes to the variables it binds, and to no other. *)
LEMMA SetWrites ==
    ASSUME NEW h, WellFormed(h), NEW names \in Seq(Texts), NEW g, g.vars = h.vars,
           g.bind = [i \in 1 .. Len(names) |-> Bound(h, names[i])],
           \A i \in 1 .. Len(names) : names[i] \in Declared(h), NEW outs
    PROVE  LET t == setHostVar(g, outs)
           IN  /\ WellFormed(t)
               /\ \A n \in Declared(h) :
                      /\ t.vars[n] # h.vars[n] => \E i \in 1 .. Len(names) : names[i] = n
                      /\ (\A i \in DOMAIN outs : names[i] # n) /\ h.vars[n].assigned
                         => t.vars[n] = h.vars[n]
  <1> DEFINE bind    == Outputs(g.bind, outs)
             ofs(n)  == {i \in DOMAIN bind : bind[i].name = n}
             last(n) == CHOOSE i \in ofs(n) : \A j \in ofs(n) : j <= i
             new(n)  == IF ofs(n) = {} THEN g.vars[n]
                        ELSE [type |-> g.vars[n].type, value |-> bind[last(n)].value, assigned |-> TRUE]
             f       == [n \in Declared(g) |-> new(n)]
             t       == setHostVar(g, outs)
  <1>1. t = [bind |-> bind, vars |-> f]
    BY DEF setHostVar
  <1>2. Declared(g) = Declared(h)
    BY DEF Declared
  <1>3. /\ DOMAIN bind = 1 .. Len(names)
        /\ \A i \in 1 .. Len(names) :
               /\ bind[i].name = names[i]
               /\ i \notin DOMAIN outs => bind[i].value = Bound(h, names[i]).value
    BY DEF Outputs, Bound
  <1>4. ASSUME NEW n, ofs(n) # {} PROVE last(n) \in 1 .. Len(names) /\ names[last(n)] = n
    <2> DEFINE T == ofs(n)
    <2>1. T \in SUBSET (0 .. Len(names)) /\ T # {} /\ Len(names) \in Nat
      <3>1. Len(names) \in Nat
        OBVIOUS
      <3> HIDE DEF bind
      <3>2. T \subseteq 1 .. Len(names)
        BY <1>3
      <3>3. T # {}
        BY <1>4
      <3> HIDE DEF T
      <3>4. QED
        BY <3>1, <3>2, <3>3
    <2> HIDE DEF T
    <2>2. \E k \in T : \A j \in T : j <= k
      BY <2>1, Greatest
    <2>3. last(n) \in T
      BY <2>2 DEF T
    <2>4. QED
      BY <1>3, <2>3 DEF T
  <1> HIDE DEF bind, last
  <1>5. ASSUME NEW n \in Declared(h)
        PROVE  /\ IsVariable(new(n))
               /\ new(n) # h.vars[n] => \E i \in 1 .. Len(names) : names[i] = n
               /\ (\A i \in DOMAIN outs : names[i] # n) /\ h.vars[n].assigned => new(n) = h.vars[n]
    <2>1. IsVariable(h.vars[n])
      BY DEF WellFormed
    <2>2. CASE ofs(n) = {}
      <3>1. new(n) = h.vars[n]
        BY <2>2
      <3> HIDE DEF new
      <3>2. QED
        BY <2>1, <3>1
    <2>3. CASE ofs(n) # {}
      <3> DEFINE i == last(n)
                 v == h.vars[n]
      <3>1. i \in 1 .. Len(names) /\ names[i] = n
        BY <1>4, <2>3
      <3>2. new(n) = [type |-> v.type, value |-> bind[i].value, assigned |-> TRUE]
        BY <2>3
      <3>3. (\A k \in DOMAIN outs : names[k] # n) /\ v.assigned => bind[i].value = v.value
        BY <1>3, <3>1 DEF Bound
      <3> HIDE DEF v, i, new, ofs
      <3>4. /\ IsVariable([type |-> v.type, value |-> bind[i].value, assigned |-> TRUE])
            /\ v.assigned => v = [type |-> v.type, value |-> v.value, assigned |-> TRUE]
        BY <2>1, Variables DEF v
      <3>5. QED
        BY <3>1, <3>2, <3>3, <3>4 DEF v
    <2>4. QED
      BY <2>2, <2>3
  <1> HIDE DEF new
  <1>6. t.vars = f /\ t.bind = bind /\ DOMAIN f = Declared(h) /\ \A n \in Declared(h) : f[n] = new(n)
    BY <1>1, <1>2
  <1>7. WellFormed(t)
    <2> HIDE DEF t
    <2>1. f = [n \in Declared(h) |-> f[n]]
      BY <1>2
    <2>2. \A n \in Declared(h) : IsVariable(f[n])
      BY <1>5, <1>6
    <2> HIDE DEF f
    <2>3. QED
      BY <1>1, <1>6, <2>1, <2>2 DEF WellFormed, Declared
  <1>8. \A n \in Declared(h) :
            /\ t.vars[n] # h.vars[n] => \E i \in 1 .. Len(names) : names[i] = n
            /\ (\A i \in DOMAIN outs : names[i] # n) /\ h.vars[n].assigned => t.vars[n] = h.vars[n]
    <2> HIDE DEF t, f
    <2>1. QED
      BY <1>5, <1>6
  <1>9. QED
    BY <1>7, <1>8

(* What ExecWritesBound says of an EXEC of the procedure a that turns h    *)
(* into t.                                                                 *)
WritesBound(h, t, a) ==
    LET p       == Proc[a]
        bound   == ToSet(p.names)
        written == {p.names[i] : i \in UNION {DOMAIN outs : outs \in p.outs}}
    IN  \A n \in Declared(h) :
            /\ t.vars[n] # h.vars[n] => n \in bound /\ bound \subseteq Declared(h)
            /\ n \notin written /\ h.vars[n].assigned => t.vars[n] = h.vars[n]

LEMMA NoneWritten ==
    ASSUME NEW h, NEW t, t.vars = h.vars, NEW a
    PROVE  WritesBound(h, t, a)
  BY DEF WritesBound

LEMMA ExecWrites ==
    ASSUME NEW x, NEW h, WellFormed(h), NEW s, NEW c \in Command, Exec(x, h, s, c)
    PROVE  WellFormed(hv') /\ WritesBound(h, hv', c.arg)
  <1> DEFINE p == Proc[c.arg]
             l == ParsingExecProc(h, p.names)
  <1>1. c.kind = "exec" /\ p.names \in Seq(Texts)
    BY ProcAssumption DEF Exec, Command
  <1>2. /\ WellFormed(l.hv) /\ l.hv.vars = h.vars
        /\ l.ok => /\ \A i \in 1 .. Len(p.names) : p.names[i] \in Declared(h)
                   /\ l.hv.bind = [i \in 1 .. Len(p.names) |-> Bound(h, p.names[i])]
    <2> DEFINE names == p.names
    <2>1. names \in Seq(Texts) /\ l = putBindList(h, names)
      BY <1>1 DEF ParsingExecProc
    <2> HIDE DEF names, l
    <2>2. QED
      BY <2>1, BindFinds DEF names
  <1>3. hv' = l.hv \/ (l.ok /\ \E outs \in p.outs : hv' = setHostVar(l.hv, outs))
    BY DEF Exec
  <1>4. CASE hv' = l.hv
    BY <1>2, <1>4, NoneWritten
  <1>5. ASSUME l.ok, NEW outs \in p.outs, hv' = setHostVar(l.hv, outs)
        PROVE  WellFormed(hv') /\ WritesBound(h, hv', c.arg)
    <2> DEFINE names == p.names
               g     == l.hv
               t     == setHostVar(g, outs)
               o     == p.outs
    <2>1. /\ names \in Seq(Texts) /\ g.vars = h.vars
          /\ g.bind = [i \in 1 .. Len(names) |-> Bound(h, names[i])]
          /\ \A i \in 1 .. Len(names) : names[i] \in Declared(h)
      BY <1>1, <1>2, <1>5
    <2>2. outs \in o /\ hv' = t
      BY <1>5
    <2>3. WritesBound(h, t, c.arg) <=>
              \A n \in Declared(h) :
                  /\ t.vars[n] # h.vars[n] => n \in ToSet(names) /\ ToSet(names) \subseteq Declared(h)
                  /\ n \notin {names[i] : i \in UNION {DOMAIN q : q \in o}} /\ h.vars[n].assigned
                     => t.vars[n] = h.vars[n]
      BY DEF WritesBound
    <2> HIDE DEF names, g, o, l, p
    <2>4. /\ WellFormed(t)
          /\ \A n \in Declared(h) :
                 /\ t.vars[n] # h.vars[n] => \E i \in 1 .. Len(names) : names[i] = n
                 /\ (\A i \in DOMAIN outs : names[i] # n) /\ h.vars[n].assigned
                    => t.vars[n] = h.vars[n]
      BY <2>1, SetWrites
    <2> HIDE DEF t
    <2>5. ToSet(names) = {names[i] : i \in 1 .. Len(names)}
      BY <2>1 DEF ToSet
    <2>6. ASSUME NEW n \in Declared(h)
          PROVE  /\ t.vars[n] # h.vars[n] => n \in ToSet(names) /\ ToSet(names) \subseteq Declared(h)
                 /\ n \notin {names[i] : i \in UNION {DOMAIN q : q \in o}} /\ h.vars[n].assigned
                    => t.vars[n] = h.vars[n]
      <3>1. t.vars[n] # h.vars[n] => n \in ToSet(names) /\ ToSet(names) \subseteq Declared(h)
        BY <2>1, <2>4, <2>5
      <3>2. n \notin {names[i] : i \in UNION {DOMAIN q : q \in o}} => \A i \in DOMAIN outs : names[i] # n
        BY <2>2
      <3>3. QED
        BY <2>4, <3>1, <3>2
    <2>7. QED
      BY <2>2, <2>3, <2>4, <2>6
  <1>6. QED
    BY <1>3, <1>4, <1>5

LEMMA DispatchWrites ==
    ASSUME NEW x, NEW h, WellFormed(h), NEW s, NEW c \in Command, Dispatch(x, h, s, c)
    PROVE  /\ WellFormed(hv')
           /\ c.kind = "exec" => WritesBound(h, hv', c.arg)
           /\ c.kind \in NotSaved => hv' = h
  <1>1. CASE Exec(x, h, s, c)
    BY <1>1, ExecWrites DEF Exec, NotSaved
  <1>2. CASE Prepared(x, h, s, c)
    <2> DEFINE names == Proc[c.arg].names
    <2>1. names \in Seq(Texts) /\ hv' = putBindList(h, names).hv /\ c.kind \in {"prepare", "prepselect"}
      BY <1>2, ProcAssumption DEF Prepared, Command, ParsingPrepareSQL
    <2> HIDE DEF names
    <2>2. WellFormed(hv')
      BY <2>1, BindFinds
    <2>3. QED
      BY <2>1, <2>2 DEF NotSaved
  <1>3. CASE hv' = h
    BY <1>3, NoneWritten
  <1>4. QED
    BY <1>1, <1>2, <1>3 DEF Dispatch, ScriptRun, EditRun, Spool, Exit, Other, Statement, SignalPipe,
          SetOption, ConnectRun, DisconnectRun, Keep

(* The command last put into the history is an EXEC. *)
ExecLast == added' # <<>> /\ added'[Len(added')].kind = "exec" => WritesBound(hv, hv', added'[Len(added')].arg)

LEMMA TurnWrites ==
    ASSUME Inv, WellFormed(hv), NEW x, NEW c \in Command, Turn(x, c)
    PROVE  WellFormed(hv') /\ (~x.fileRead => ExecLast)
  <1> DEFINE h == ParsedVars(hv, c)
             s == [ParsedSession(ses, c) EXCEPT !.fault = FALSE]
  <1>0. /\ Turns(his, added) /\ WellFormed(h) /\ c.n \in Nat
        /\ c.kind \notin {"declare", "assign"} => h = hv
    BY ParsedFormed DEF Inv, Command, ParsedVars
  <1> HIDE DEF s, h
  <1>1. hv' = hv => ExecLast
    <2>1. hv' = hv => \A a : WritesBound(hv, hv', a)
      BY NoneWritten
    <2>2. QED
      BY <2>1 DEF ExecLast
  <1>2. ASSUME NEW k, NEW d \in Command, WellFormed(k), d.kind \notin {"declare", "assign"} => k = hv,
               NEW r, Dispatch(x, k, r, d)
        PROVE  WellFormed(hv') /\ (~x.fileRead => ExecLast)
    <2>1. /\ WellFormed(hv')
          /\ d.kind = "exec" => WritesBound(k, hv', d.arg)
          /\ d.kind \in NotSaved => hv' = k
      BY <1>2, DispatchWrites
    <2>2. CASE d.kind \in NotSaved
      BY <1>1, <1>2, <2>1, <2>2 DEF NotSaved
    <2>3. CASE d.kind \notin NotSaved /\ ~x.fileRead
      <3>1. Added(d)
        BY <1>2, <2>3 DEF Dispatch
      <3>2. added'[Len(added')] = d
        BY <1>0, <3>1, AddedTurns
      <3>3. QED
        BY <1>2, <2>1, <3>2 DEF ExecLast
    <2>4. QED
      BY <2>1, <2>2, <2>3
  <1>3. CASE c.kind = "syntax"
    <2>1. Skipped(x, h, s)
      BY <1>3 DEF Turn, h, s
    <2>2. QED
      BY <1>0, <1>1, <1>3, <2>1 DEF Skipped, Keep
  <1>4. CASE c.kind # "syntax" /\ (x.inLoad \/ x.inEdit)
    <2>1. Added(c) /\ hv' = h
      BY <1>4 DEF Turn, Taken, Keep, h, s
    <2>2. added'[Len(added')] = c
      BY <1>0, <2>1, AddedTurns
    <2>3. CASE c.kind = "exec"
      BY <1>0, <1>1, <2>1, <2>3
    <2>4. CASE c.kind # "exec"
      BY <1>0, <2>1, <2>2, <2>4 DEF ExecLast
    <2>5. QED
      BY <2>3, <2>4
  <1>5. CASE ~(c.kind = "syntax") /\ ~(x.inLoad \/ x.inEdit)
    <2>1. \/ c.kind = "hisrun" /\ Rerun(x, h, s, c)
          \/ c.kind \in NotInScript /\ Skipped(x, h, s)
          \/ c.kind = "load" /\ LoadRun(x, h, s, c)
          \/ Dispatch(x, h, s, c)
      BY <1>5 DEF Turn, NotInScript, h, s
    <2>2. CASE Dispatch(x, h, s, c)
      BY <1>0, <1>2, <2>2
    <2>3. CASE c.kind = "hisrun" /\ Rerun(x, h, s, c)
      <3> DEFINE old == GetCommand(his, c.n)
      <3>1. CASE HasCommand(his, c.n)
        <4>1. old \in Command
          BY <1>0, <3>1, OldIsCommand
        <4>2. Dispatch(x, ParsedVars(h, old), ParsedSession(s, old), old)
          BY <2>3, <3>1 DEF Rerun
        <4>3. h = hv /\ WellFormed(ParsedVars(h, old))
          BY <1>0, <2>3, ParsedFormed
        <4>4. old.kind \notin {"declare", "assign"} => ParsedVars(h, old) = hv
          BY <4>3 DEF ParsedVars
        <4> HIDE DEF old
        <4>5. QED
          BY <1>2, <4>1, <4>2, <4>3, <4>4
      <3>2. CASE ~HasCommand(his, c.n)
        BY <1>0, <1>1, <2>3, <3>2 DEF Rerun, Skipped, Keep
      <3>3. QED
        BY <3>1, <3>2
    <2>4. CASE (c.kind \in NotInScript /\ Skipped(x, h, s)) \/ (c.kind = "load" /\ LoadRun(x, h, s, c))
      BY <1>0, <1>1, <2>4 DEF Skipped, LoadRun, Keep, NotInScript
    <2>5. QED
      BY <2>1, <2>2, <2>3, <2>4
  <1>6. QED
    BY <1>3, <1>4, <1>5

HostVarsOK == WellFormed(hv)

LEMMA HostVarsFormed == Spec => []HostVarsOK
  <1>1. Init => HostVarsOK
    BY NewVarsFormed DEF Init, HostVarsOK
  <1>2. Inv /\ HostVarsOK /\ [Next]_vars => HostVarsOK'
    <2>1. SUFFICES ASSUME Inv, WellFormed(hv), [Next]_vars PROVE WellFormed(hv')
      BY DEF HostVarsOK
    <2>2. CASE ReadScript
      <3>1. Head(Top(in).rest) \in Command
        BY <2>1, <2>2, OptionTypes, ReadFits DEF Inv, ReadScript
      <3>2. Turn(ReadCommand(in), Head(Top(in).rest))
        BY <2>2 DEF ReadScript
      <3>3. QED
        BY <2>1, <3>1, <3>2, TurnWrites
    <2>3. ASSUME NEW c \in Typed[opt.profile], Type(c) PROVE WellFormed(hv')
      <3>1. c \in Command /\ Turn(in, c)
        BY <2>1, <2>3, OptionTypes DEF Inv, Type
      <3>2. QED
        BY <2>1, <3>1, TurnWrites
    <2>4. CASE hv' = hv
      BY <2>1, <2>4
    <2>5. QED
      BY <2>1, <2>2, <2>3, <2>4 DEF Next, vars, Start, ReadEndOfFile, NextFile, Crash, ServerDown
  <1>3. QED
    BY SpecInv, <1>1, <1>2, PTL DEF Spec

(* An EXEC of the user's, also by HISRUN, writes only variables it binds,  *)
(* and only if all of them are declared; an assigned one that no output    *)
(* parameter returns keeps its value (putBindList, setHostVar).            *)
THEOREM ExecWritesWhatItBinds == Spec => ExecWritesBound
  <1>1. Inv /\ HostVarsOK /\ [Next]_vars
        => [typed' # typed /\ added' # <<>> /\ added'[Len(added')].kind = "exec" =>
             LET p       == Proc[added'[Len(added')].arg]
                 bound   == ToSet(p.names)
                 written == {p.names[i] : i \in UNION {DOMAIN outs : outs \in p.outs}}
             IN  \A n \in Declared(hv) :
                     /\ hv'.vars[n] # hv.vars[n] => n \in bound /\ bound \subseteq Declared(hv)
                     /\ n \notin written /\ hv.vars[n].assigned => hv'.vars[n] = hv.vars[n]]_hv
    <2>1. SUFFICES ASSUME Inv, WellFormed(hv), [Next]_vars, typed' # typed PROVE ExecLast
      BY DEF ExecLast, WritesBound, HostVarsOK
    <2>2. PICK c \in Typed[opt.profile] : Type(c)
      BY <2>1 DEF Next, vars, Start, ReadScript, ReadEndOfFile, NextFile, Crash, ServerDown
    <2>3. c \in Command /\ AtStdin(in) /\ Turn(in, c)
      BY <2>1, <2>2, OptionTypes DEF Inv, Type
    <2>4. ~in.fileRead
      BY <2>1, <2>3, StdinIsNoScript
    <2>5. QED
      BY <2>1, <2>3, <2>4, TurnWrites
  <1>2. QED
    BY SpecInv, HostVarsFormed, <1>1, PTL DEF Spec, ExecWritesBound
=============================================================================
