------------------------------- MODULE Laborer -------------------------------
(***************************************************************************)
(* The laborer threads of one test case (ats2/laborerThread.cpp): one      *)
(* thread for each PROCESS the script names, each with a queue of commands *)
(* the Servicer fills and the laborer empties under the laborer's mutex.   *)
(*                                                                         *)
(* A command is popped inside the mutex and executed outside it, so a      *)
(* command leaves the queue before its effect exists.  The session with    *)
(* the database is abstracted to what it may answer.                       *)
(***************************************************************************)
EXTENDS CaseScript

CONSTANTS Answers,  \* what a statement may answer besides "ok"
          Logons    \* how a logon may end besides "ok"

ASSUME AnswersAssumption == Answers \subseteq {"lost", "refused"}
ASSUME LogonsAssumption  == Logons \subseteq {"silent", "refused"}

VARIABLES lpc,      \* where the thread of each process is
          queue,    \* Laborer::mQuery
          cur,      \* the command popped and not finished, as a sequence
          mEnd,     \* Laborer::mEnd
          mLogon,   \* Laborer::mLogon
          mRetry,   \* Laborer::mRetry
          mSbegin,  \* Laborer::mSbegin
          mResult,  \* Laborer::mResult, one entry for each command
          mFatal    \* Servicer's fatal flag, set from the laborers

lvars == <<lpc, queue, cur, mEnd, mLogon, mRetry, mSbegin, mResult, mFatal>>

-----------------------------------------------------------------------------
Threads == {"none", "run", "real", "exec", "exited", "destroyed"}

LTypeOK ==
    /\ lpc     \in [Proc -> Threads]
    /\ queue   \in [Proc -> Seq(Command)]
    /\ cur     \in [Proc -> Seq(Command)]
    /\ mEnd    \in [Proc -> BOOLEAN]
    /\ mLogon  \in [Proc -> BOOLEAN]
    /\ mRetry  \in [Proc -> BOOLEAN]
    /\ mSbegin \in [Proc -> BOOLEAN]
    /\ mResult \in [Proc -> Seq(Entry)]
    /\ mFatal  \in BOOLEAN

LInit ==
    /\ lpc     = [p \in Proc |-> "none"]
    /\ queue   = [p \in Proc |-> <<>>]
    /\ cur     = [p \in Proc |-> <<>>]
    /\ mEnd    = [p \in Proc |-> FALSE]
    /\ mLogon  = [p \in Proc |-> FALSE]
    /\ mRetry  = [p \in Proc |-> TRUE]
    /\ mSbegin = [p \in Proc |-> FALSE]
    /\ mResult = [p \in Proc |-> <<>>]
    /\ mFatal  = FALSE

-----------------------------------------------------------------------------
(* What the Servicer does to a laborer. *)

(* Laborer::initialize and start: the constructor values are LInit's. *)
Start(p) ==
    /\ lpc' = [lpc EXCEPT ![p] = "run"]
    /\ UNCHANGED <<queue, cur, mEnd, mLogon, mRetry, mSbegin, mResult, mFatal>>

(* Laborer::push_back, of one command or of a whole list. *)
PushBack(p, cs) ==
    /\ queue' = [queue EXCEPT ![p] = @ \o cs]
    /\ UNCHANGED <<lpc, cur, mEnd, mLogon, mRetry, mSbegin, mResult, mFatal>>

(* Defect: sync looks at the queue alone. *)
SyncedByQueue(p) == queue[p] = <<>>

(* Laborer::sync polls until this holds.  A command the laborer has popped *)
(* is no longer in the queue, finished or not.                             *)
Synced(p) == mEnd[p] \/ queue[p] = <<>>

(* Laborer::end, outside the mutex. *)
End(p) ==
    /\ mEnd' = [mEnd EXCEPT ![p] = TRUE]
    /\ UNCHANGED <<lpc, queue, cur, mLogon, mRetry, mSbegin, mResult, mFatal>>

(* Laborer::getResult returns the text and empties it. *)
TakeResult(p) ==
    /\ mResult' = [mResult EXCEPT ![p] = <<>>]
    /\ UNCHANGED <<lpc, queue, cur, mEnd, mLogon, mRetry, mSbegin, mFatal>>

(* Laborer::destroy and delete, whatever its thread is doing. *)
Destroy(p) ==
    /\ lpc' = [lpc EXCEPT ![p] = "destroyed"]
    /\ UNCHANGED <<queue, cur, mEnd, mLogon, mRetry, mSbegin, mResult, mFatal>>

-----------------------------------------------------------------------------
(* Laborer::run, one turn of the loop under the mutex. *)
Work(p) ==
    /\ lpc[p] = "run"
    /\ queue[p] # <<>>
    /\ lpc' = [lpc EXCEPT ![p] = "real"]
    /\ UNCHANGED <<queue, cur, mEnd, mLogon, mRetry, mSbegin, mResult, mFatal>>

Exit(p) ==
    /\ lpc[p] = "run"
    /\ queue[p] = <<>>
    /\ mEnd[p]
    /\ lpc' = [lpc EXCEPT ![p] = "exited"]
    /\ UNCHANGED <<queue, cur, mEnd, mLogon, mRetry, mSbegin, mResult, mFatal>>

(* Laborer::runReal, the head of its loop under the mutex. *)
Pop(p) ==
    /\ lpc[p] = "real"
    /\ queue[p] # <<>>
    /\ cur'   = [cur EXCEPT ![p] = <<Head(queue[p])>>]
    /\ queue' = [queue EXCEPT ![p] = Tail(@)]
    /\ lpc'   = [lpc EXCEPT ![p] = "exec"]
    /\ UNCHANGED <<mEnd, mLogon, mRetry, mSbegin, mResult, mFatal>>

Drained(p) ==
    /\ lpc[p] = "real"
    /\ queue[p] = <<>>
    /\ lpc' = [lpc EXCEPT ![p] = "run"]
    /\ UNCHANGED <<queue, cur, mEnd, mLogon, mRetry, mSbegin, mResult, mFatal>>

-----------------------------------------------------------------------------
(* Laborer::runReal, the switch on the type of the popped command. *)
Executing(p, kinds) ==
    /\ lpc[p] = "exec"
    /\ cur[p] # <<>>
    /\ Head(cur[p]).kind \in kinds

(* The command is finished with output out; the loop goes round. *)
Finish(p, out) ==
    /\ mResult' = [mResult EXCEPT ![p] = Append(@, [cmd |-> Head(cur[p]), out |-> out])]
    /\ cur' = [cur EXCEPT ![p] = <<>>]
    /\ lpc' = [lpc EXCEPT ![p] = "real"]

(* The exception of runReal: mEnd is set, the thread leaves run for good  *)
(* and its queue stays as it is.  Only the text of the session tells why. *)
Die(p, how) ==
    /\ mResult' = [mResult EXCEPT ![p] = Append(@, [cmd |-> Head(cur[p]), out |-> "dead"])]
    /\ cur'    = [cur EXCEPT ![p] = <<>>]
    /\ lpc'    = [lpc EXCEPT ![p] = "exited"]
    /\ mEnd'   = [mEnd EXCEPT ![p] = TRUE]
    /\ mLogon' = [mLogon EXCEPT ![p] = TRUE]
    /\ mFatal' = (mFatal \/ how = "refused")
    /\ UNCHANGED <<queue, mRetry, mSbegin>>

ExecText(p) ==
    /\ Executing(p, {"text"})
    /\ Finish(p, "ok")
    /\ UNCHANGED <<queue, mEnd, mLogon, mRetry, mSbegin, mFatal>>

(* Defect: SKIP END does not end the skipping. *)
ExecSkipForGood(p) ==
    /\ Executing(p, {"skip_begin", "skip_end"})
    /\ mSbegin' = [mSbegin EXCEPT ![p] = TRUE]
    /\ Finish(p, "ok")
    /\ UNCHANGED <<queue, mEnd, mLogon, mRetry, mFatal>>

ExecSkip(p) ==
    /\ Executing(p, {"skip_begin", "skip_end"})
    /\ mSbegin' = [mSbegin EXCEPT ![p] = Head(cur[p]).kind = "skip_begin"]
    /\ Finish(p, "ok")
    /\ UNCHANGED <<queue, mEnd, mLogon, mRetry, mFatal>>

ExecRestart(p) ==
    /\ Executing(p, {"restart_on", "restart_off"})
    /\ mRetry' = [mRetry EXCEPT ![p] = Head(cur[p]).kind = "restart_on"]
    /\ Finish(p, "ok")
    /\ UNCHANGED <<queue, mEnd, mLogon, mSbegin, mFatal>>

(* A logon is tried before the first statement only; mLogon is set before *)
(* the try.                                                               *)
LogonFails(p) ==
    /\ Executing(p, {"sql"})
    /\ ~mLogon[p]
    /\ \E how \in Logons : Die(p, how)

(* What remains in the result: the answer, or under SKIP the echo alone. *)
Shown(p, answer) == IF mSbegin[p] THEN "echo" ELSE answer

ExecSql(p) ==
    /\ Executing(p, {"sql"})
    /\ \E answer \in Answers \cup {"ok"} :
          /\ answer = "lost" => ~mRetry[p]
          /\ mFatal' = (mFatal \/ answer = "refused")
          /\ Finish(p, Shown(p, answer))
    /\ mLogon' = [mLogon EXCEPT ![p] = TRUE]
    /\ UNCHANGED <<queue, mEnd, mRetry, mSbegin>>

(* The statement lost its session: log on again, and execute it again.  *)
(* The second answer is not examined; under SKIP it is not even read.   *)
ExecSqlAgain(p) ==
    /\ Executing(p, {"sql"})
    /\ "lost" \in Answers
    /\ mRetry[p]
    /\ \E answer \in Answers \cup {"ok"} :
          /\ mFatal' = (mFatal \/ (answer = "refused" /\ ~mSbegin[p]))
          /\ Finish(p, Shown(p, answer))
    /\ mLogon' = [mLogon EXCEPT ![p] = TRUE]
    /\ UNCHANGED <<queue, mEnd, mRetry, mSbegin>>

RelogonFails(p) ==
    /\ Executing(p, {"sql"})
    /\ "lost" \in Answers
    /\ mRetry[p]
    /\ \E how \in Logons : Die(p, how)

LaborerStep(p) ==
    \/ Work(p)
    \/ Exit(p)
    \/ Pop(p)
    \/ Drained(p)
    \/ ExecText(p)
    \/ ExecSkip(p)
    \/ ExecRestart(p)
    \/ LogonFails(p)
    \/ ExecSql(p)
    \/ ExecSqlAgain(p)
    \/ RelogonFails(p)
==============================================================================
