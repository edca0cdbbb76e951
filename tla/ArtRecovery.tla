----------------------------- MODULE ArtRecovery -----------------------------
(***************************************************************************)
(* The recovery test (ART, PRJ-1552): test cases of the kinds regressive,  *)
(* sequential and full (executeArtTest and what it calls in                *)
(* ats2/laborerThread.cpp).  A recovery point is a place in the server     *)
(* that kills the server once it is enabled.  A laborer that loses its     *)
(* session finds out from the boot log whether a recovery point or a bug   *)
(* killed the server, and starts it again; the laborers share the flags    *)
(* mIsHit, mIsCrash and mIsArtRestart of the Servicer without a mutex.     *)
(*                                                                         *)
(* The server, its boot log and its recovery points are external.  SKIP    *)
(* and the text of the results are left out.                               *)
(***************************************************************************)
EXTENDS Integers, Sequences

CONSTANTS Proc, P0,
          Tests,      \* [kind, script, ndebug]: a test case, the commands of each process,
                      \* and whether the service that runs it is built with NDEBUG
          MaxKills,   \* how often recovery points may kill the server
          MaxBugs     \* how often a bug may

ASSUME P0Assumption   == P0 \in Proc
ASSUME TestsAssumption ==
    \A t \in Tests : /\ t.kind \in {"regressive", "sequential", "full"} /\ t.ndebug \in BOOLEAN
                     /\ t.script \in [Proc -> Seq({"sql", "recpt", "system"})]

VARIABLES test,      \* the test case that is run
          todo,      \* the commands the Servicer has still to hand over
          mQuery,    \* Laborer::mQuery
          apc,       \* where each laborer is
          cur,       \* the command it executes
          recptr,    \* sQueryRecPtr, a local of runReal
          seen,      \* sIsCheckServer and sIsBUGKILL, locals of executeArtTest
          mLogon,    \* Laborer::mLogon
          session,   \* whether the laborer's session lives
          mIsHit, mIsCrash, mIsArtRestart, mIsFatal,    \* of the Servicer
          verdict,
          server, bootlog, armed, kills, bugs           \* external

lvars == <<todo, mQuery, apc, cur, recptr, seen, mLogon>>
flags == <<mIsHit, mIsCrash, mIsArtRestart, mIsFatal>>
world == <<server, bootlog, armed, kills, bugs>>
vars  == <<lvars, session, flags, test, verdict, world>>

Kind   == test.kind       \* Servicer::getAtsTestKind
Script == test.script
NDEBUG == test.ndebug

-----------------------------------------------------------------------------
(* runParseTable puts the command that enables the recovery points in      *)
(* front of the first node, which is P0's; a regressive test case has its  *)
(* own commands for that.                                                  *)
Enable == IF Kind = "regressive" THEN <<>> ELSE <<"recpt">>

Init ==
    /\ test \in Tests
    /\ todo    = [p \in Proc |-> IF p = P0 THEN Enable \o Script[p] ELSE Script[p]]
    /\ mQuery  = [p \in Proc |-> <<>>]
    /\ apc     = [p \in Proc |-> "idle"]
    /\ cur     = [p \in Proc |-> "none"]
    /\ recptr  = [p \in Proc |-> "junk"]
    /\ seen    = [p \in Proc |-> "no"]
    /\ mLogon  = [p \in Proc |-> FALSE]
    /\ session = [p \in Proc |-> FALSE]
    /\ mIsHit = FALSE /\ mIsCrash = FALSE /\ mIsArtRestart = FALSE /\ mIsFatal = FALSE
    /\ verdict = "none"
    /\ server = "up" /\ bootlog = "started" /\ armed = FALSE
    /\ kills = 0 /\ bugs = 0

Go(p, place) == apc' = [apc EXCEPT ![p] = place]

-----------------------------------------------------------------------------
(* abort() has ended the service, and all threads with it. *)
Aborted == \E p \in Proc : apc[p] = "aborted"

(* Servicer::push_back; modules Servicer and Laborer say when. *)
PushBack(p) ==
    /\ todo[p] # <<>>
    /\ ~Aborted
    /\ mQuery' = [mQuery EXCEPT ![p] = Append(@, Head(todo[p]))]
    /\ todo'   = [todo EXCEPT ![p] = Tail(@)]
    /\ UNCHANGED <<apc, cur, recptr, seen, mLogon, session, flags, test, verdict, world>>

(* runReal is entered for a queue that is not empty and left when it is;   *)
(* its local sQueryRecPtr starts with no value.                            *)
RunReal(p) ==
    /\ apc[p] = "idle"
    /\ mQuery[p] # <<>>
    /\ recptr' = [recptr EXCEPT ![p] = "junk"]
    /\ Go(p, "pop")
    /\ UNCHANGED <<todo, mQuery, cur, seen, mLogon, session, flags, test, verdict, world>>

Leave(p) ==
    /\ apc[p] = "pop"
    /\ mQuery[p] = <<>>
    /\ Go(p, "idle")
    /\ UNCHANGED <<todo, mQuery, cur, recptr, seen, mLogon, session, flags, test, verdict,
                   world>>

Pop(p) ==
    /\ apc[p] = "pop"
    /\ mQuery[p] # <<>>
    /\ Head(mQuery[p]) # "system"
    /\ cur'    = [cur EXCEPT ![p] = Head(mQuery[p])]
    /\ mQuery' = [mQuery EXCEPT ![p] = Tail(@)]
    /\ recptr' = IF Head(mQuery[p]) = "recpt" THEN [recptr EXCEPT ![p] = "recpt"] ELSE recptr
    /\ seen'   = [seen EXCEPT ![p] = "no"]
    /\ Go(p, "logon")
    /\ UNCHANGED <<todo, mLogon, session, flags, test, verdict, world>>

(* A SYSTEM command of the script that restarts the server. *)
System(p) ==
    /\ apc[p] = "pop"
    /\ mQuery[p] # <<>>
    /\ Head(mQuery[p]) = "system"
    /\ mQuery'  = [mQuery EXCEPT ![p] = Tail(@)]
    /\ server'  = "up"
    /\ bootlog' = "started"
    /\ armed'   = FALSE
    /\ session' = [q \in Proc |-> FALSE]
    /\ UNCHANGED <<todo, apc, cur, recptr, seen, mLogon, flags, test, verdict, kills, bugs>>

(* The thread ends for good; its queue stays as it is. *)
Die(p) == Go(p, "dead")

-----------------------------------------------------------------------------
(* executeArtTest, the logon.  Laborer::logon connects only when mLogon is *)
(* FALSE, and then sets it whether it connects or not.                     *)
Connects(p) == mLogon[p] \/ server = "up"
Connect(p)  == /\ mLogon'  = [mLogon EXCEPT ![p] = TRUE]
               /\ session' = IF mLogon[p] THEN session
                             ELSE [session EXCEPT ![p] = server = "up"]

Logon(p) ==
    /\ apc[p] = "logon"
    /\ Connects(p)
    /\ Connect(p)
    /\ mIsArtRestart' = (mIsArtRestart /\ p # P0)
    /\ Go(p, "execute")
    /\ UNCHANGED <<todo, mQuery, cur, recptr, seen, mIsHit, mIsCrash, mIsFatal,
                   test, verdict, world>>

(* Defect: P0 cleans the server after a failed logon without a restart. *)
LogonFailsCleaning(p) ==
    /\ apc[p] = "logon"
    /\ ~Connects(p)
    /\ ~mIsArtRestart
    /\ mIsCrash' = TRUE
    /\ Connect(p)
    /\ Die(p)
    /\ UNCHANGED <<todo, mQuery, cur, recptr, seen, mIsHit, mIsArtRestart, mIsFatal,
                   test, verdict, world>>

(* No restart is pending: a recovery point command goes on without a       *)
(* session, any other ends the thread.                                     *)
LogonFails(p) ==
    /\ apc[p] = "logon"
    /\ ~Connects(p)
    /\ ~mIsArtRestart
    /\ Connect(p)
    /\ \/ cur[p] = "recpt" /\ Go(p, "execute")
       \/ cur[p] # "recpt" /\ Die(p)
    /\ UNCHANGED <<todo, mQuery, cur, recptr, seen, flags, test, verdict, world>>

(* The restarted server does not recover: P0 cleans it, starts it and logs *)
(* on again.                                                               *)
CleanServer(p) ==
    /\ apc[p] = "logon"
    /\ ~Connects(p)
    /\ mIsArtRestart
    /\ p = P0
    /\ mIsCrash' = TRUE
    /\ mLogon'   = [mLogon EXCEPT ![p] = TRUE]
    /\ \/ /\ server' = "up" /\ bootlog' = "started" /\ armed' = FALSE
          /\ session' = [q \in Proc |-> q = p]
          /\ mIsArtRestart' = FALSE
          /\ Go(p, "execute")
       \/ Die(p) /\ UNCHANGED <<server, bootlog, armed, session, mIsArtRestart>>
    /\ UNCHANGED <<todo, mQuery, cur, recptr, seen, mIsHit, mIsFatal, test, verdict, kills,
                   bugs>>

(* Any other process calls logon a second time, which does nothing now. *)
LogonLate(p) ==
    /\ apc[p] = "logon"
    /\ ~Connects(p)
    /\ mIsArtRestart
    /\ p # P0
    /\ Connect(p)
    /\ Go(p, "execute")
    /\ UNCHANGED <<todo, mQuery, cur, recptr, seen, flags, test, verdict, world>>

-----------------------------------------------------------------------------
(* What one execution on p's session does to the server (external).        *)
Killed(cause) ==
    /\ server'  = "down"
    /\ bootlog' = cause
    /\ armed'   = FALSE
    /\ session' = [q \in Proc |-> FALSE]

Runs(p) ==
    /\ \/ mIsFatal' = TRUE /\ UNCHANGED armed     \* the statement is refused
       \/ armed' = (armed \/ cur[p] = "recpt") /\ UNCHANGED mIsFatal
    /\ session' = [session EXCEPT ![p] = TRUE]
    /\ UNCHANGED <<server, bootlog, kills, bugs>>

Dies(p) ==
    /\ \/ armed /\ kills < MaxKills /\ kills' = kills + 1 /\ Killed("killed") /\ UNCHANGED bugs
       \/ bugs < MaxBugs /\ bugs' = bugs + 1 /\ Killed("failed") /\ UNCHANGED kills
    /\ UNCHANGED mIsFatal

Unconnected ==
    UNCHANGED <<session, world, mIsFatal>>

Execute(p) ==
    /\ apc[p] = "execute"
    /\ \/ session[p]  /\ Runs(p) /\ Go(p, "report")
       \/ session[p]  /\ Dies(p) /\ Go(p, "lost")
       \/ ~session[p] /\ Unconnected /\ Go(p, "lost")
    /\ UNCHANGED <<todo, mQuery, cur, recptr, seen, mLogon, mIsHit, mIsCrash,
                   mIsArtRestart, test, verdict>>

(* The assertion that no restart is pending when a session is lost.  The   *)
(* makefile defines NDEBUG for some platforms, and overwrites CFLAGS with   *)
(* another value for all of them but win32.                                *)
Lost(p) ==
    /\ apc[p] = "lost"
    /\ mIsArtRestart => NDEBUG
    /\ Go(p, "retry")
    /\ UNCHANGED <<todo, mQuery, cur, recptr, seen, mLogon, session, flags, test, verdict,
                   world>>

Aborts(p) ==
    /\ apc[p] = "lost"
    /\ mIsArtRestart /\ ~NDEBUG
    /\ apc' = [q \in Proc |-> "aborted"]
    /\ UNCHANGED <<todo, mQuery, cur, recptr, seen, mLogon, session, flags, test, verdict,
                   world>>

(* retryExecution4ART: AltibaseHandler::execute never fails, so that what  *)
(* the second execution answers makes no difference.                       *)
Retry(p) ==
    /\ apc[p] = "retry"
    /\ server = "up"
    /\ Runs(p) \/ Dies(p)
    /\ Go(p, "report")
    /\ UNCHANGED <<todo, mQuery, cur, recptr, seen, mLogon, mIsHit, mIsCrash, mIsArtRestart,
                   test, verdict>>

RetryFails(p) ==
    /\ apc[p] = "retry"
    /\ server = "down"
    /\ Go(p, "check")
    /\ UNCHANGED <<todo, mQuery, cur, recptr, seen, mLogon, session, flags, test, verdict,
                   world>>

(* Defect: the hit is not recorded. *)
HitUnrecorded(p) ==
    /\ apc[p] = "check"
    /\ bootlog = "killed"
    /\ seen'   = [seen EXCEPT ![p] = "hit"]
    /\ Go(p, "start")
    /\ UNCHANGED <<todo, mQuery, cur, recptr, mLogon, session, flags, test, verdict, world>>

(* checkServer and doCheckServer4ART: what the boot log ends with. *)
Hit(p) ==
    /\ apc[p] = "check"
    /\ bootlog = "killed"
    /\ mIsHit' = TRUE
    /\ seen'   = [seen EXCEPT ![p] = "hit"]
    /\ Go(p, "start")
    /\ UNCHANGED <<todo, mQuery, cur, recptr, mLogon, session, mIsCrash,
                   mIsArtRestart, mIsFatal, test, verdict, world>>

(* "server start", which may fail to recover; in a full test the command   *)
(* that enables the recovery points comes next once more.                  *)
Restart(p) ==
    /\ apc[p] = "start"
    /\ \/ server = "down" /\ server' = "up" /\ bootlog' = "started"
       \/ UNCHANGED <<server, bootlog>>
    /\ mIsArtRestart' = TRUE
    /\ mLogon' = [mLogon EXCEPT ![p] = FALSE]
    /\ mQuery' = IF Kind = "full" THEN [mQuery EXCEPT ![p] = <<recptr[p]>> \o @] ELSE mQuery
    /\ Go(p, "report")
    /\ UNCHANGED <<todo, cur, recptr, seen, session, mIsHit, mIsCrash, mIsFatal,
                   test, verdict, armed, kills, bugs>>

(* A bug killed it, or someone has started it since. *)
NoHit(p) ==
    /\ apc[p] = "check"
    /\ bootlog # "killed"
    /\ seen' = [seen EXCEPT ![p] = "bug"]
    /\ \/ cur[p] = "recpt" /\ Go(p, "report") /\ UNCHANGED session
       \/ /\ cur[p] # "recpt" /\ server = "up"
          /\ session' = [session EXCEPT ![p] = TRUE]
          /\ Go(p, "report")
       \/ cur[p] # "recpt" /\ server = "down" /\ Die(p) /\ UNCHANGED session
    /\ UNCHANGED <<todo, mQuery, cur, recptr, mLogon, flags, test, verdict, world>>

(* The end of executeArtTest: a recovery point command clears the fatal    *)
(* flag, whoever set it.                                                   *)
Report(p) ==
    /\ apc[p] = "report"
    /\ mIsFatal' = (mIsFatal /\ cur[p] # "recpt")
    /\ Go(p, "pop")
    /\ UNCHANGED <<todo, mQuery, cur, recptr, seen, mLogon, session, mIsHit,
                   mIsCrash, mIsArtRestart, test, verdict, world>>

-----------------------------------------------------------------------------
(* runParseTable after syncLaborer. *)
Ended == \A p \in Proc :
            /\ todo[p] = <<>>
            /\ apc[p] = "dead" \/ (apc[p] = "idle" /\ mQuery[p] = <<>>)

(* Of a regressive test the text decides, unless the server crashed. *)
Judge ==
    /\ verdict = "none"
    /\ Ended
    /\ verdict' \in IF mIsCrash THEN {"CRASH"}
                    ELSE IF Kind = "regressive"
                         THEN {"PASS", IF mIsFatal THEN "FATAL" ELSE "FAIL"}
                    ELSE IF mIsHit   THEN {"HIT"}
                    ELSE IF mIsFatal THEN {"FATAL"}
                    ELSE {"MISS"}
    /\ UNCHANGED <<lvars, session, flags, test, world>>

LaborerStep(p) ==
    \/ RunReal(p) \/ Leave(p) \/ Pop(p) \/ System(p)
    \/ Logon(p) \/ LogonFails(p) \/ CleanServer(p) \/ LogonLate(p)
    \/ Execute(p) \/ Lost(p) \/ Aborts(p) \/ Retry(p) \/ RetryFails(p)
    \/ Hit(p) \/ Restart(p) \/ NoHit(p) \/ Report(p)

Next ==
    \/ \E p \in Proc : PushBack(p) \/ LaborerStep(p)
    \/ Judge
    \/ (verdict # "none" \/ Aborted) /\ UNCHANGED vars

Spec == Init /\ [][Next]_vars

-----------------------------------------------------------------------------
RestartsItself == \E p \in Proc : \E i \in DOMAIN Script[p] : Script[p][i] = "system"

(* A hit is reported only when a recovery point killed the server, however *)
(* the laborers that lost their sessions with it overtake each other       *)
(* between their logons, the boot log and the restart.  And a kill is not  *)
(* missed: when no script restarts the server itself, a sequential or full *)
(* test in which a recovery point killed it ends in HIT or in CRASH, or    *)
(* without a verdict where the assertion ends the service, which it does   *)
(* only after a hit.                                                       *)
HitIsReal ==
    /\ mIsHit => kills > 0
    /\ kills > 0 /\ Kind # "regressive" /\ ~RestartsItself => verdict \in {"none", "HIT", "CRASH"}
    /\ Aborted => mIsHit /\ verdict = "none"

(* CRASH, a server that does not recover, is reported only of a server     *)
(* that a recovery point had killed.                                       *)
CrashAfterHit == mIsCrash => mIsHit

(* For the proofs of the two. *)
Command == {"sql", "recpt", "system"}

TypeOK ==
    /\ test \in Tests
    /\ todo    \in [Proc -> Seq(Command)]
    /\ mQuery  \in [Proc -> Seq(Command \cup {"junk"})]
    /\ apc     \in [Proc -> {"idle", "pop", "logon", "execute", "lost", "retry", "check", "start",
                             "report", "dead", "aborted"}]
    /\ cur     \in [Proc -> Command \cup {"none", "junk"}]
    /\ recptr  \in [Proc -> {"junk", "recpt"}]
    /\ seen    \in [Proc -> {"no", "hit", "bug"}]
    /\ mLogon  \in [Proc -> BOOLEAN] /\ session \in [Proc -> BOOLEAN]
    /\ mIsHit \in BOOLEAN /\ mIsCrash \in BOOLEAN /\ mIsArtRestart \in BOOLEAN /\ mIsFatal \in BOOLEAN
    /\ verdict \in {"none", "PASS", "FAIL", "FATAL", "CRASH", "HIT", "MISS"}
    /\ server  \in {"up", "down"} /\ bootlog \in {"started", "killed", "failed"} /\ armed \in BOOLEAN
    /\ kills   \in Nat /\ bugs \in Nat

(* What is known of a kill: it is in the boot log before a laborer sees    *)
(* it, and only who has seen it starts or cleans the server.               *)
Evidence ==
    /\ mIsHit \/ bootlog = "killed" => kills > 0
    /\ mIsArtRestart \/ mIsCrash => mIsHit
    /\ \A p \in Proc : apc[p] \in {"start", "aborted"} => mIsHit

(* As long as no laborer has seen one, a server that is down stays down,   *)
(* for no script starts it: then no session lives, the boot log is kept,   *)
(* and who was killed with the server is on its way to look there.         *)
NeverSystem(q) == \A i \in DOMAIN q : q[i] # "system"

Unseen ==
    ~RestartsItself =>
        /\ \A p \in Proc : NeverSystem(todo[p]) /\ NeverSystem(mQuery[p])
        /\ ~mIsHit /\ server = "up" =>
              /\ kills = 0
              /\ \A p \in Proc : /\ apc[p] \notin {"lost", "retry", "check"}
                                 /\ mLogon[p] \/ apc[p] = "execute" => session[p]
        /\ ~mIsHit /\ server = "down" => \A p \in Proc : ~session[p]
        /\ ~mIsHit /\ kills > 0 =>
              bootlog = "killed" /\ \E p \in Proc : apc[p] \in {"lost", "retry", "check"}

(* Once the verdict is given nothing happens any more. *)
Judged ==
    /\ verdict # "none" => Ended
    /\ verdict \in {"MISS", "FATAL"} /\ Kind # "regressive" => ~mIsHit
    /\ verdict \in {"PASS", "FAIL"} => Kind = "regressive"

(* The comment of doCheckServer4ART: in a full test the recovery points    *)
(* are enabled again after each restart.                                   *)
EnabledAgain ==
    \A p \in Proc :
        Kind = "full" /\ apc[p] = "report" /\ seen[p] = "hit"
            => mQuery[p] # <<>> /\ Head(mQuery[p]) = "recpt"
==============================================================================
