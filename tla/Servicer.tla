------------------------------- MODULE Servicer -------------------------------
(***************************************************************************)
(* The Servicer thread that runs one test case (ats2/serviceThread.cpp):   *)
(* it walks the parsed script, starts a laborer for each PROCESS it meets, *)
(* hands out the commands, makes the PWAIT barriers, ends the laborers,    *)
(* compares what they printed with the oracle and destroys them.           *)
(*                                                                         *)
(* P0 gets each command at once.  The commands of every other process wait *)
(* in a buffer of the Servicer's until the next PWAIT, or the end of the   *)
(* script, moves them to the laborers.                                     *)
(***************************************************************************)
EXTENDS Laborer

CONSTANT StartMayFail   \* whether pthread_create may fail

ASSUME StartMayFailAssumption == StartMayFail \in BOOLEAN

VARIABLES script,    \* the parse table of this run
          pc,        \* where the Servicer is
          ip,        \* the item of the script it is at
          mLaborer,  \* the processes that have a laborer (keys of mLaborer)
          mQuery,    \* Servicer::mQuery, the commands not handed over yet
          visited,   \* the laborers the current pass over mLaborer has seen
          mIgnore,   \* Servicer::mIgnore
          failed,    \* the run took the error path
          mReData,   \* the text collected from each laborer
          verdict    \* what enqueueData reports

svars == <<script, pc, ip, mLaborer, mQuery, visited, mIgnore, failed, mReData, verdict>>
vars  == <<lvars, svars>>

Places   == {"load", "parse", "flush", "wait", "end", "join", "collect", "judge",
             "destroy", "done"}
Verdicts == {"none", "PASS", "FAIL", "FATAL", "ERROR"}

-----------------------------------------------------------------------------
(* The nodes and elements are all walked. *)
Final == ip = Len(script) + 1

-----------------------------------------------------------------------------
Init ==
    /\ LInit
    /\ script   \in Scripts
    /\ pc       = "load"
    /\ ip       = 1
    /\ mLaborer = {}
    /\ mQuery   = [p \in Proc |-> <<>>]
    /\ visited  = {}
    /\ mIgnore  = FALSE
    /\ failed   = FALSE
    /\ mReData  = [p \in Proc |-> <<>>]
    /\ verdict  = "none"

(* A pass over mLaborer takes the processes in the order of the map. *)
Next1(p, S) == p \in S \ visited /\ \A q \in S \ visited : p <= q

Error ==
    /\ failed'  = TRUE
    /\ visited' = {}
    /\ pc'      = "collect"

-----------------------------------------------------------------------------
(* Servicer::runReal up to psparse: the case, the oracle and the parse. *)
Load ==
    /\ pc = "load"
    /\ pc' = "parse"
    /\ UNCHANGED <<lvars, script, ip, mLaborer, mQuery, visited, mIgnore, failed, mReData, verdict>>

LoadFails ==
    /\ pc = "load"
    /\ Error
    /\ UNCHANGED <<lvars, script, ip, mLaborer, mQuery, mIgnore, mReData, verdict>>

-----------------------------------------------------------------------------
(* Servicer::runParseTable: the loop over nodes and elements. *)
At(ops) == pc = "parse" /\ ~Final /\ script[ip].op \in ops

RunLaborer ==
    /\ At({"node"})
    /\ script[ip].proc \notin mLaborer
    /\ Start(script[ip].proc)
    /\ mLaborer' = mLaborer \cup {script[ip].proc}
    /\ mQuery'   = [mQuery EXCEPT ![script[ip].proc] = <<>>]
    /\ ip'       = ip + 1
    /\ UNCHANGED <<script, pc, visited, mIgnore, failed, mReData, verdict>>

RunLaborerFails ==
    /\ At({"node"})
    /\ script[ip].proc \notin mLaborer
    /\ StartMayFail
    /\ Error
    /\ UNCHANGED <<lvars, script, ip, mLaborer, mQuery, mIgnore, mReData, verdict>>

SameLaborer ==
    /\ At({"node"})
    /\ script[ip].proc \in mLaborer
    /\ ip' = ip + 1
    /\ UNCHANGED <<lvars, script, pc, mLaborer, mQuery, visited, mIgnore, failed, mReData, verdict>>

(* Servicer::push_back *)
PushP0 ==
    /\ At({"cmd"})
    /\ script[ip].proc = P0
    /\ PushBack(P0, <<CommandAt(script, ip)>>)
    /\ ip' = ip + 1
    /\ UNCHANGED <<script, pc, mLaborer, mQuery, visited, mIgnore, failed, mReData, verdict>>

PushBuffer ==
    /\ At({"cmd"})
    /\ script[ip].proc # P0
    /\ mQuery' = [mQuery EXCEPT ![script[ip].proc] = Append(@, CommandAt(script, ip))]
    /\ ip' = ip + 1
    /\ UNCHANGED <<lvars, script, pc, mLaborer, visited, mIgnore, failed, mReData, verdict>>

Ignore ==
    /\ At({"ignore"})
    /\ mIgnore' = TRUE
    /\ ip' = ip + 1
    /\ UNCHANGED <<lvars, script, pc, mLaborer, mQuery, visited, failed, mReData, verdict>>

-----------------------------------------------------------------------------
(* Servicer::syncP0, sync() and async(), sync(process), syncLaborer. *)

(* Defect: PWAIT without syncP0. *)
PwaitUnsynced ==
    /\ At({"pwait_all", "pwait_time", "pwait_proc"})
    /\ pc' = "flush"
    /\ UNCHANGED <<lvars, script, ip, mLaborer, mQuery, visited, mIgnore, failed, mReData, verdict>>

(* A PWAIT first lets P0 drain, whatever it waits for. *)
Pwait ==
    /\ At({"pwait_all", "pwait_time", "pwait_proc"})
    /\ P0 \in mLaborer => Synced(P0)
    /\ pc' = "flush"
    /\ UNCHANGED <<lvars, script, ip, mLaborer, mQuery, visited, mIgnore, failed, mReData, verdict>>

EndOfScript ==
    /\ pc = "parse"
    /\ Final
    /\ pc' = "flush"
    /\ UNCHANGED <<lvars, script, ip, mLaborer, mQuery, visited, mIgnore, failed, mReData, verdict>>

(* Defect: the list handed over is not cleared. *)
FlushKeeping(p) ==
    /\ pc = "flush"
    /\ Next1(p, mLaborer)
    /\ PushBack(p, mQuery[p])
    /\ visited' = visited \cup {p}
    /\ UNCHANGED <<script, pc, ip, mLaborer, mQuery, mIgnore, failed, mReData, verdict>>

Flush(p) ==
    /\ pc = "flush"
    /\ Next1(p, mLaborer)
    /\ PushBack(p, mQuery[p])
    /\ mQuery'  = [mQuery EXCEPT ![p] = <<>>]
    /\ visited' = visited \cup {p}
    /\ UNCHANGED <<script, pc, ip, mLaborer, mIgnore, failed, mReData, verdict>>

Flushed ==
    /\ pc = "flush"
    /\ mLaborer \subseteq visited
    /\ visited' = {}
    /\ pc'      = "wait"
    /\ UNCHANGED <<lvars, script, ip, mLaborer, mQuery, mIgnore, failed, mReData, verdict>>

(* Defect: a PWAIT for all waits like sleep. *)
AwaitedByName == IF Final THEN mLaborer
                 ELSE IF script[ip].op = "pwait_proc" THEN mLaborer \cap {script[ip].proc}
                 ELSE {}

(* The laborers this barrier waits for; sleep(n) waits for none. *)
Awaited == IF Final \/ script[ip].op = "pwait_all" THEN mLaborer
           ELSE IF script[ip].op = "pwait_proc" THEN mLaborer \cap {script[ip].proc}
           ELSE {}

Wait(p) ==
    /\ pc = "wait"
    /\ Next1(p, Awaited)
    /\ Synced(p)
    /\ visited' = visited \cup {p}
    /\ UNCHANGED <<lvars, script, pc, ip, mLaborer, mQuery, mIgnore, failed, mReData, verdict>>

(* The barrier of a PWAIT is passed: its line goes to P0. *)
Waited ==
    /\ pc = "wait"
    /\ ~Final
    /\ Awaited \subseteq visited
    /\ PushBack(P0, <<CommandAt(script, ip)>>)
    /\ ip'      = ip + 1
    /\ visited' = {}
    /\ pc'      = "parse"
    /\ UNCHANGED <<script, mLaborer, mQuery, mIgnore, failed, mReData, verdict>>

(* Defect: syncLaborer gives up before it ends the laborers. *)
LastWaitedGivingUp ==
    /\ pc = "wait"
    /\ Final
    /\ Awaited \subseteq visited
    /\ visited' = {}
    /\ pc'      = "collect"
    /\ UNCHANGED <<lvars, script, ip, mLaborer, mQuery, mIgnore, failed, mReData, verdict>>

LastWaited ==
    /\ pc = "wait"
    /\ Final
    /\ Awaited \subseteq visited
    /\ visited' = {}
    /\ pc'      = "end"
    /\ UNCHANGED <<lvars, script, ip, mLaborer, mQuery, mIgnore, failed, mReData, verdict>>

(* syncLaborer ends and joins one laborer after the other. *)
EndLaborer(p) ==
    /\ pc = "end"
    /\ Next1(p, mLaborer)
    /\ End(p)
    /\ pc' = "join"
    /\ UNCHANGED <<script, ip, mLaborer, mQuery, visited, mIgnore, failed, mReData, verdict>>

(* Defect: end without pthread_join. *)
JoinNot(p) ==
    /\ pc = "join"
    /\ Next1(p, mLaborer)
    /\ visited' = visited \cup {p}
    /\ pc'      = "end"
    /\ UNCHANGED <<lvars, script, ip, mLaborer, mQuery, mIgnore, failed, mReData, verdict>>

Join(p) ==
    /\ pc = "join"
    /\ Next1(p, mLaborer)
    /\ lpc[p] = "exited"
    /\ visited' = visited \cup {p}
    /\ pc'      = "end"
    /\ UNCHANGED <<lvars, script, ip, mLaborer, mQuery, mIgnore, failed, mReData, verdict>>

Joined ==
    /\ pc = "end"
    /\ mLaborer \subseteq visited
    /\ visited' = {}
    /\ pc'      = "collect"
    /\ UNCHANGED <<lvars, script, ip, mLaborer, mQuery, mIgnore, failed, mReData, verdict>>

-----------------------------------------------------------------------------
(* The end of runParseTable, or of runReal on the error path. *)

(* Defect: the verdict of the ART kinds in a normal run. *)
IgnoredAsArt ==
    /\ pc = "collect"
    /\ mIgnore /\ ~failed
    /\ verdict' = "IGNR"
    /\ pc'      = "destroy"
    /\ UNCHANGED <<lvars, script, ip, mLaborer, mQuery, visited, mIgnore, failed, mReData>>

(* IGNORE: nothing is collected and the case passes. *)
Ignored ==
    /\ pc = "collect"
    /\ mIgnore /\ ~failed
    /\ verdict' = "PASS"
    /\ pc'      = "destroy"
    /\ UNCHANGED <<lvars, script, ip, mLaborer, mQuery, visited, mIgnore, failed, mReData>>

(* Servicer::saveRESULT *)
Collect(p) ==
    /\ pc = "collect"
    /\ ~mIgnore \/ failed
    /\ Next1(p, mLaborer)
    /\ mReData' = [mReData EXCEPT ![p] = mResult[p]]
    /\ TakeResult(p)
    /\ visited' = visited \cup {p}
    /\ UNCHANGED <<script, pc, ip, mLaborer, mQuery, mIgnore, failed, verdict>>

Collected ==
    /\ pc = "collect"
    /\ ~mIgnore \/ failed
    /\ mLaborer \subseteq visited
    /\ visited' = {}
    /\ pc'      = "judge"
    /\ UNCHANGED <<lvars, script, ip, mLaborer, mQuery, mIgnore, failed, mReData, verdict>>

Judge ==
    /\ pc = "judge"
    /\ verdict' = IF failed THEN "ERROR"
                  ELSE IF \A p \in Proc : mReData[p] = Oracle(script, p) THEN "PASS"
                  ELSE IF mFatal THEN "FATAL"
                  ELSE "FAIL"
    /\ pc' = "destroy"
    /\ UNCHANGED <<lvars, script, ip, mLaborer, mQuery, visited, mIgnore, failed, mReData>>

(* Servicer::endLaborer destroys whatever is in mLaborer. *)
DestroyLaborer(p) ==
    /\ pc = "destroy"
    /\ Next1(p, mLaborer)
    /\ Destroy(p)
    /\ visited' = visited \cup {p}
    /\ UNCHANGED <<script, pc, ip, mLaborer, mQuery, mIgnore, failed, mReData, verdict>>

(* A thread that nobody joined may hold its mutex in Laborer::run, and then *)
(* pthread_mutex_destroy fails: the Servicer leaves run with mLaborer as it *)
(* is.  The laborer has lost its sessions and mRunner by then.              *)
DestroyFails(p) ==
    /\ pc = "destroy"
    /\ Next1(p, mLaborer)
    /\ lpc[p] \in {"run", "real"}
    /\ Destroy(p)
    /\ pc' = "done"
    /\ UNCHANGED <<script, ip, mLaborer, mQuery, visited, mIgnore, failed, mReData, verdict>>

Destroyed ==
    /\ pc = "destroy"
    /\ mLaborer \subseteq visited
    /\ mLaborer' = {}
    /\ visited'  = {}
    /\ pc'       = "done"
    /\ UNCHANGED <<lvars, script, ip, mQuery, mIgnore, failed, mReData, verdict>>

-----------------------------------------------------------------------------
ServicerStep ==
    \/ Load \/ LoadFails
    \/ RunLaborer \/ RunLaborerFails \/ SameLaborer
    \/ PushP0 \/ PushBuffer \/ Ignore
    \/ Pwait \/ EndOfScript \/ Flushed \/ Waited \/ LastWaited \/ Joined
    \/ Ignored \/ Collected \/ Judge \/ Destroyed
    \/ \E p \in Proc : \/ Flush(p) \/ Wait(p) \/ EndLaborer(p) \/ Join(p)
                       \/ Collect(p) \/ DestroyLaborer(p) \/ DestroyFails(p)

Next == \/ ServicerStep
        \/ \E p \in Proc : LaborerStep(p) /\ UNCHANGED svars
        \/ pc = "done" /\ UNCHANGED vars

Spec == Init /\ [][Next]_vars

(* Every thread keeps running: sync and run poll without holding a lock,   *)
(* and the waits inside a command are bounded by mIsqlReadTimeout and      *)
(* mEVENT_TIMEOUT.                                                         *)
Fairness == /\ WF_vars(ServicerStep)
            /\ \A p \in Proc : WF_vars(LaborerStep(p) /\ UNCHANGED svars)

FairSpec == Spec /\ Fairness

-----------------------------------------------------------------------------
(* The variables have their types. *)
TypeOK ==
    /\ LTypeOK
    /\ script   \in Scripts
    /\ pc       \in Places
    /\ ip       \in 1..(Len(script) + 1)
    /\ mLaborer \in SUBSET Proc
    /\ mQuery   \in [Proc -> Seq(Command)]
    /\ visited  \in SUBSET Proc
    /\ mIgnore  \in BOOLEAN
    /\ failed   \in BOOLEAN
    /\ mReData  \in [Proc -> Seq(Entry)]
    /\ verdict  \in Verdicts

(* Everything of process p that has left the script, oldest first: what is *)
(* in its output, what it is executing, what is in the laborer's queue and *)
(* what the Servicer still holds.                                          *)
Output(p)   == mReData[p] \o mResult[p]
Commands(r) == [k \in DOMAIN r |-> r[k].cmd]
Stream(p)   == Commands(Output(p)) \o cur[p] \o queue[p] \o mQuery[p]

(* No command is lost, repeated or overtaken between push_back and the     *)
(* output, whatever the Servicer and the laborers do to the two queues,    *)
(* and also when a session dies or a thread cannot be started: the stream  *)
(* of a process holds exactly its commands up to the Servicer's place, in  *)
(* the order of the script.                                                *)
CommandsInOrder == \A p \in Proc : InOrder(Stream(p), script, p, ip - 1)

(* Where commands can be, for the proof of CommandsInOrder: a laborer      *)
(* holds at most one command, and only between its pop and its end; the    *)
(* Servicer buffers nothing for P0 nor for a process without a laborer;    *)
(* output is collected once, in the pass over the laborers.                *)
Placed ==
    /\ \A p \in Proc :
          /\ cur[p] = <<>> \/ Len(cur[p]) = 1
          /\ lpc[p] \notin {"exec", "destroyed"} => cur[p] = <<>>
          /\ pc # "done" /\ p \notin mLaborer => lpc[p] = "none" /\ mQuery[p] = <<>>
          /\ \/ mReData[p] = <<>>
             \/ pc = "collect" /\ p \in visited
             \/ pc \in {"judge", "destroy", "done"}
    /\ mQuery[P0] = <<>>
    /\ pc \in {"flush", "wait"} => Final \/ IsPwait(script, ip)
    /\ pc # "done" => \A j \in 1..(ip - 1) :
                         script[j].op = "node" => script[j].proc \in mLaborer

(* The barrier in progress, for the proof of BarrierHolds: P0 drained      *)
(* before it, what was buffered is handed over before the wait, and a      *)
(* laborer that was waited for gets nothing new until the wait is over.    *)
Held ==
    /\ pc \in {"load", "parse"} => visited = {}
    /\ pc \in {"flush", "wait"} /\ ~Final => Synced(P0)
    /\ pc = "flush" => \A p \in visited : mQuery[p] = <<>>
    /\ pc = "wait" => \A p \in Proc : mQuery[p] = <<>>
    /\ pc = "wait" => \A p \in visited : Synced(p)
    /\ pc # "done" => \A p \in Proc \ mLaborer :
                         queue[p] = <<>> /\ mResult[p] = <<>> /\ mReData[p] = <<>>

(* How a laborer ends, for the proofs about the verdict: the report of its *)
(* session's death is the last of its output and its thread has left run;  *)
(* otherwise mEnd is set by syncLaborer alone, behind the last barrier,    *)
(* when neither the laborer nor the Servicer holds a command.  A run that  *)
(* has not failed goes on only when the threads have been joined.          *)
Dead(p)   == \E k \in DOMAIN Output(p) : Output(p)[k].out = "dead"
Over      == pc \in {"end", "join", "collect", "judge", "destroy", "done"} /\ ~failed
AllJoined == pc \in {"collect", "judge", "destroy", "done"} /\ ~failed

EndedInOrder ==
    /\ \A p \in Proc :
          /\ \A k \in DOMAIN Output(p) : Output(p)[k].out = "dead" => k = Len(Output(p))
          /\ Dead(p) => mEnd[p] /\ lpc[p] \in {"exited", "destroyed"}
          /\ mEnd[p] => Dead(p) \/ Over
          /\ Over => mQuery[p] = <<>> /\ (Dead(p) \/ queue[p] = <<>>)
          /\ pc \in {"end", "join"} /\ p \in visited => lpc[p] = "exited"
          /\ AllJoined => lpc[p] \in {"none", "exited", "destroyed"} /\ cur[p] = <<>>
          /\ AllJoined /\ p \in mLaborer =>
                lpc[p] = "exited" \/ (pc = "destroy" /\ p \in visited)
    /\ Over => Final
    /\ failed => pc \in {"collect", "judge", "destroy", "done"}

(* What the verdict is made of: IGNORE is known from the items passed, the *)
(* output is collected whole, and PASS is given to the oracle's output.    *)
Judged ==
    /\ mIgnore <=> \E i \in 1..(ip - 1) : script[i].op = "ignore"
    /\ verdict = "none" <=> pc \notin {"destroy", "done"}
    /\ pc = "collect" /\ ~failed => \A p \in visited : mResult[p] = <<>>
    /\ pc \in {"judge", "destroy", "done"} /\ ~failed /\ ~mIgnore =>
          \A p \in Proc : mResult[p] = <<>>
    /\ pc = "judge" => ~mIgnore \/ failed
    /\ pc \in {"destroy", "done"} =>
          IF failed THEN verdict = "ERROR"
          ELSE verdict # "PASS" => ~mIgnore /\ \E p \in Proc : mReData[p] # Oracle(script, p)

(* SKIP is what the commands begun so far say, and an answered command has *)
(* left what the oracle expects of it.                                     *)
Skipping(p) ==
    LET cs == {Commands(Output(p))[k] : k \in DOMAIN Output(p)}
    IN  \E c \in cs : c.kind = "skip_begin" /\ \A d \in cs : d.id >= c.id => d.kind # "skip_end"

Answered ==
    \A p \in Proc :
        /\ mSbegin[p] <=> Skipping(p)
        /\ \A k \in DOMAIN Output(p) :
              Output(p)[k].out \in {"ok", "echo"} =>
                  Output(p)[k].out = OracleOutput(script, Output(p)[k].cmd.id)

(* What PWAIT gives the script: once the Servicer is past it, a process it *)
(* waits for has begun each command in front of it (the last one may still *)
(* be executing) or has lost its session for good.                         *)
BarrierHolds ==
    \A b \in 1..(ip - 1), p \in Proc :
        Barrier(script, b, p) => \/ mEnd[p]
                         \/ \A k \in DOMAIN (queue[p] \o mQuery[p]) :
                               (queue[p] \o mQuery[p])[k].id >= b

(* A verdict is about the whole script: unless the run failed or the case  *)
(* is ignored, the output of each process has all its commands, or ends    *)
(* with the report of its session's death.                                 *)
Complete(p) ==
    LET r == mReData[p]
    IN  IF r # <<>> /\ r[Len(r)].out = "dead" THEN TRUE
        ELSE Len(r) = Len(Oracle(script, p)) /\ mResult[p] = <<>> /\ cur[p] = <<>>

VerdictComplete ==
    verdict # "none" /\ ~failed /\ ~mIgnore => \A p \in Proc : Complete(p)

Good(entry) == entry.out \in {"ok", "echo"}

(* A case ends in PASS under every interleaving of the Servicer and the     *)
(* laborers in which each session answered and each thread started.        *)
QuietRunPasses ==
    /\ verdict # "none" /\ ~failed
    /\ \A p \in Proc : \A i \in DOMAIN Output(p) : Good(Output(p)[i])
    => verdict = "PASS"

(* A laborer ends in order.  syncLaborer ends it only when nothing can be  *)
(* handed to it any more: no command is left with the Servicer, and one    *)
(* left in the queue belongs to a process that had already ended itself.   *)
(* endLaborer deletes it while its thread is in run only after the run     *)
(* took the error path, where no one joins it.                             *)
LeavesInOrder(p) ==
    /\ mEnd'[p] /\ ~mEnd[p] /\ lpc'[p] # "exited" => Final /\ queue[p] = <<>> /\ mQuery[p] = <<>>
    /\ lpc'[p] = "destroyed" /\ lpc[p] # "destroyed" => lpc[p] = "exited" \/ failed

AllLeaveInOrder == \A p \in Proc : LeavesInOrder(p)
EndsInOrder == [][AllLeaveInOrder]_vars

(* The run of the threads is a run of the abstract test case: a command    *)
(* has begun when its laborer has popped it.                               *)
Case == INSTANCE TestCase WITH
            begun  <- [p \in Proc |-> Commands(Output(p)) \o cur[p]],
            output <- [p \in Proc |-> Output(p)]

ImplementsTestCase == Case!Spec

(* Every run ends with a verdict and without laborers.  Only a run that     *)
(* took the error path may leave some, behind one that it could not destroy. *)
RunEnds == <>(pc = "done" /\ verdict # "none" /\ (mLaborer = {} \/ failed))
==============================================================================
