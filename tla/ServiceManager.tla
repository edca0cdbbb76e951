---------------------------- MODULE ServiceManager ----------------------------
(***************************************************************************)
(* The life of the run and status requests of the ats service              *)
(* (ats2/serviceManager.cpp, and what of ats2/serviceThread.cpp and        *)
(* ats2/laborerThread.cpp takes a mutex).  STAF calls handleRun and        *)
(* handleStatus in a thread of its own for each request; handleRun starts  *)
(* a Servicer thread, which starts laborer threads.                        *)
(*                                                                         *)
(* Three kinds of mutex are taken, by status nested in this order: the     *)
(* ServiceManager's, a Servicer's, a Laborer's.  A critical section with   *)
(* no other wait in it is one step.  What the laborers execute is the      *)
(* subject of module Servicer; here a laborer polls its queue under its    *)
(* mutex and leaves its loop at some time.                                 *)
(***************************************************************************)
EXTENDS Naturals, Sequences, SequencesExt

CONSTANTS Req,      \* the run requests
          Asker,    \* the status requests
          Proc,     \* the processes a script may name
          Faults    \* what may fail

ASSUME NamesAssumption == Req \cap Asker = {} /\ {"free", "servicer"} \cap (Req \cup Asker) = {}
ASSUME FaultsAssumption ==
    Faults \subseteq {"initialize", "start", "destroy", "load", "laborer"}

VARIABLES hpc,            \* where handleRun of each request is
          spc,            \* where each Servicer thread is
          apc,            \* where handleStatus of each status request is
          at,             \* the entry of mServicerList handleStatus is at
          mMutex,         \* who holds ServiceManager::mMutex
          mServicerList,  \* ServiceManager::mServicerList
          servicer,       \* the Servicer object of each request
          smutex,         \* who holds Servicer::mMutex
          mLaborer,       \* the keys of Servicer::mLaborer
          laborer,        \* the Laborer object of each process
          lthread,        \* where its thread is
          mMessage,       \* Servicer::mMessage
          reply           \* what handleRun returned

hvars == <<hpc, reply>>
avars == <<apc, at>>
ovars == <<spc, smutex, mLaborer, laborer, lthread, mMessage>>
vars  == <<hvars, avars, ovars, mMutex, mServicerList, servicer>>

Free == "free"
Objects == {"none", "alive", "destroyed", "deleted"}

TypeOK ==
    /\ hpc \in [Req -> {"idle", "initialize", "add", "start", "join", "rm", "destroy",
                        "delete", "replied"}]
    /\ spc \in [Req -> {"none", "parse", "load", "loading", "run", "register", "insert",
                        "end", "ending", "ended"}]
    /\ apc \in [Asker -> {"idle", "list", "servicer", "replied"}]
    /\ at  \in [Asker -> Nat]
    /\ mMutex \in {Free} \cup Req \cup Asker
    /\ mServicerList \in Seq(Req)
    /\ servicer \in [Req -> Objects]
    /\ smutex   \in [Req -> {Free, "servicer"} \cup Asker]
    /\ mLaborer \in [Req -> SUBSET Proc]
    /\ laborer  \in [Req -> [Proc -> Objects]]
    /\ lthread  \in [Req -> [Proc -> {"none", "poll", "locked", "exited"}]]
    /\ mMessage \in [Req -> {"", "verdict", "ERROR"}]
    /\ reply    \in [Req -> {"none", "", "verdict", "ERROR", "IGNR"}]

Init ==
    /\ hpc = [r \in Req |-> "idle"]
    /\ spc = [r \in Req |-> "none"]
    /\ apc = [a \in Asker |-> "idle"]
    /\ at  = [a \in Asker |-> 0]
    /\ mMutex = Free
    /\ mServicerList = <<>>
    /\ servicer = [r \in Req |-> "none"]
    /\ smutex   = [r \in Req |-> Free]
    /\ mLaborer = [r \in Req |-> {}]
    /\ laborer  = [r \in Req |-> [p \in Proc |-> "none"]]
    /\ lthread  = [r \in Req |-> [p \in Proc |-> "none"]]
    /\ mMessage = [r \in Req |-> ""]
    /\ reply    = [r \in Req |-> "none"]

-----------------------------------------------------------------------------
(* ServiceManager::handleRun, in the thread of the request. *)
Goto(r, place) == hpc' = [hpc EXCEPT ![r] = place]

HandleRun(r) ==
    /\ hpc[r] = "idle"
    /\ servicer' = [servicer EXCEPT ![r] = "alive"]
    /\ Goto(r, "initialize")
    /\ UNCHANGED <<reply, avars, ovars, mMutex, mServicerList>>

Initialize(r) ==
    /\ hpc[r] = "initialize"
    /\ Goto(r, "add")
    /\ UNCHANGED <<reply, avars, ovars, mMutex, mServicerList, servicer>>

(* ERROR_INITIALIZE: the only exception that does not call destroy. *)
InitializeFails(r) ==
    /\ hpc[r] = "initialize"
    /\ "initialize" \in Faults
    /\ Goto(r, "delete")
    /\ reply' = [reply EXCEPT ![r] = "IGNR"]
    /\ UNCHANGED <<avars, ovars, mMutex, mServicerList, servicer>>

AddService(r) ==
    /\ hpc[r] = "add"
    /\ mMutex = Free
    /\ mServicerList' = Append(mServicerList, r)
    /\ Goto(r, "start")
    /\ UNCHANGED <<reply, avars, ovars, mMutex, servicer>>

StartServicer(r) ==
    /\ hpc[r] = "start"
    /\ spc' = [spc EXCEPT ![r] = "parse"]
    /\ Goto(r, "join")
    /\ UNCHANGED <<reply, avars, smutex, mLaborer, laborer, lthread, mMessage, mMutex,
                   mServicerList, servicer>>

(* ERROR_START: destroy and delete; the entry of the list stays. *)
StartFails(r) ==
    /\ hpc[r] = "start"
    /\ "start" \in Faults
    /\ servicer' = [servicer EXCEPT ![r] = "destroyed"]
    /\ reply'    = [reply EXCEPT ![r] = "IGNR"]
    /\ Goto(r, "delete")
    /\ UNCHANGED <<avars, ovars, mMutex, mServicerList>>

(* pthread_join, then message. *)
Join(r) ==
    /\ hpc[r] = "join"
    /\ spc[r] = "ended"
    /\ reply' = [reply EXCEPT ![r] = mMessage[r]]
    /\ Goto(r, "rm")
    /\ UNCHANGED <<avars, ovars, mMutex, mServicerList, servicer>>

Listed(r) == \E i \in DOMAIN mServicerList : mServicerList[i] = r

(* Defect: rmService takes nothing out. *)
RmServiceNot(r) ==
    /\ hpc[r] = "rm"
    /\ mMutex = Free
    /\ Goto(r, "destroy")
    /\ UNCHANGED <<reply, avars, ovars, mMutex, mServicerList, servicer>>

(* The first entry of the Servicer is erased, if there is one. *)
RmService(r) ==
    /\ hpc[r] = "rm"
    /\ mMutex = Free
    /\ \/ \E i \in DOMAIN mServicerList :
             /\ mServicerList[i] = r /\ \A j \in 1..(i - 1) : mServicerList[j] # r
             /\ mServicerList' = RemoveAt(mServicerList, i)
       \/ ~Listed(r) /\ UNCHANGED mServicerList
    /\ Goto(r, "destroy")
    /\ UNCHANGED <<reply, avars, ovars, mMutex, servicer>>

(* Servicer::destroy; when it fails it is called a second time and the     *)
(* message of the Servicer is lost (ERROR_DESTROY).                        *)
DestroyServicer(r) ==
    /\ hpc[r] = "destroy"
    /\ servicer' = [servicer EXCEPT ![r] = "destroyed"]
    /\ \/ UNCHANGED reply
       \/ "destroy" \in Faults /\ reply' = [reply EXCEPT ![r] = "IGNR"]
    /\ Goto(r, "delete")
    /\ UNCHANGED <<avars, ovars, mMutex, mServicerList>>

Reply(r) ==
    /\ hpc[r] = "delete"
    /\ servicer' = [servicer EXCEPT ![r] = "deleted"]
    /\ Goto(r, "replied")
    /\ UNCHANGED <<reply, avars, ovars, mMutex, mServicerList>>

HandleRunStep(r) ==
    \/ HandleRun(r) \/ Initialize(r) \/ InitializeFails(r) \/ AddService(r)
    \/ StartServicer(r) \/ StartFails(r) \/ Join(r) \/ RmService(r)
    \/ DestroyServicer(r) \/ Reply(r)

-----------------------------------------------------------------------------
(* Servicer::run, as far as it takes a mutex or owns an object. *)
Move(r, place) == spc' = [spc EXCEPT ![r] = place]

Parse(r) ==
    /\ spc[r] = "parse"
    /\ \/ Move(r, "load")
       \/ "load" \in Faults /\ Move(r, "ended")
    /\ UNCHANGED <<hvars, avars, smutex, mLaborer, laborer, lthread, mMessage, mMutex,
                   mServicerList, servicer>>

(* Servicer::load reads server.conf under the ServiceManager's mutex. *)
Load(r) ==
    /\ spc[r] = "load"
    /\ mMutex = Free
    /\ mMutex' = r
    /\ Move(r, "loading")
    /\ UNCHANGED <<hvars, avars, smutex, mLaborer, laborer, lthread, mMessage,
                   mServicerList, servicer>>

(* A failure to load ends the thread without a message. *)
Loaded(r) ==
    /\ spc[r] = "loading"
    /\ mMutex' = Free
    /\ \/ Move(r, "run")
       \/ "load" \in Faults /\ Move(r, "ended")
    /\ UNCHANGED <<hvars, avars, smutex, mLaborer, laborer, lthread, mMessage,
                   mServicerList, servicer>>

(* Servicer::runLaborer: Laborer::initialize calls registerHandle under the *)
(* ServiceManager's mutex, the thread starts, and then the laborer enters   *)
(* the map under the Servicer's mutex.                                      *)
NextLaborer(r) == {p \in Proc : laborer[r][p] = "none"}

(* Defect: runLaborer takes the Servicer's mutex first. *)
RegisterHandleLocked(r) ==
    /\ \/ spc[r] = "run" /\ NextLaborer(r) # {} /\ smutex[r] = Free
          /\ smutex' = [smutex EXCEPT ![r] = "servicer"] /\ UNCHANGED <<mMutex, spc>>
       \/ spc[r] = "run" /\ smutex[r] = "servicer" /\ mMutex = Free
          /\ mMutex' = r /\ smutex' = [smutex EXCEPT ![r] = Free] /\ Move(r, "register")
    /\ UNCHANGED <<hvars, avars, mLaborer, laborer, lthread, mMessage,
                   mServicerList, servicer>>

RegisterHandle(r) ==
    /\ spc[r] = "run"
    /\ NextLaborer(r) # {}
    /\ mMutex = Free
    /\ mMutex' = r
    /\ Move(r, "register")
    /\ UNCHANGED <<hvars, avars, smutex, mLaborer, laborer, lthread, mMessage,
                   mServicerList, servicer>>

StartLaborer(r) ==
    /\ spc[r] = "register"
    /\ mMutex' = Free
    /\ LET p == Min(NextLaborer(r))
       IN  /\ laborer' = [laborer EXCEPT ![r][p] = "alive"]
           /\ lthread' = [lthread EXCEPT ![r][p] = "poll"]
    /\ Move(r, "insert")
    /\ UNCHANGED <<hvars, avars, smutex, mLaborer, mMessage, mServicerList, servicer>>

(* registerHandle or pthread_create fails: the run takes its error path. *)
StartLaborerFails(r) ==
    /\ spc[r] = "register"
    /\ "laborer" \in Faults
    /\ mMutex'   = Free
    /\ mMessage' = [mMessage EXCEPT ![r] = "ERROR"]
    /\ Move(r, "end")
    /\ UNCHANGED <<hvars, avars, smutex, mLaborer, laborer, lthread, mServicerList, servicer>>

InsertLaborer(r) ==
    /\ spc[r] = "insert"
    /\ smutex[r] = Free
    /\ mLaborer' = [mLaborer EXCEPT ![r] = {p \in Proc : laborer[r][p] = "alive"}]
    /\ Move(r, "run")
    /\ UNCHANGED <<hvars, avars, smutex, laborer, lthread, mMessage, mMutex, mServicerList,
                   servicer>>

(* The script or its oracle cannot be read, or parsed. *)
RunFails(r) ==
    /\ spc[r] = "run"
    /\ mLaborer[r] = {}
    /\ "load" \in Faults
    /\ mMessage' = [mMessage EXCEPT ![r] = "ERROR"]
    /\ Move(r, "end")
    /\ UNCHANGED <<hvars, avars, smutex, mLaborer, laborer, lthread, mMutex, mServicerList,
                   servicer>>

(* Defect: the verdict of an ignored case is the reply of a failed request. *)
JudgeIgnored(r) ==
    /\ spc[r] = "run"
    /\ \A p \in mLaborer[r] : lthread[r][p] = "exited"
    /\ mMessage' = [mMessage EXCEPT ![r] = "IGNR"]
    /\ Move(r, "end")
    /\ UNCHANGED <<hvars, avars, smutex, mLaborer, laborer, lthread, mMutex, mServicerList,
                   servicer>>

(* syncLaborer has joined every laborer.  (For a FATAL verdict the Servicer *)
(* calls its own status before, holding no mutex.)                          *)
Judge(r) ==
    /\ spc[r] = "run"
    /\ \A p \in mLaborer[r] : lthread[r][p] = "exited"
    /\ mMessage' = [mMessage EXCEPT ![r] = "verdict"]
    /\ Move(r, "end")
    /\ UNCHANGED <<hvars, avars, smutex, mLaborer, laborer, lthread, mMutex, mServicerList,
                   servicer>>

(* Defect: endLaborer does not take the Servicer's mutex. *)
EndLaborerUnlocked(r) ==
    /\ spc[r] = "end"
    /\ Move(r, "ending")
    /\ UNCHANGED <<hvars, avars, smutex, mLaborer, laborer, lthread, mMessage, mMutex,
                   mServicerList, servicer>>

(* Servicer::endLaborer *)
EndLaborer(r) ==
    /\ spc[r] = "end"
    /\ smutex[r] = Free
    /\ smutex' = [smutex EXCEPT ![r] = "servicer"]
    /\ Move(r, "ending")
    /\ UNCHANGED <<hvars, avars, mLaborer, laborer, lthread, mMessage, mMutex, mServicerList,
                   servicer>>

ToDelete(r, p) ==
    /\ spc[r] = "ending"
    /\ p \in mLaborer[r]
    /\ laborer[r][p] = "alive"
    /\ \A q \in mLaborer[r] : laborer[r][q] = "alive" => p <= q

DeleteLaborer(r, p) ==
    /\ ToDelete(r, p)
    /\ lthread[r][p] # "locked"
    /\ laborer' = [laborer EXCEPT ![r][p] = "deleted"]
    /\ UNCHANGED <<hvars, avars, spc, smutex, mLaborer, lthread, mMessage, mMutex,
                   mServicerList, servicer>>

(* The mutex of a laborer that is not joined may be busy: destroy fails and *)
(* the map keeps the laborers, those deleted too.                           *)
DeleteLaborerFails(r, p) ==
    /\ ToDelete(r, p)
    /\ lthread[r][p] = "locked"
    /\ smutex' = [smutex EXCEPT ![r] = Free]
    /\ Move(r, "ended")
    /\ UNCHANGED <<hvars, avars, mLaborer, laborer, lthread, mMessage, mMutex, mServicerList,
                   servicer>>

LaborersEnded(r) ==
    /\ spc[r] = "ending"
    /\ \A p \in mLaborer[r] : laborer[r][p] = "deleted"
    /\ mLaborer' = [mLaborer EXCEPT ![r] = {}]
    /\ smutex'   = [smutex EXCEPT ![r] = Free]
    /\ Move(r, "ended")
    /\ UNCHANGED <<hvars, avars, laborer, lthread, mMessage, mMutex, mServicerList, servicer>>

ServicerStep(r) ==
    \/ Parse(r) \/ Load(r) \/ Loaded(r) \/ RegisterHandle(r) \/ StartLaborer(r)
    \/ StartLaborerFails(r) \/ InsertLaborer(r) \/ RunFails(r) \/ Judge(r) \/ EndLaborer(r)
    \/ \E p \in Proc : DeleteLaborer(r, p) \/ DeleteLaborerFails(r, p)
    \/ LaborersEnded(r)

-----------------------------------------------------------------------------
(* Laborer::run and runReal look at the queue under the laborer's mutex.   *)
(* Once its object is deleted the thread is no longer followed.            *)
LaborerLock(r, p) ==
    /\ laborer[r][p] = "alive"
    /\ lthread[r][p] = "poll"
    /\ lthread' = [lthread EXCEPT ![r][p] = "locked"]
    /\ UNCHANGED <<hvars, avars, spc, smutex, mLaborer, laborer, mMessage, mMutex,
                   mServicerList, servicer>>

LaborerUnlock(r, p) ==
    /\ laborer[r][p] = "alive"
    /\ lthread[r][p] = "locked"
    /\ \E place \in {"poll", "exited"} : lthread' = [lthread EXCEPT ![r][p] = place]
    /\ UNCHANGED <<hvars, avars, spc, smutex, mLaborer, laborer, mMessage, mMutex,
                   mServicerList, servicer>>

(* Its end: mEnd is set and the queue is empty. *)
LaborerExit(r, p) == LaborerUnlock(r, p) /\ lthread'[r][p] = "exited"

-----------------------------------------------------------------------------
(* ServiceManager::handleStatus, in the thread of the request. *)
HandleStatus(a) ==
    /\ apc[a] = "idle"
    /\ mMutex = Free
    /\ mMutex' = a
    /\ apc' = [apc EXCEPT ![a] = "list"]
    /\ at'  = [at EXCEPT ![a] = 1]
    /\ UNCHANGED <<hvars, ovars, mServicerList, servicer>>

(* Servicer::status, from its lock ... *)
StatusEnters(a) ==
    /\ apc[a] = "list"
    /\ at[a] \in DOMAIN mServicerList
    /\ smutex[mServicerList[at[a]]] = Free
    /\ smutex' = [smutex EXCEPT ![mServicerList[at[a]]] = a]
    /\ apc' = [apc EXCEPT ![a] = "servicer"]
    /\ UNCHANGED <<hvars, at, spc, mLaborer, laborer, lthread, mMessage, mMutex,
                   mServicerList, servicer>>

(* ... over the laborers, each under its mutex, to its unlock. *)
StatusLeaves(a) ==
    /\ apc[a] = "servicer"
    /\ LET r == mServicerList[at[a]]
       IN  /\ \A p \in mLaborer[r] : lthread[r][p] # "locked" \/ laborer[r][p] # "alive"
           /\ smutex' = [smutex EXCEPT ![r] = Free]
    /\ apc' = [apc EXCEPT ![a] = "list"]
    /\ at'  = [at EXCEPT ![a] = @ + 1]
    /\ UNCHANGED <<hvars, spc, mLaborer, laborer, lthread, mMessage, mMutex, mServicerList,
                   servicer>>

StatusReplies(a) ==
    /\ apc[a] = "list"
    /\ at[a] \notin DOMAIN mServicerList
    /\ mMutex' = Free
    /\ apc' = [apc EXCEPT ![a] = "replied"]
    /\ UNCHANGED <<hvars, at, ovars, mServicerList, servicer>>

HandleStatusStep(a) ==
    HandleStatus(a) \/ StatusEnters(a) \/ StatusLeaves(a) \/ StatusReplies(a)

-----------------------------------------------------------------------------
Done ==
    /\ \A r \in Req : hpc[r] = "replied"
    /\ \A a \in Asker : apc[a] = "replied"
    /\ UNCHANGED vars

Next ==
    \/ \E r \in Req : HandleRunStep(r) \/ ServicerStep(r)
    \/ \E r \in Req, p \in Proc : LaborerLock(r, p) \/ LaborerUnlock(r, p)
    \/ \E a \in Asker : HandleStatusStep(a)
    \/ Done

Spec == Init /\ [][Next]_vars

(* Every thread keeps running, and a laborer the Servicer waits for leaves *)
(* its loop (RunEnds of module Servicer).  The ServiceManager's and the    *)
(* Servicers' mutexes are taken finitely often.  A laborer takes its mutex *)
(* again and again but sleeps in between, so that whoever waits for it     *)
(* gets it.                                                                *)
Fairness ==
    /\ \A r \in Req : WF_vars(HandleRunStep(r)) /\ WF_vars(ServicerStep(r))
    /\ \A a \in Asker : WF_vars(HandleStatusStep(a)) /\ SF_vars(StatusLeaves(a))
    /\ \A r \in Req, p \in Proc : /\ WF_vars(LaborerLock(r, p))
                                  /\ WF_vars(LaborerUnlock(r, p))
                                  /\ SF_vars(LaborerExit(r, p) /\ mMessage[r] # "ERROR")

FairSpec == Spec /\ Fairness

-----------------------------------------------------------------------------
(* The requests whose Servicer thread could not be created. *)
NeverStarted(r) == reply[r] = "IGNR" /\ spc[r] = "none"

(* handleStatus, which walks the list without owning what is in it, only   *)
(* finds Servicers that exist, for handleRun takes its Servicer out of the *)
(* list under the mutex before it destroys it.  A Servicer whose thread    *)
(* could not be created is the exception: it is deleted in the list.       *)
(* Servicer::status then reads only laborers that exist, whether they are  *)
(* being started, worked with or ended at that time, unless endLaborer     *)
(* gave up half-way after a failed run.                                    *)
StatusFindsAlive ==
    \A a \in Asker :
        apc[a] = "servicer" =>
            LET r == mServicerList[at[a]]
            IN  /\ servicer[r] = "alive" \/ NeverStarted(r)
                /\ \A p \in mLaborer[r] :
                      laborer[r][p] = "alive" \/ (spc[r] = "ended" /\ mMessage[r] = "ERROR")

(* A reply with a verdict leaves nothing of its request behind: no entry   *)
(* in the list, no object, no mutex held, no thread.                       *)
VerdictLeavesNothing ==
    \A r \in Req :
        hpc[r] = "replied" /\ reply[r] = "verdict" =>
            /\ servicer[r] = "deleted" /\ smutex[r] = Free
            /\ \A i \in DOMAIN mServicerList : mServicerList[i] # r
            /\ spc[r] = "ended" /\ mLaborer[r] = {}
            /\ \A p \in Proc : laborer[r][p] # "alive" /\ lthread[r][p] \in {"none", "exited"}

(* For the proofs of the two.  Holders: who is at a place where it holds   *)
(* the mutex of the ServiceManager or of a Servicer.                       *)
Holders ==
    /\ \A a \in Asker : apc[a] \in {"list", "servicer"} <=> mMutex = a
    /\ \A r \in Req : spc[r] \in {"loading", "register"} <=> mMutex = r
    /\ \A r \in Req : spc[r] = "ending" <=> smutex[r] = "servicer"
    /\ \A a \in Asker : apc[a] = "servicer" =>
          at[a] \in DOMAIN mServicerList /\ smutex[mServicerList[at[a]]] = a
    /\ \A a \in Asker, r \in Req : smutex[r] = a => apc[a] = "servicer" /\ mServicerList[at[a]] = r

(* Request: where handleRun of r is when r is in the list, and what its    *)
(* Servicer has come to.                                                   *)
Request(r) ==
    /\ Listed(r) => \/ hpc[r] \in {"start", "join", "rm"}
                    \/ hpc[r] \in {"delete", "replied"} /\ NeverStarted(r)
    /\ hpc[r] \in {"initialize", "add", "start", "join", "rm"} => servicer[r] = "alive"
    /\ hpc[r] = "replied" => servicer[r] = "deleted"
    /\ hpc[r] \in {"idle", "initialize", "add", "start"} => spc[r] = "none"
    /\ hpc[r] \in {"rm", "destroy"} => spc[r] = "ended" /\ reply[r] = mMessage[r]
    /\ hpc[r] \in {"delete", "replied"} =>
          reply[r] = "IGNR" \/ (spc[r] = "ended" /\ reply[r] = mMessage[r])

Once == \A i, j \in DOMAIN mServicerList : mServicerList[i] = mServicerList[j] => i = j

(* Laborers: a laborer is in the map of its Servicer from when it has been *)
(* started until all are deleted, and a verdict is given when their        *)
(* threads have left.                                                      *)
Alive(r) == {p \in Proc : laborer[r][p] = "alive"}
Laborers(r) ==
    /\ spc[r] \in {"none", "parse", "load", "loading"} => \A p \in Proc : laborer[r][p] = "none"
    /\ spc[r] \notin {"ending", "ended"} => \A p \in Proc : laborer[r][p] \in {"none", "alive"}
    /\ spc[r] \in {"none", "parse", "load", "loading", "run", "register", "end"} => mLaborer[r] = Alive(r)
    /\ spc[r] = "insert" => mLaborer[r] \subseteq Alive(r)
    /\ spc[r] = "ending" => Alive(r) \subseteq mLaborer[r]
    /\ spc[r] = "ended" /\ mMessage[r] # "ERROR" => mLaborer[r] = {} /\ Alive(r) = {}
    /\ spc[r] \in {"end", "ending"} => mMessage[r] \in {"verdict", "ERROR"}
    /\ spc[r] \in {"end", "ending", "ended"} /\ mMessage[r] = "verdict" =>
          \A p \in Proc : lthread[r][p] \in {"none", "exited"}
    /\ \A p \in Proc : laborer[r][p] = "none" => lthread[r][p] = "none"

Served == \A r \in Req : Request(r) /\ Laborers(r)

(* Whatever fails, every run request and every status request is answered: *)
(* no order in which the threads take the three mutexes makes them wait    *)
(* for each other.                                                         *)
AllAnswered ==
    <>(/\ \A r \in Req : hpc[r] = "replied"
       /\ \A a \in Asker : apc[a] = "replied")
==============================================================================
