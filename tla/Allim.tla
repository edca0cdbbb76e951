-------------------------------- MODULE Allim --------------------------------
(***************************************************************************)
(* The limit tests of src/allim: a shared segment says at which limit      *)
(* point of the server a failure is to be simulated and how much memory    *)
(* and how many descriptors are to be wasted.  The servers are preloaded   *)
(* with liballimso, whose limit points (allimso.c) and hooks of malloc,    *)
(* open, socket, close ... (hookapi.c) read the segment; the tools         *)
(* (allimctl, setlimitpoint, setlimitreal, setlimitlog) write it.  The     *)
(* key of the segment is in a file, $ALTIBASE_HOME/trc/allimshm.log.       *)
(*                                                                         *)
(* A call is a list of functions of allib.c, each of which attaches the    *)
(* segment and works under its spin lock.  Left out: names of files with   *)
(* directories, errno, the text of the log, hooks that are called in the   *)
(* own code of allib.c with gInsideHook up (they do nothing), a number a   *)
(* tool cannot read, which ends it first ("free" is setlimitreal -f).      *)
(* A server that died comes back with the same threads.                    *)
(***************************************************************************)
EXTENDS Integers, Sequences, FiniteSets, FiniteSetsExt

CONSTANTS Server, Tool,     \* the preloaded processes, and the tools
          Thread, ProcOf,   \* the threads, and the process of each
          Pid,              \* the process id: the first key that is tried
          Text,             \* the files and ids of points, "" too (bound)
          Key,              \* the keys there are (bound)
          MaxThreads,       \* ALLIM_LIMITPOINT_MAX_THREADS
          MemoryMax,        \* the chunks a process can allocate,
          DescMax,          \*   the descriptors it can open,
          DiskMax,          \*   and what fits on the disk
          Plans,            \* what is called: phases of calls of each thread
          MaxFaults         \* seeks that fail, failed creations, deaths (bound)

Proc == Server \cup Tool
Slot == 1..MaxThreads
Every  == "EVERYWHERE"
Nobody == "nobody"
Dead   == "dead"
None   == -1
Kinds  == {"pass", "hit", "limit", "stack", "set", "real"}

(* What the servers call, and the tools; a point of the servers' code has  *)
(* a file and an id, and a tool is a process of one thread.                *)
Point == (Text \ {""}) \X (Text \ {""})
Count == Nat \cup {None}
PointCall == [op : {"point"}, clear : {FALSE}, file : Text, id : Text, count : Nat]
LogCall   == [op : {"log"}, all : BOOLEAN, on : BOOLEAN, kinds : SUBSET Kinds]
RealCall  == [op : {"real"}, memory : Count, disk : Count, desc : Count]
ServerCall == [op : {"pass"}, point : Point] \cup [op : {"done", "hooked", "close"}]
ToolCall   == [op : {"create", "destroy", "line", "free"}] \cup [op : {"point"}, clear : {TRUE}]
              \cup PointCall \cup LogCall \cup RealCall
Phases == {f \in [Thread -> Seq(ServerCall \cup ToolCall)] :
             \A t \in Thread : f[t] \in Seq(IF ProcOf[t] \in Server THEN ServerCall ELSE ToolCall)}

ASSUME ProcAssumption ==
    /\ ProcOf \in [Thread -> Proc] /\ Key \subseteq Nat \ {0} /\ Pid \in [Proc -> Key]
    /\ Server \cap Tool = {} /\ \A t, u \in Thread : ProcOf[t] = ProcOf[u] /\ ProcOf[t] \in Tool => t = u
ASSUME NamesAssumption  == {Nobody, Dead} \cap Thread = {} /\ "" \in Text
ASSUME BoundsAssumption == {MaxThreads, MemoryMax, DescMax, DiskMax, MaxFaults} \subseteq Nat
ASSUME PlansAssumption  == Plans \subseteq Seq(Phases)

VARIABLES keyFile,  \* allimshm.log: a key, 0 if empty, None if there is no file
          table,    \* the segment that a key finds, 0 if none
          seg,      \* every segment ever made, in order
          junk,     \* the size of the file that wastes disk
          st,       \* the static data of each process
          thr,      \* where each thread is
          plan,     \* what is still to be called
          faults,   \* how many faults there have been
          n, last,  \* ghost: counted passes of a thread since Set or its last hit; the last of all
          movers,   \* ghost: who has wasted or freed, <<process, run, segment>>
          harm,     \* ghost: what was freed or closed and was not the process's own
          past      \* ghost: what has happened that explains what follows

shared == <<keyFile, table, seg, junk>>
moves  == <<movers, harm>>
ghosts == <<n, last, moves, past>>
vars   == <<shared, st, thr, plan, faults, ghosts>>

-----------------------------------------------------------------------------
(* The segment as allimCreate leaves it; file and id "" match no point.    *)
NewSegment ==
    [file |-> "", id |-> "", count |-> 0,
     hits |-> [i \in Slot |-> 0], ids |-> [i \in Slot |-> Nobody],
     memory |-> 0, destMemory |-> 0, disk |-> 0, destDisk |-> 0, desc |-> 0, destDesc |-> 0,
     flags |-> {"log"} \cup (Kinds \ {"pass"}), mLock |-> Nobody, mLogLock |-> FALSE]

(* The static data of a process when it starts: gKey, gHookLoaded,         *)
(* gInsideHook, sOpened of the log, the number of sChunk's chunks and the  *)
(* places of sSocks that hold a socket; "run" counts the starts.           *)
NewProcess(r) ==
    [gKey |-> 0, gHookLoaded |-> FALSE, gInsideHook |-> FALSE, sOpened |-> FALSE,
     chunks |-> 0, socks |-> {}, run |-> r]

(* A thread: the functions it has still to call, the segment it is         *)
(* attached to, whether anypcb called them, and what it has counted up to. *)
Idle == [pc |-> "idle", todo |-> <<>>, at |-> 0, hook |-> FALSE, local |-> 0]

Fn(name)        == [fn |-> name]
FnV(name, v)    == [fn |-> name, v |-> v]

-----------------------------------------------------------------------------
(* What the functions of allib.c make of the segment s under its lock.     *)
Writes(s, kind) == {"log", kind} \subseteq s.flags

PointSet(s, v) ==
    [s EXCEPT !.file = IF v.file = "" THEN @ ELSE v.file, !.id = IF v.id = "" THEN @ ELSE v.id,
              !.count = v.count, !.hits = [i \in Slot |-> v.count]]

PointClear(s) == [s EXCEPT !.file = "", !.id = "", !.count = 0]

(* The first slot that is the thread's own or free, if there is one.       *)
MySlots(s, t) ==
    {i \in Slot : s.ids[i] \in {t, Nobody} /\ \A j \in 1..(i - 1) : s.ids[j] \notin {t, Nobody}}

Always(s, p)    == s.file = Every \/ (s.file = p[1] /\ s.id = Every)
Counted(s, p)   == s.file # Every /\ s.file = p[1] /\ s.id # Every /\ s.id = p[2]
Activates(s, p, i) == Counted(s, p) /\ s.hits[i] = 1

(* Defect: the count is not started anew after a hit. *)
PassedOn(s, t, p, i) ==
    [s EXCEPT !.ids[i] = t, !.hits[i] = IF Counted(s, p) THEN @ - 1 ELSE @]

(* The thread's slot is counted down; at 0 the point fails and the count   *)
(* starts anew.                                                            *)
Passed(s, t, p, i) ==
    [s EXCEPT !.ids[i] = t,
              !.hits[i] = IF ~Counted(s, p) THEN @ ELSE IF @ = 1 THEN s.count ELSE @ - 1]

(* How many times a pass writes to the log, and whether with the stack.    *)
Stacks(s, p, i) == Activates(s, p, i) /\ Writes(s, "limit") /\ "stack" \in s.flags

PassLines(s, p, i) ==
    Cardinality({k \in {"pass", "hit", "limit", "stack"} :
        CASE k = "pass"  -> Writes(s, "pass")
          [] k = "hit"   -> Counted(s, p) /\ Writes(s, "hit")
          [] k = "limit" -> Activates(s, p, i) /\ Writes(s, "limit")
          [] OTHER       -> Stacks(s, p, i)})

Released(s, i) == [s EXCEPT !.ids[i] = Nobody]

-----------------------------------------------------------------------------
Init ==
    /\ keyFile = None /\ table = [k \in Key |-> 0] /\ seg = <<>> /\ junk = 0
    /\ st  = [p \in Proc |-> NewProcess(1)]
    /\ thr = [t \in Thread |-> Idle]
    /\ plan \in Plans /\ faults = 0
    /\ n = [t \in Thread |-> 0] /\ last = [hit |-> FALSE, n |-> 0, count |-> 1]
    /\ movers = {} /\ harm = {} /\ past = {}

Me(t)       == st[ProcOf[t]]
F(t)        == Head(thr[t].todo)
At(t, pc)   == thr[t].pc = pc
Calling(t, names) == thr[t].todo # <<>> /\ F(t).fn \in names
Fellows(t)  == {u \in Thread \ {t} : ProcOf[u] = ProcOf[t]}
MayFail     == faults < MaxFaults
Fault       == faults' = faults + 1
Creating    == {"create", "truncate", "write", "setkey"}

(* Where a thread goes when a function has returned success, or failure:   *)
(* anypcb looks at neither, the others stop.                               *)
Gone(t) == IF thr[t].hook THEN [thr[t] EXCEPT !.pc = "leave", !.todo = <<>>, !.at = 0] ELSE Idle
Returned(t) ==
    IF Len(thr[t].todo) <= 1 THEN Gone(t)
    ELSE [thr[t] EXCEPT !.pc = "attach", !.todo = Tail(@), !.at = 0]
Failed(t) == IF thr[t].hook THEN Returned(t) ELSE Idle
Go(t, r)  == thr' = [thr EXCEPT ![t] = r]
Hang(t)   == Go(t, [thr[t] EXCEPT !.pc = "hung"])

(* Defect: the file is never read. *)
KeyKept(p) == st[p].gKey

(* allimGetSharedMemory: the key is read once in the life of a process.    *)
KeySeen(p) ==
    IF st[p].gKey # 0 THEN st[p].gKey ELSE IF keyFile \in Key THEN keyFile ELSE 0
KeepKey(p) == st' = [st EXCEPT ![p].gKey = KeySeen(p)]
Segment(p) == IF KeySeen(p) = 0 THEN 0 ELSE table[KeySeen(p)]

-----------------------------------------------------------------------------
(* What the servers call (allimso.c, hookapi.c).                           *)
Call(t, ops) ==
    /\ At(t, "idle") /\ plan # <<>> /\ Head(plan)[t] # <<>> /\ Head(Head(plan)[t]).op \in ops
    /\ plan' = [plan EXCEPT ![1][t] = Tail(@)]
    /\ UNCHANGED <<shared, faults, ghosts>>
Asked(t) == Head(Head(plan)[t])

(* The next phase begins when the calls of this one have ended or hang.    *)
Onward ==
    /\ plan # <<>> /\ \A t \in Thread : Head(plan)[t] = <<>> /\ thr[t].pc \in {"idle", "hung"}
    /\ plan' = Tail(plan) /\ UNCHANGED <<shared, st, thr, faults, ghosts>>

LimitPoint(t) ==
    /\ Call(t, {"pass"}) /\ UNCHANGED st
    /\ Go(t, [Idle EXCEPT !.pc = "proceed", !.todo = <<FnV("pass", Asked(t).point)>>])

LimitPointDone(t) ==
    /\ Call(t, {"done"}) /\ UNCHANGED st
    /\ Go(t, [Idle EXCEPT !.pc = "proceed", !.todo = <<Fn("done")>>])

(* A hooked function that wastes first, or close, which does only where it *)
(* has to open the log, by a hooked open.                                  *)
Hook(t) ==
    /\ Call(t, {"hooked", "close"}) /\ UNCHANGED st
    /\ LET wastes == Asked(t).op = "hooked" \/ ~Me(t).sOpened
       IN  Go(t, IF Me(t).gInsideHook THEN Idle
                 ELSE [Idle EXCEPT !.pc = "enter", !.todo = IF wastes THEN <<Fn("memory"), Fn("desc")>> ELSE <<>>])

(* The test of gInsideHook was a step of its own.                          *)
EnterWith(t, up) ==
    /\ At(t, "enter")
    /\ st' = [st EXCEPT ![ProcOf[t]].gInsideHook = up]
    /\ Go(t, [thr[t] EXCEPT !.hook = TRUE,
                            !.pc = IF Me(t).gHookLoaded /\ thr[t].todo # <<>> THEN "attach" ELSE "leave"])
    /\ past' = past \cup (IF \E u \in Fellows(t) : thr[u].hook THEN {"hooks"} ELSE {})
    /\ UNCHANGED <<shared, plan, faults, n, last, moves>>

(* Defect: the flag stays down in the hook. *)
EnterDown(t) == EnterWith(t, FALSE)
Enter(t)     == EnterWith(t, TRUE)

Leave(t) ==
    /\ At(t, "leave")
    /\ st' = [st EXCEPT ![ProcOf[t]].gInsideHook = FALSE] /\ Go(t, Idle)
    /\ UNCHANGED <<shared, plan, faults, ghosts>>

(* A hooked function called by thread t in a function of allib.c: when the *)
(* flag is not up, anypcb, which raises it, waits for the lock that t      *)
(* itself holds.  Opening the log is such a call.                          *)
Recurses(t) ==
    /\ ProcOf[t] \in Server
    /\ Me(t).gHookLoaded /\ ~Me(t).gInsideHook /\ Segment(ProcOf[t]) = thr[t].at

OpenRecurses(t) == ~Me(t).sOpened /\ Recurses(t)

-----------------------------------------------------------------------------
(* What the tools call (allimctl, setlimitpoint, setlimitreal,             *)
(* setlimitlog); each call is a new process.                               *)
Real(c, k, name) == IF c[k] = None THEN <<>> ELSE <<FnV(name, c[k])>>
Functions(c) ==
    CASE c.op = "point" -> IF c.clear THEN <<Fn("clear")>> ELSE <<FnV("set", c)>>
      [] c.op = "log"   -> <<FnV("getlogging", c)>>
      [] c.op = "line"  -> <<Fn("addlog")>>
      [] c.op = "real"  -> <<Fn("getdisk")>> \o Real(c, "memory", "setmemory")
                           \o Real(c, "disk", "wastedisk") \o Real(c, "desc", "setdesc")
      [] c.op = "free"  -> <<Fn("getdisk"), FnV("setmemory", 0), FnV("setdisk", 0), FnV("setdesc", 0)>>
      [] OTHER          -> <<>>

FirstStep(c) == CASE c.op = "create" -> "proceed" [] c.op = "destroy" -> "destroy" [] OTHER -> "attach"

Command(t) ==
    /\ Call(t, {"create", "destroy", "point", "log", "line", "real", "free"})
    /\ st'  = [st EXCEPT ![ProcOf[t]] = NewProcess(1)]
    /\ Go(t, [Idle EXCEPT !.pc = FirstStep(Asked(t)), !.todo = Functions(Asked(t))])

-----------------------------------------------------------------------------
(* allimIsProceeding and, where there is no test, allimCreate with the     *)
(* first key that is free: the segment, then allimshm.log, then gKey.      *)
(* A server opens the log when it closes allimshm.log or reports that      *)
(* there is no test.  If that fails, whoever writes to the log next tries  *)
(* again; where that is under a lock and no hook is in the way, one that   *)
(* succeeds counts here as if this had.                                    *)
Opening(t) ==
    LET p == ProcOf[t]
    IN  p \in Server /\ ~st[p].sOpened /\ (st[p].gKey = 0 \/ Segment(p) = 0)

IsProceeding(t) ==
    /\ At(t, "proceed")
    /\ \E o \in IF Opening(t) THEN BOOLEAN ELSE {Me(t).sOpened} :
         /\ st' = [st EXCEPT ![ProcOf[t]].gKey = KeySeen(ProcOf[t]), ![ProcOf[t]].sOpened = o]
         /\ IF Opening(t) /\ ~o THEN MayFail /\ Fault ELSE UNCHANGED faults
         /\ past' = past \cup (IF Opening(t) /\ ~o THEN {"unopened"} ELSE {})
                         \cup (IF Segment(ProcOf[t]) = 0 /\ \E u \in Thread : thr[u].pc \in Creating
                               THEN {"overlap"} ELSE {})
    /\ Go(t, IF Segment(ProcOf[t]) = 0 THEN [thr[t] EXCEPT !.pc = "create"]
             ELSE IF thr[t].todo = <<>> THEN Idle ELSE [thr[t] EXCEPT !.pc = "attach"])
    /\ UNCHANGED <<shared, plan, n, last, moves>>

FreeKeys(p) == {k \in Key : k >= Pid[p] /\ table[k] = 0}

Create(t) ==
    /\ At(t, "create") /\ FreeKeys(ProcOf[t]) # {}
    /\ LET k == Min(FreeKeys(ProcOf[t]))
       IN  /\ table' = [table EXCEPT ![k] = Len(seg) + 1]
           /\ seg' = Append(seg, NewSegment)
           /\ \/ /\ Go(t, [thr[t] EXCEPT !.pc = "truncate", !.local = k]) /\ UNCHANGED <<faults, past>>
                 /\ st' = [st EXCEPT ![ProcOf[t]].sOpened = TRUE]
              \/ /\ MayFail /\ Fault /\ Go(t, Idle) /\ past' = past \cup {"failed"} /\ UNCHANGED st
    /\ UNCHANGED <<keyFile, junk, plan, n, last, moves>>

Truncate(t) ==
    /\ At(t, "truncate") /\ keyFile' = 0 /\ Go(t, [thr[t] EXCEPT !.pc = "write"])
    /\ UNCHANGED <<table, seg, junk, st, plan, faults, ghosts>>

WriteKey(t) ==
    /\ At(t, "write") /\ keyFile' = thr[t].local /\ Go(t, [thr[t] EXCEPT !.pc = "setkey"])
    /\ UNCHANGED <<table, seg, junk, st, plan, faults, ghosts>>

SetKey(t) ==
    /\ At(t, "setkey")
    /\ st' = [st EXCEPT ![ProcOf[t]].gKey = thr[t].local]
    /\ Go(t, IF thr[t].todo = <<>> THEN Idle ELSE [thr[t] EXCEPT !.pc = "attach", !.local = 0])
    /\ UNCHANGED <<shared, plan, faults, ghosts>>

(* allimctl -d: the segment and the file go, whether the other did or not. *)
Destroy(t) ==
    /\ At(t, "destroy")
    /\ IF keyFile \in Key /\ table[keyFile] # 0
       THEN table' = [table EXCEPT ![keyFile] = 0] ELSE UNCHANGED table
    /\ past' = past \cup {"destroyed"}
    /\ Go(t, [thr[t] EXCEPT !.pc = "remove"])
    /\ UNCHANGED <<keyFile, seg, junk, st, plan, faults, n, last, moves>>

RemoveKeyFile(t) ==
    /\ At(t, "remove") /\ keyFile' = None /\ Go(t, Idle)
    /\ UNCHANGED <<table, seg, junk, st, plan, faults, ghosts>>

(* wasteDisk of setlimitreal, before allimSetDiskWaste.                    *)
WasteDisk(t) ==
    /\ At(t, "attach") /\ Calling(t, {"wastedisk"})
    /\ junk' = Min({F(t).v, IF F(t).v <= junk THEN junk ELSE DiskMax})
    /\ Go(t, [thr[t] EXCEPT !.todo = <<FnV("setdisk", junk')>> \o Tail(@)])
    /\ UNCHANGED <<keyFile, table, seg, st, plan, faults, ghosts>>

Attach(t) ==
    /\ At(t, "attach") /\ ~Calling(t, {"wastedisk"})
    /\ KeepKey(ProcOf[t])
    /\ Go(t, IF Segment(ProcOf[t]) = 0 THEN Failed(t)
             ELSE [thr[t] EXCEPT !.pc = "lock", !.at = Segment(ProcOf[t])])
    /\ UNCHANGED <<shared, plan, faults, ghosts>>

-----------------------------------------------------------------------------
(* The lock of the segment.                                                *)
S(t) == seg[thr[t].at]
Locks(t, names) == At(t, "lock") /\ Calling(t, names) /\ S(t).mLock = Nobody
Put(t, s)  == seg' = [seg EXCEPT ![thr[t].at] = s]
Keep(t, s) == Put(t, [s EXCEPT !.mLock = t])

(* The end of a function that leaves the segment as s, after it has        *)
(* written "lines" times to the log under mLogLock.  A seek that fails     *)
(* leaves mLogLock locked, and the next who writes waits with mLock held;  *)
(* so does who opens the log by a hooked open, which comes back for mLock. *)
Unlock(t, s, lines, r) ==
    /\ UNCHANGED <<keyFile, table, junk, plan>>
    /\ \/ /\ (lines > 0 => ~s.mLogLock /\ ~OpenRecurses(t)) /\ Put(t, [s EXCEPT !.mLock = Nobody]) /\ Go(t, r)
          /\ UNCHANGED <<faults, past>>
       \/ /\ lines > 0 /\ s.mLogLock /\ Keep(t, s) /\ Hang(t)
          /\ UNCHANGED <<faults, past>>
       \/ /\ lines > 0 /\ ~s.mLogLock /\ OpenRecurses(t) /\ Keep(t, [s EXCEPT !.mLogLock = TRUE]) /\ Hang(t)
          /\ UNCHANGED <<faults, past>>
       \/ /\ lines > 0 /\ ~s.mLogLock /\ ~OpenRecurses(t) /\ MayFail /\ Fault /\ past' = past \cup {"seek"}
          /\ \/ Put(t, [s EXCEPT !.mLogLock = TRUE, !.mLock = Nobody]) /\ Go(t, r)
             \/ lines > 1 /\ Keep(t, [s EXCEPT !.mLogLock = TRUE]) /\ Hang(t)

(* The process of t afterwards: the flag is up if t hangs in that open.    *)
Flagged(t) ==
    [Me(t) EXCEPT !.gInsideHook = @ \/ (thr'[t].pc = "hung" /\ ~S(t).mLogLock /\ OpenRecurses(t))]
Update(t, r) == st' = [st EXCEPT ![ProcOf[t]] = r]
HangsInHook(t) == Hang(t) /\ Update(t, [Me(t) EXCEPT !.gInsideHook = TRUE])

(* allimPointPass and the rest of allimSoLimitPoint; its failure is a      *)
(* point that does not fail.                                               *)
PointPass(t) ==
    /\ Locks(t, {"pass"})
    /\ LET s == S(t)
           p == F(t).v
       IN  \/ /\ MySlots(s, t) = {}
              /\ Unlock(t, s, IF Writes(s, "pass") THEN 1 ELSE 0, Failed(t))
              /\ Update(t, Flagged(t))
              /\ UNCHANGED <<n, last, moves>>
           \/ \E i \in MySlots(s, t) :
              /\ Unlock(t, Passed(s, t, p, i), PassLines(s, p, i), Returned(t))
              /\ Update(t, [Flagged(t) EXCEPT !.gHookLoaded = (thr'[t].pc # "hung") \/ @])
              /\ IF Counted(s, p)
                 THEN /\ n' = [n EXCEPT ![t] = IF Activates(s, p, i) THEN 0 ELSE @ + 1]
                      /\ last' = [hit |-> Activates(s, p, i), n |-> n[t] + 1, count |-> s.count]
                 ELSE UNCHANGED <<n, last>>
              /\ UNCHANGED moves

(* The first call stack that is logged may allocate in a hooked malloc.    *)
StackRecurses(t) ==
    /\ Locks(t, {"pass"}) /\ Recurses(t) /\ Me(t).sOpened /\ ~S(t).mLogLock
    /\ \E i \in MySlots(S(t), t) : Stacks(S(t), F(t).v, i)
    /\ Keep(t, [S(t) EXCEPT !.mLogLock = TRUE]) /\ HangsInHook(t) /\ past' = past \cup {"stack"}
    /\ UNCHANGED <<keyFile, table, junk, plan, faults, n, last, moves>>

PointDone(t) ==
    /\ Locks(t, {"done"})
    /\ Put(t, IF MySlots(S(t), t) = {} THEN S(t) ELSE Released(S(t), Min(MySlots(S(t), t))))
    /\ Go(t, Returned(t)) /\ past' = past \cup {"done"}
    /\ UNCHANGED <<keyFile, table, junk, st, plan, faults, n, last, moves>>

PointChange(t) ==
    /\ Locks(t, {"set", "clear"})
    /\ LET s == S(t)
           lines == IF Writes(s, "set") THEN 1 ELSE 0
       IN  IF F(t).fn = "clear"
           THEN Unlock(t, PointClear(s), lines, Returned(t)) /\ UNCHANGED n
           ELSE Unlock(t, PointSet(s, F(t).v), lines, Returned(t)) /\ n' = [u \in Thread |-> 0]
    /\ UNCHANGED <<st, last, moves>>

(* setlimitlog: allimGetLogging, then both parts are written back.         *)
NewFlags(s, c) ==
    IF c.all THEN (IF c.on THEN {"log"} \cup Kinds ELSE {})
    ELSE IF c.on THEN s.flags \cup c.kinds ELSE s.flags \ c.kinds

Logging(t) ==
    /\ Locks(t, {"getlogging", "enable", "setlogging"})
    /\ LET s == S(t)
           new == NewFlags(s, F(t).v)
           v == F(t).v
       IN  CASE F(t).fn = "getlogging" ->
                  Unlock(t, s, 0, [Idle EXCEPT !.pc = "attach", !.todo =
                      <<FnV("enable", new \cap {"log"}), FnV("setlogging", new \ {"log"})>>])
             [] F(t).fn = "enable" -> Unlock(t, [s EXCEPT !.flags = (@ \ {"log"}) \cup v], 1, Returned(t))
             [] OTHER -> Unlock(t, [s EXCEPT !.flags = (@ \cap {"log"}) \cup v],
                                IF "log" \in s.flags THEN 7 ELSE 0, Returned(t))
    /\ UNCHANGED <<st, n, last, moves>>

(* allimctl -l writes without mLock.                                       *)
AddLog(t) ==
    /\ At(t, "lock") /\ Calling(t, {"addlog"})
    /\ LET s == S(t)
       IN  \/ s.mLogLock /\ Hang(t) /\ UNCHANGED <<seg, faults, past>>
           \/ ~s.mLogLock /\ Go(t, Returned(t)) /\ UNCHANGED <<seg, faults, past>>
           \/ /\ ~s.mLogLock /\ MayFail /\ Fault /\ past' = past \cup {"seek"}
              /\ Put(t, [s EXCEPT !.mLogLock = TRUE]) /\ Go(t, Failed(t))
    /\ UNCHANGED <<keyFile, table, junk, st, plan, n, last, moves>>

-----------------------------------------------------------------------------
(* Memory and descriptors that are really wasted.                          *)
RealLines(s) == IF Writes(s, "real") THEN 1 ELSE 0

SetWaste(t) ==
    /\ Locks(t, {"getdisk", "setmemory", "setdisk", "setdesc"})
    /\ LET s == S(t)
           v == F(t).v
       IN  CASE F(t).fn = "getdisk"   -> Unlock(t, s, 0, Returned(t))
             [] F(t).fn = "setmemory" -> Unlock(t, [s EXCEPT !.destMemory = v], RealLines(s), Returned(t))
             [] F(t).fn = "setdisk"   -> Unlock(t, [s EXCEPT !.destDisk = v, !.disk = v], RealLines(s), Returned(t))
             [] OTHER                 -> Unlock(t, [s EXCEPT !.destDesc = v], RealLines(s), Returned(t))
    /\ UNCHANGED <<st, n, last, moves>>

Moves(t) == movers' = movers \cup {<<ProcOf[t], Me(t).run, thr[t].at>>}

(* Defect: what was wished is recorded, not what was had. *)
MemoryAsWished(t, cur) ==
    Unlock(t, [S(t) EXCEPT !.memory = S(t).destMemory], RealLines(S(t)), Returned(t))

(* The end of allimMemory with "cur" chunks wasted.                        *)
MemoryDone(t, cur) ==
    Unlock(t, [S(t) EXCEPT !.memory = cur, !.destMemory = cur], RealLines(S(t)), Returned(t))

(* The process p ends; the locks its threads hold stay as they are.        *)
Held(p) == {i \in DOMAIN seg : seg[i].mLock \in Thread /\ ProcOf[seg[i].mLock] = p}
Dies(p, locked) ==
    /\ seg' = [i \in DOMAIN seg |-> IF i \in locked THEN [seg[i] EXCEPT !.mLock = Dead] ELSE seg[i]]
    /\ st'  = [st EXCEPT ![p] = NewProcess(@.run + 1)]
    /\ thr' = [t \in Thread |-> IF ProcOf[t] = p THEN Idle ELSE thr[t]]

(* A chunk list that ends before the count does is a NULL pointer; an      *)
(* empty one counts as nothing wasted.                                     *)
FreeMemory(t) ==
    LET s == S(t)
        p == ProcOf[t]
        k == s.memory - s.destMemory
    IN  IF Me(t).chunks = 0 THEN MemoryDone(t, 0) /\ Update(t, Flagged(t)) /\ UNCHANGED harm
        ELSE IF k <= Me(t).chunks
        THEN MemoryDone(t, s.destMemory) /\ Update(t, [Flagged(t) EXCEPT !.chunks = @ - k]) /\ UNCHANGED harm
        ELSE /\ Dies(p, Held(p) \cup {thr[t].at}) /\ harm' = harm \cup {"overrun"}
             /\ past' = past \cup {"died"} /\ UNCHANGED <<keyFile, table, junk, plan, faults>>

Memory(t) ==
    /\ Locks(t, {"memory"})
    /\ LET s == S(t)
       IN  \/ s.memory = s.destMemory /\ Unlock(t, s, 0, Returned(t)) /\ UNCHANGED <<st, moves>>
           \/ s.memory > s.destMemory /\ FreeMemory(t) /\ Moves(t)
           \/ /\ s.memory < s.destMemory
              /\ Keep(t, s) /\ Go(t, [thr[t] EXCEPT !.pc = "waste", !.local = s.memory])
              /\ Moves(t) /\ UNCHANGED <<keyFile, table, junk, st, plan, faults, harm, past>>
    /\ UNCHANGED <<n, last>>

Waste(t) ==
    /\ At(t, "waste")
    /\ LET p == ProcOf[t]
       IN  IF thr[t].local < S(t).destMemory /\ Recurses(t)
           THEN HangsInHook(t) /\ UNCHANGED <<shared, plan, faults, past>>
           ELSE IF thr[t].local < S(t).destMemory /\ Me(t).chunks < MemoryMax
           THEN /\ st' = [st EXCEPT ![p].chunks = @ + 1] /\ Go(t, [thr[t] EXCEPT !.local = @ + 1])
                /\ UNCHANGED <<shared, plan, faults, past>>
           ELSE MemoryDone(t, thr[t].local) /\ Update(t, Flagged(t))
    /\ UNCHANGED <<n, last, moves>>

(* sSocks[i] that is no socket of this process closes something else.      *)
Desc(t) ==
    /\ Locks(t, {"desc"})
    /\ LET s == S(t)
           p == ProcOf[t]
           closed == (s.destDesc + 1)..s.desc
       IN  \/ s.desc = s.destDesc /\ Unlock(t, s, 0, Returned(t)) /\ UNCHANGED <<st, moves>>
           \/ /\ s.desc > s.destDesc
              /\ Moves(t) /\ harm' = harm \cup (IF closed \subseteq Me(t).socks THEN {} ELSE {"stray"})
              /\ Unlock(t, [s EXCEPT !.desc = s.destDesc], RealLines(s), Returned(t))
              /\ Update(t, [Flagged(t) EXCEPT !.socks = @ \ closed])
           \/ /\ s.desc < s.destDesc
              /\ Keep(t, s) /\ Go(t, [thr[t] EXCEPT !.pc = "open", !.local = s.desc])
              /\ Moves(t) /\ UNCHANGED <<keyFile, table, junk, st, plan, faults, harm, past>>
    /\ UNCHANGED <<n, last>>

Open(t) ==
    /\ At(t, "open")
    /\ LET p == ProcOf[t]
       IN  IF thr[t].local < S(t).destDesc /\ Recurses(t)
           THEN HangsInHook(t) /\ UNCHANGED <<shared, plan, faults, past>>
           ELSE IF thr[t].local < S(t).destDesc /\ Cardinality(Me(t).socks) < DescMax
           THEN /\ st' = [st EXCEPT ![p].socks = @ \cup {thr[t].local + 1}]
                /\ Go(t, [thr[t] EXCEPT !.local = @ + 1])
                /\ UNCHANGED <<shared, plan, faults, past>>
           ELSE /\ Unlock(t, [S(t) EXCEPT !.desc = thr[t].local], RealLines(S(t)), Returned(t))
                /\ Update(t, Flagged(t))
    /\ UNCHANGED <<n, last, moves>>

-----------------------------------------------------------------------------
Die(p) ==
    /\ MayFail /\ Fault /\ st[p] # NewProcess(st[p].run)
    /\ Dies(p, Held(p))
    /\ past' = past \cup {"died"}
                    \cup (IF \E t \in Thread : ProcOf[t] = p /\ thr[t].pc \in Creating THEN {"failed"} ELSE {})
    /\ UNCHANGED <<keyFile, table, junk, plan, n, last, moves>>

ThreadStep(t) ==
    \/ LimitPoint(t) \/ LimitPointDone(t) \/ Hook(t) \/ Enter(t) \/ Leave(t)
    \/ Command(t) \/ Destroy(t) \/ RemoveKeyFile(t) \/ WasteDisk(t)
    \/ IsProceeding(t) \/ Create(t) \/ Truncate(t) \/ WriteKey(t) \/ SetKey(t) \/ Attach(t)
    \/ PointPass(t) \/ StackRecurses(t) \/ PointDone(t) \/ PointChange(t) \/ Logging(t) \/ AddLog(t)
    \/ SetWaste(t) \/ Memory(t) \/ Waste(t) \/ Desc(t) \/ Open(t)

Next == (\E t \in Thread : ThreadStep(t)) \/ (\E p \in Server : Die(p)) \/ Onward

Spec == Init /\ [][Next]_vars

-----------------------------------------------------------------------------
(* All who take part in a limit test use one segment, the one allimshm.log *)
(* names, unless two made one at the same time, one was destroyed while    *)
(* processes kept its key, or making one failed halfway.                   *)
OneTest ==
    past \cap {"overlap", "destroyed", "failed"} = {} =>
        /\ Len(seg) <= 1
        /\ \A k \in Key : (k = keyFile \/ \E p \in Proc : st[p].gKey = k) => table[k] = 1

(* A limit point fails in a thread on each "count"-th pass of that thread  *)
(* since setlimitpoint or since it last failed, whatever the other threads *)
(* and processes pass, as long as all use one segment and no thread has    *)
(* given its slot back, which the next owner takes over as it was.         *)
HitOnCount ==
    (past \cap {"overlap", "destroyed", "failed", "done"} = {}) =>
        (last.hit <=> last.n = last.count)

(* What the segment says is wasted is what a process holds, and nothing    *)
(* else is freed or closed, as long as only one process, in one life and   *)
(* for one segment, has wasted: the lists are in its own memory.           *)
WasteIsHeld ==
    Cardinality(movers) <= 1 =>
        /\ harm = {}
        /\ \A m \in movers : LET s == seg[m[3]]
                                 p == st[m[1]]
           IN  (p.run = m[2] /\ s.mLock = Nobody) => s.memory = p.chunks /\ 1..s.desc = p.socks

(* The lock of the segment is given back, and with it every server and     *)
(* tool goes on, unless its holder died, a seek in the log failed, a call  *)
(* stack was logged, two threads of a process were in a hook at once, or a *)
(* server could not open the log at its first limit point and opened it,   *)
(* by a hooked open, where it held the lock (allimPointPass, allimMemory,  *)
(* allimDesc, allimOpenLog, anypcb).                                       *)
Hangs == {"seek", "stack", "hooks", "unopened"}

LockReleased ==
    \A i \in DOMAIN seg :
        /\ seg[i].mLock = Dead => "died" \in past
        /\ seg[i].mLock \in Thread =>
             LET h == thr[seg[i].mLock]
             IN  h.at = i /\ (h.pc \in {"waste", "open"} \/ (h.pc = "hung" /\ past \cap Hangs # {}))

=============================================================================
