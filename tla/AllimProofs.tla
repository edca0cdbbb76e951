----------------------------- MODULE AllimProofs -----------------------------
(***************************************************************************)
(* Theorems about the limit tests, for any number of servers, threads,     *)
(* tools, keys and slots, and whatever is called.                          *)
(***************************************************************************)
EXTENDS Allim, FiniteSetTheorems, SequenceTheorems, WellFoundedInduction, TLAPS

-----------------------------------------------------------------------------
(* Types. *)
Switches == {"log"} \cup Kinds

Holder   == Thread \cup {Nobody, Dead}

SegmentType ==
    [file : Text, id : Text, count : Nat,
     hits : [Slot -> Int], ids : [Slot -> Thread \cup {Nobody}],
     memory : Nat, destMemory : Nat, disk : Nat, destDisk : Nat, desc : Nat, destDesc : Nat,
     flags : SUBSET Switches, mLock : Holder, mLogLock : BOOLEAN]

ProcessType ==
    [gKey : Key \cup {0}, gHookLoaded : BOOLEAN, gInsideHook : BOOLEAN, sOpened : BOOLEAN,
     chunks : Nat, socks : SUBSET Nat, run : Nat]

(* The functions of allib.c that only a hook calls, and the others. *)
HookFunction == [fn : {"memory", "desc"}]
Function ==
    [fn : {"done", "clear", "addlog", "getdisk"}]
    \cup [fn : {"pass"}, v : Point] \cup [fn : {"set"}, v : PointCall] \cup [fn : {"getlogging"}, v : LogCall]
    \cup [fn : {"enable", "setlogging"}, v : SUBSET Switches]
    \cup [fn : {"setmemory", "wastedisk", "setdisk", "setdesc"}, v : Nat]

Places == {"idle", "proceed", "create", "truncate", "write", "setkey", "destroy", "remove",
           "attach", "lock", "waste", "open", "enter", "leave", "hung"}

Work    == Seq(Function \cup HookFunction)
OwnWork == Seq(Function)

ThreadType ==
    [pc : Places, todo : Work, at : Nat, hook : BOOLEAN, local : Nat]

(* Where a thread of process p can be when L segments have been made: only *)
(* hooks waste, they run in servers only, and who is at a segment has one. *)
Placed(r, p, L) ==
    /\ r \in ThreadType
    /\ r.pc \in {"lock", "waste", "open"} => r.at \in 1 .. L
    /\ r.pc \in {"waste", "open", "leave"} => r.hook
    /\ ~r.hook /\ r.pc # "enter" => r.todo \in OwnWork
    /\ r.hook \/ r.pc = "enter" => p \in Server
    /\ r.pc \in {"truncate", "write", "setkey"} => r.local \in Key

TypeOK ==
    /\ keyFile \in Key \cup {0, None} /\ seg \in Seq(SegmentType) /\ table \in [Key -> 0 .. Len(seg)]
    /\ st \in [Proc -> ProcessType] /\ thr \in [Thread -> ThreadType] /\ plan \in Seq(Phases)
    /\ faults \in Nat /\ junk \in Nat /\ n \in [Thread -> Nat]
    /\ \A t \in Thread : Placed(thr[t], ProcOf[t], Len(seg))

(* Only an accident leaves the log locked. *)
LogFree == \A i \in 1 .. Len(seg) : seg[i].mLogLock => past \cap Hangs # {}

LEMMA NewSegmentType == NewSegment \in SegmentType
  <1>1. {"log"} \cup (Kinds \ {"pass"}) \in SUBSET Switches
    BY DEF Switches
  <1>2. [i \in Slot |-> 0] \in [Slot -> Int] /\ [i \in Slot |-> Nobody] \in [Slot -> Thread \cup {Nobody}]
    OBVIOUS
  <1>3. QED
    BY <1>1, <1>2, NamesAssumption DEF NewSegment, SegmentType, NamesAssumption, Holder

LEMMA SegmentTypes ==
    ASSUME NEW s \in SegmentType, NEW t \in Thread
    PROVE  /\ PointClear(s) \in SegmentType
           /\ \A v \in PointCall : PointSet(s, v) \in SegmentType
           /\ \A p \in Point, i \in Slot : Passed(s, t, p, i) \in SegmentType
           /\ \A i \in Slot : Released(s, i) \in SegmentType
  <1>1. PointClear(s) \in SegmentType
    BY NamesAssumption DEF SegmentType, PointClear, NamesAssumption
  <1>2. ASSUME NEW v \in PointCall
        PROVE  PointSet(s, v) \in SegmentType
    <2>1. PICK f \in Text : f = IF v.file = "" THEN s.file ELSE v.file
      BY DEF SegmentType, PointCall
    <2>2. PICK d \in Text : d = IF v.id = "" THEN s.id ELSE v.id
      BY DEF SegmentType, PointCall
    <2>4. v.count \in Nat
      BY DEF PointCall
    <2>3. PICK h \in [Slot -> Int] : h = [i \in Slot |-> v.count]
      <3>1. \A k \in Nat : [i \in Slot |-> k] \in [Slot -> Int]
        OBVIOUS
      <3>2. QED
        BY <2>4, <3>1
    <2>5. PointSet(s, v) = [s EXCEPT !.file = f, !.id = d, !.count = v.count, !.hits = h]
      BY <2>1, <2>2, <2>3 DEF PointSet
    <2>6. QED
      BY <2>4, <2>5 DEF SegmentType
  <1>3. ASSUME NEW p \in Point, NEW i \in Slot
        PROVE  Passed(s, t, p, i) \in SegmentType
    <2>1. s.count \in Nat /\ s.hits[i] \in Int
      BY DEF SegmentType
    <2>2. PICK h \in Int : h = IF ~Counted(s, p) THEN s.hits[i] ELSE IF s.hits[i] = 1 THEN s.count ELSE s.hits[i] - 1
      BY <2>1
    <2>3. Passed(s, t, p, i) = [s EXCEPT !.ids[i] = t, !.hits[i] = h]
      BY <2>2 DEF Passed
    <2>4. PICK I \in [Slot -> Thread \cup {Nobody}], H \in [Slot -> Int] :
             I = [s.ids EXCEPT ![i] = t] /\ H = [s.hits EXCEPT ![i] = h]
      BY DEF SegmentType
    <2>5. Passed(s, t, p, i) = [s EXCEPT !.ids = I, !.hits = H]
      BY <2>3, <2>4 DEF SegmentType
    <2>6. QED
      BY <2>5 DEF SegmentType
  <1>4. ASSUME NEW i \in Slot
        PROVE  Released(s, i) \in SegmentType
    BY <1>4 DEF SegmentType, Released
  <1>5. QED
    BY <1>1, <1>2, <1>3, <1>4

LEMMA LockTypes ==
    ASSUME NEW s \in SegmentType, NEW m \in Holder, NEW b \in BOOLEAN
    PROVE  [s EXCEPT !.mLock = m] \in SegmentType /\ [s EXCEPT !.mLogLock = b, !.mLock = m] \in SegmentType
           /\ [s EXCEPT !.mLogLock = b] \in SegmentType
  BY DEF SegmentType

-----------------------------------------------------------------------------
(* Where a thread goes. *)
LEMMA Moved ==
    ASSUME NEW r \in ThreadType, NEW c \in Places
    PROVE  /\ [r EXCEPT !.pc = c] \in ThreadType
           /\ \A w \in Work : [r EXCEPT !.pc = c, !.todo = w, !.at = 0] \in ThreadType
           /\ \A w \in Work : [r EXCEPT !.pc = c, !.todo = w] \in ThreadType
           /\ \A w \in Work : [r EXCEPT !.todo = w] \in ThreadType
           /\ \A a \in Nat : [r EXCEPT !.pc = c, !.at = a] \in ThreadType
           /\ \A k \in Nat : [r EXCEPT !.pc = c, !.local = k] \in ThreadType
           /\ \A k \in Nat : [r EXCEPT !.local = k] \in ThreadType
           /\ \A h \in BOOLEAN : [r EXCEPT !.hook = h, !.pc = c] \in ThreadType
  BY DEF ThreadType

LEMMA Works ==
    /\ <<>> \in OwnWork
    /\ \A w \in OwnWork : w \in Work
    /\ \A w \in Work : w # <<>> => Tail(w) \in Work /\ Head(w) \in Function \cup HookFunction
    /\ \A w \in OwnWork : w # <<>> => Tail(w) \in OwnWork /\ Head(w) \in Function
    /\ \A w \in Work : Len(w) > 1 => w # <<>>
  BY DEF Work, OwnWork

LEMMA IdlePlaced ==
    ASSUME NEW p, NEW L \in Nat
    PROVE  Placed(Idle, p, L) /\ Idle \in ThreadType /\ Idle.pc = "idle" /\ ~Idle.hook
  <1>1. "idle" \in Places
    BY DEF Places
  <1>2. QED
    BY <1>1, Works DEF Placed, ThreadType, Idle

(* A thread that has returned is at the next function, or has left allib.c. *)
Back(r, q) == r.pc \in {"idle", "leave", "attach"} /\ (r.hook => q.hook)

LEMMA GonePlaced ==
    ASSUME TypeOK, NEW t \in Thread, thr[t].pc # "enter"
    PROVE  Placed(Gone(t), ProcOf[t], Len(seg)) /\ Back(Gone(t), thr[t])
  <1>1. Placed(thr[t], ProcOf[t], Len(seg)) /\ Len(seg) \in Nat /\ thr[t] \in ThreadType
    BY DEF TypeOK
  <1>2. CASE thr[t].hook
    <2>1. Gone(t) = [thr[t] EXCEPT !.pc = "leave", !.todo = <<>>, !.at = 0]
      BY <1>2 DEF Gone
    <2>2. "leave" \in Places
      BY DEF Places
    <2>3. Gone(t) \in ThreadType /\ Gone(t).pc = "leave" /\ Gone(t).hook
      <3>1. [thr[t] EXCEPT !.pc = "leave", !.todo = <<>>, !.at = 0] \in ThreadType
        BY <1>1, <2>2, Works, Moved
      <3>2. QED
        BY <1>1, <1>2, <2>1, <3>1 DEF ThreadType
    <2>4. QED
      BY <1>1, <1>2, <2>3 DEF Placed, Back
  <1>3. CASE ~thr[t].hook
    BY <1>1, <1>3, IdlePlaced DEF Gone, Back
  <1>4. QED
    BY <1>2, <1>3

LEMMA ReturnPlaced ==
    ASSUME TypeOK, NEW t \in Thread, thr[t].pc # "enter"
    PROVE  /\ Placed(Returned(t), ProcOf[t], Len(seg)) /\ Back(Returned(t), thr[t])
           /\ Placed(Failed(t), ProcOf[t], Len(seg)) /\ Back(Failed(t), thr[t])
  <1>1. Placed(thr[t], ProcOf[t], Len(seg)) /\ Len(seg) \in Nat /\ thr[t] \in ThreadType
    BY DEF TypeOK
  <1>2. Placed(Returned(t), ProcOf[t], Len(seg)) /\ Back(Returned(t), thr[t])
    <2>1. CASE Len(thr[t].todo) <= 1
      BY <2>1, GonePlaced DEF Returned
    <2>2. CASE ~(Len(thr[t].todo) <= 1)
      <3>1. Returned(t) = [thr[t] EXCEPT !.pc = "attach", !.todo = Tail(thr[t].todo), !.at = 0]
        BY <2>2 DEF Returned
      <3>2. thr[t].todo \in Work /\ Len(thr[t].todo) \in Nat
        BY <1>1 DEF ThreadType, Work
      <3>3. Tail(thr[t].todo) \in Work
        BY <2>2, <3>2, Works
      <3>4. ~thr[t].hook => Tail(thr[t].todo) \in OwnWork
        BY <1>1, <2>2, <3>2, Works DEF Placed
      <3>5. "attach" \in Places
        BY DEF Places
      <3>6. /\ Returned(t) \in ThreadType /\ Returned(t).pc = "attach" /\ Returned(t).hook = thr[t].hook
            /\ Returned(t).todo = Tail(thr[t].todo)
        <4>1. [thr[t] EXCEPT !.pc = "attach", !.todo = Tail(thr[t].todo), !.at = 0] \in ThreadType
          BY <1>1, <3>3, <3>5, Moved
        <4>2. QED
          BY <1>1, <3>1, <4>1 DEF ThreadType
      <3>7. QED
        BY <1>1, <3>4, <3>6 DEF Placed, Back
    <2>3. QED
      BY <2>1, <2>2
  <1>3. QED
    BY <1>1, <1>2, IdlePlaced DEF Failed, Back

-----------------------------------------------------------------------------
(* The lock.  Who wastes has it; and the flag of a process is up while its *)
(* only thread in a hook is there.                                         *)
WasterHolds == \A t \in Thread : thr[t].pc \in {"waste", "open"} => seg[thr[t].at].mLock = t

HooksUp ==
    "hooks" \notin past =>
        \A t \in Thread : thr[t].hook => st[ProcOf[t]].gInsideHook /\ \A u \in Fellows(t) : ~thr[u].hook

LockInv == LogFree /\ LockReleased /\ WasterHolds
Shape   == TypeOK /\ LockInv /\ HooksUp

(* A server that works under a lock, or whose hooks are loaded, has tried  *)
(* to open its log.                                                        *)
Tried(p) == st[p].sOpened \/ "unopened" \in past

AtRest == {"idle", "proceed", "enter", "leave"}

Tries ==
    /\ \A p \in Server : st[p].gHookLoaded \/ st[p].gKey # 0 => Tried(p)
    /\ \A t \in Thread : ProcOf[t] \in Server /\ thr[t].pc \notin AtRest => Tried(ProcOf[t])

Inv == Shape /\ Tries

Threads == thr \in [Thread -> ThreadType] /\ \A t \in Thread : Placed(thr[t], ProcOf[t], Len(seg))

(* A thread moves on that wastes neither before nor afterwards. *)
LEMMA ThreadKeeps ==
    ASSUME TypeOK, LockInv, NEW t \in Thread, NEW r, Placed(r, ProcOf[t], Len(seg)),
           thr' = [thr EXCEPT ![t] = r], seg' = seg, past \subseteq past',
           r.pc \notin {"waste", "open"}, thr[t].pc \notin {"waste", "open", "hung"}
    PROVE  Threads' /\ LockInv'
  <1>1. thr \in [Thread -> ThreadType] /\ r \in ThreadType
    BY DEF TypeOK, Placed
  <1>2. Threads'
    BY <1>1 DEF Threads, TypeOK
  <1>3. LogFree' /\ WasterHolds'
    BY <1>1 DEF LockInv, LogFree, WasterHolds
  <1>4. LockReleased'
    BY <1>1 DEF LockInv, LockReleased
  <1>5. QED
    BY <1>2, <1>3, <1>4 DEF LockInv

LEMMA HooksKeep ==
    ASSUME TypeOK, HooksUp, NEW t \in Thread, NEW r, thr' = [thr EXCEPT ![t] = r], r.hook => thr[t].hook,
           \A u \in Thread : st[ProcOf[u]].gInsideHook => st'[ProcOf[u]].gInsideHook, past \subseteq past'
    PROVE  HooksUp'
  BY DEF TypeOK, HooksUp, Fellows

(* A function that had the lock ends, or hangs in the log. *)
Ended(t, s, r) ==
    /\ s \in SegmentType /\ (s.mLogLock => past' \cap Hangs # {})
    /\ seg' = [seg EXCEPT ![thr[t].at] = s]
    /\ \/ s.mLock = Nobody /\ thr' = [thr EXCEPT ![t] = r]
       \/ /\ s.mLock = t /\ thr' = [thr EXCEPT ![t] = [thr[t] EXCEPT !.pc = "hung"]]
          /\ past' \cap Hangs # {}
    /\ past \subseteq past' /\ past' \subseteq past \cup {"seek", "stack", "done"}

LEMMA EndKeeps ==
    ASSUME TypeOK, LockInv, NEW t \in Thread, NEW s, NEW r, Placed(r, ProcOf[t], Len(seg)), Ended(t, s, r),
           thr[t].pc \in {"lock", "waste", "open"}, S(t).mLock \in {Nobody, t}, r.pc \notin {"waste", "open"}
    PROVE  /\ seg' \in Seq(SegmentType) /\ Len(seg') = Len(seg)
           /\ Threads' /\ LockInv'
  <1>1. thr \in [Thread -> ThreadType] /\ r \in ThreadType /\ thr[t].at \in 1 .. Len(seg) /\ Len(seg) \in Nat
    BY DEF TypeOK, Placed
  <1>2. seg' \in Seq(SegmentType) /\ Len(seg') = Len(seg) /\ DOMAIN seg = 1 .. Len(seg) /\ DOMAIN seg' = 1 .. Len(seg)
    BY <1>1 DEF Ended, TypeOK
  <1>3. /\ seg'[thr[t].at] = s
        /\ \A i \in 1 .. Len(seg) : i # thr[t].at => seg'[i] = seg[i]
    BY <1>1, <1>2 DEF Ended
  <1>4. PICK q \in ThreadType : /\ thr' = [thr EXCEPT ![t] = q] /\ Placed(q, ProcOf[t], Len(seg))
                                /\ q.pc \notin {"waste", "open"}
                                /\ s.mLock = Nobody \/ (s.mLock = t /\ q.pc = "hung" /\ q.at = thr[t].at /\ past' \cap Hangs # {})
    <2>1. CASE s.mLock = Nobody /\ thr' = [thr EXCEPT ![t] = r]
      BY <1>1, <2>1
    <2>2. CASE /\ s.mLock = t /\ thr' = [thr EXCEPT ![t] = [thr[t] EXCEPT !.pc = "hung"]]
               /\ past' \cap Hangs # {}
      <3>1. Placed(thr[t], ProcOf[t], Len(seg)) /\ thr[t] \in ThreadType /\ "hung" \in Places
        BY DEF TypeOK, Places
      <3>2. PICK q \in ThreadType : q = [thr[t] EXCEPT !.pc = "hung"]
        BY <3>1, Moved
      <3>3. q.pc = "hung" /\ q.at = thr[t].at /\ q.todo = thr[t].todo /\ q.hook = thr[t].hook
        BY <3>1, <3>2 DEF ThreadType
      <3>4. Placed(q, ProcOf[t], Len(seg))
        BY <3>1, <3>2, <3>3 DEF Placed
      <3>5. QED
        BY <2>2, <3>2, <3>3, <3>4
    <2>3. QED
      BY <2>1, <2>2 DEF Ended
  <1>5. \A u \in Thread : thr'[u] = IF u = t THEN q ELSE thr[u]
    BY <1>1, <1>4
  <1>6. Threads'
    BY <1>1, <1>2, <1>4, <1>5 DEF Threads, TypeOK
  <1>7. LogFree'
    BY <1>2, <1>3 DEF LogFree, LockInv, Ended
  <1>8. \A u \in Thread : u # t /\ thr[u].pc \in {"waste", "open"} => thr[u].at \in 1 .. Len(seg) /\ thr[u].at # thr[t].at
    BY NamesAssumption DEF TypeOK, Placed, LockInv, WasterHolds, NamesAssumption, S
  <1>9. WasterHolds'
    BY <1>3, <1>4, <1>5, <1>8 DEF WasterHolds, LockInv
  <1>10. LockReleased'
    <2>1. SUFFICES ASSUME NEW i \in 1 .. Len(seg)
                   PROVE  /\ seg'[i].mLock = Dead => "died" \in past'
                          /\ seg'[i].mLock \in Thread =>
                               LET h == thr'[seg'[i].mLock]
                               IN  h.at = i /\ (h.pc \in {"waste", "open"} \/ (h.pc = "hung" /\ past' \cap Hangs # {}))
      BY <1>2 DEF LockReleased
    <2>2. CASE i = thr[t].at
      <3>1. seg'[i] = s /\ Nobody \notin Thread /\ Nobody # Dead /\ t # Dead
        BY <1>3, <2>2, NamesAssumption DEF NamesAssumption, Nobody, Dead
      <3>2. CASE s.mLock = Nobody
        BY <3>1, <3>2
      <3>3. CASE s.mLock = t /\ q.pc = "hung" /\ q.at = thr[t].at /\ past' \cap Hangs # {}
        BY <1>5, <2>2, <3>1, <3>3
      <3>4. QED
        BY <1>4, <3>2, <3>3
    <2>3. CASE i # thr[t].at
      BY <1>1, <1>2, <1>3, <1>5, <2>3 DEF LockReleased, LockInv, Ended
    <2>4. QED
      BY <2>2, <2>3
  <1>11. QED
    BY <1>2, <1>6, <1>7, <1>9, <1>10 DEF LockInv

(* Two states of a segment that differ neither in the point nor in what is *)
(* wasted.                                                                 *)
Alike(s, u) ==
    /\ u.file = s.file /\ u.id = s.id /\ u.count = s.count /\ u.hits = s.hits /\ u.ids = s.ids
    /\ u.memory = s.memory /\ u.desc = s.desc

LEMMA UnlockEnds ==
    ASSUME TypeOK, LockInv, NEW t \in Thread, thr[t].at \in 1 .. Len(seg), NEW s \in SegmentType,
           s.mLogLock = S(t).mLogLock, NEW lines, NEW r, Unlock(t, s, lines, r),
           OpenRecurses(t) => past \cap Hangs # {}
    PROVE  /\ \E u : Ended(t, u, r) /\ Alike(s, u)
           /\ faults' \in Nat /\ UNCHANGED <<keyFile, table, junk, plan>>
  <1>1. s.mLogLock => past \cap Hangs # {}
    BY DEF LockInv, LogFree, S
  <1>2. faults \in Nat /\ t \in Holder /\ Nobody \in Holder
    BY DEF TypeOK, Holder
  <1>3. CASE Put(t, [s EXCEPT !.mLock = Nobody]) /\ Go(t, r) /\ UNCHANGED <<faults, past>>
    <2>1. PICK u : u = [s EXCEPT !.mLock = Nobody]
      OBVIOUS
    <2>2. u \in SegmentType /\ Alike(s, u) /\ u.mLock = Nobody /\ u.mLogLock = s.mLogLock
      BY <1>2, <2>1 DEF SegmentType, Alike
    <2>3. Ended(t, u, r)
      BY <1>1, <1>3, <2>1, <2>2 DEF Ended, Put, Go
    <2>4. QED
      BY <1>2, <1>3, <2>2, <2>3 DEF Unlock
  <1>4. CASE lines > 0 /\ s.mLogLock /\ Keep(t, s) /\ Hang(t) /\ UNCHANGED <<faults, past>>
    <2>1. PICK u : u = [s EXCEPT !.mLock = t]
      OBVIOUS
    <2>2. u \in SegmentType /\ Alike(s, u) /\ u.mLock = t /\ u.mLogLock = s.mLogLock
      BY <1>2, <2>1 DEF SegmentType, Alike
    <2>3. Ended(t, u, r)
      BY <1>1, <1>4, <2>1, <2>2 DEF Ended, Put, Keep, Go, Hang
    <2>4. QED
      BY <1>2, <1>4, <2>2, <2>3 DEF Unlock
  <1>5. CASE /\ past' = past \cup {"seek"} /\ Fault
             /\ Put(t, [s EXCEPT !.mLogLock = TRUE, !.mLock = Nobody]) /\ Go(t, r)
    <2>1. PICK u : u = [s EXCEPT !.mLogLock = TRUE, !.mLock = Nobody]
      OBVIOUS
    <2>2. u \in SegmentType /\ Alike(s, u) /\ u.mLock = Nobody
      BY <1>2, <2>1 DEF SegmentType, Alike
    <2>3. Ended(t, u, r)
      BY <1>5, <2>1, <2>2 DEF Ended, Put, Go, Hangs
    <2>4. QED
      BY <1>2, <1>5, <2>2, <2>3 DEF Unlock, Fault
  <1>6. CASE /\ past' = past \cup {"seek"} /\ Fault
             /\ Keep(t, [s EXCEPT !.mLogLock = TRUE]) /\ Hang(t)
    <2>1. PICK u : u = [[s EXCEPT !.mLogLock = TRUE] EXCEPT !.mLock = t]
      OBVIOUS
    <2>2. u \in SegmentType /\ Alike(s, u) /\ u.mLock = t
      BY <1>2, <2>1 DEF SegmentType, Alike
    <2>3. Ended(t, u, r)
      BY <1>6, <2>1, <2>2 DEF Ended, Put, Keep, Go, Hang, Hangs
    <2>4. QED
      BY <1>2, <1>6, <2>2, <2>3 DEF Unlock, Fault
  <1>7. CASE OpenRecurses(t) /\ Keep(t, [s EXCEPT !.mLogLock = TRUE]) /\ Hang(t) /\ UNCHANGED <<faults, past>>
    <2>1. PICK u : u = [[s EXCEPT !.mLogLock = TRUE] EXCEPT !.mLock = t]
      OBVIOUS
    <2>2. u \in SegmentType /\ Alike(s, u) /\ u.mLock = t
      BY <1>2, <2>1 DEF SegmentType, Alike
    <2>3. Ended(t, u, r)
      BY <1>7, <2>1, <2>2 DEF Ended, Put, Keep, Go, Hang
    <2>4. QED
      BY <1>2, <1>7, <2>2, <2>3 DEF Unlock
  <1>8. QED
    BY <1>3, <1>4, <1>5, <1>6, <1>7 DEF Unlock

(* The process of a thread that works in it: only its flag can have gone up. *)
LEMMA FlaggedTypes ==
    ASSUME TypeOK, NEW t \in Thread
    PROVE  /\ Flagged(t) \in ProcessType /\ ProcOf[t] \in Proc /\ st[ProcOf[t]] \in ProcessType
           /\ LET p == st[ProcOf[t]]
              IN  /\ p.gInsideHook => Flagged(t).gInsideHook
                  /\ Flagged(t).sOpened = p.sOpened /\ Flagged(t).gHookLoaded = p.gHookLoaded
                  /\ Flagged(t).gKey = p.gKey /\ Flagged(t).run = p.run
                  /\ Flagged(t).chunks = p.chunks /\ Flagged(t).socks = p.socks
  <1>1. ProcOf[t] \in Proc /\ st[ProcOf[t]] \in ProcessType
    BY ProcAssumption DEF TypeOK, ProcAssumption
  <1>2. PICK b \in BOOLEAN : b = (Me(t).gInsideHook \/ (thr'[t].pc = "hung" /\ ~S(t).mLogLock /\ OpenRecurses(t)))
    OBVIOUS
  <1>3. Flagged(t) = [st[ProcOf[t]] EXCEPT !.gInsideHook = b]
    BY <1>2 DEF Flagged, Me
  <1>4. QED
    BY <1>1, <1>2, <1>3 DEF ProcessType, Me

LEMMA UpdateTypes ==
    ASSUME TypeOK, NEW t \in Thread, NEW q \in ProcessType, Update(t, q), st[ProcOf[t]].gInsideHook => q.gInsideHook
    PROVE  /\ st' \in [Proc -> ProcessType] /\ st'[ProcOf[t]] = q
           /\ \A p \in Proc : p # ProcOf[t] => st'[p] = st[p]
           /\ \A u \in Thread : st[ProcOf[u]].gInsideHook => st'[ProcOf[u]].gInsideHook
  <1>1. st \in [Proc -> ProcessType] /\ \A u \in Thread : ProcOf[u] \in Proc
    BY ProcAssumption DEF TypeOK, ProcAssumption
  <1>2. st' = [st EXCEPT ![ProcOf[t]] = q]
    BY DEF Update
  <1>3. QED
    BY <1>1, <1>2

-----------------------------------------------------------------------------
(* A set of naturals has a least element. *)
LEMMA LeastOfSet ==
    ASSUME NEW T \in SUBSET Nat, T # {}
    PROVE  Min(T) \in T /\ \A y \in T : Min(T) <= y
  <1> DEFINE R == OpToRel(<, Nat)
  <1>1. IsWellFoundedOn(R, Nat)
    BY NatLessThanWellFounded
  <1>2. \A x, y \in Nat : y < x => <<y, x>> \in R
    BY DEF OpToRel
  <1> HIDE DEF R
  <1>3. PICK x \in T : \A y \in T : ~ (<<y, x>> \in R)
    BY <1>1, WFMin
  <1>4. x \in Nat /\ \A y \in T : y \in Nat
    OBVIOUS
  <1>5. \A y \in T : ~ (y < x)
    BY <1>2, <1>3, <1>4, Zenon
  <1>6. \A y \in T : x <= y
    BY <1>4, <1>5
  <1>7. QED
    BY <1>6 DEF Min

(* What is called. *)
CallsOf(t) == IF ProcOf[t] \in Server THEN ServerCall ELSE ToolCall

LEMMA PhaseTypes ==
    ASSUME NEW f \in Phases, NEW t \in Thread
    PROVE  /\ f[t] \in Seq(CallsOf(t))
           /\ f[t] # <<>> => [f EXCEPT ![t] = Tail(f[t])] \in Phases
  <1>1. f \in [Thread -> Seq(ServerCall \cup ToolCall)] /\ \A u \in Thread : f[u] \in Seq(CallsOf(u))
    BY DEF Phases, CallsOf
  <1>2. ASSUME f[t] # <<>>
        PROVE  [f EXCEPT ![t] = Tail(f[t])] \in Phases
    <2>1. PICK q : q = Tail(f[t])
      OBVIOUS
    <2>2. q \in Seq(CallsOf(t)) /\ q \in Seq(ServerCall \cup ToolCall)
      BY <1>1, <1>2, <2>1, HeadTailProperties
    <2>3. PICK g : g = [f EXCEPT ![t] = q]
      OBVIOUS
    <2>4. g \in [Thread -> Seq(ServerCall \cup ToolCall)] /\ \A u \in Thread : g[u] = IF u = t THEN q ELSE f[u]
      BY <1>1, <2>2, <2>3
    <2>5. \A u \in Thread : g[u] \in Seq(CallsOf(u))
      BY <1>1, <2>2, <2>4
    <2>6. QED
      BY <2>1, <2>3, <2>4, <2>5 DEF Phases, CallsOf
  <1>3. QED
    BY <1>1, <1>2

LEMMA CallTypes ==
    ASSUME TypeOK, NEW t \in Thread, NEW ops, Call(t, ops)
    PROVE  /\ plan' \in Seq(Phases) /\ thr[t].pc = "idle"
           /\ Asked(t) \in CallsOf(t) /\ Asked(t).op \in ops
           /\ UNCHANGED <<shared, faults, ghosts>>
  <1>1. plan \in Seq(Phases) /\ plan # <<>> /\ Len(plan) \in Nat /\ 1 \in 1 .. Len(plan) /\ Head(plan) = plan[1] /\ plan[1] \in Phases
    BY DEF TypeOK, Call
  <1>2. plan[1][t] \in Seq(CallsOf(t)) /\ plan[1][t] # <<>>
    BY <1>1, PhaseTypes DEF Call
  <1>3. PICK g \in Phases : g = [plan[1] EXCEPT ![t] = Tail(plan[1][t])]
    BY <1>1, <1>2, PhaseTypes
  <1>4. plan' = [plan EXCEPT ![1] = g]
    BY <1>1, <1>3 DEF Call
  <1>5. plan' \in Seq(Phases)
    BY <1>1, <1>3, <1>4
  <1>6. Asked(t) \in CallsOf(t)
    BY <1>1, <1>2, HeadTailProperties DEF Asked
  <1>7. QED
    BY <1>1, <1>5, <1>6 DEF Call, At, Asked

LEMMA ServersAsk ==
    ASSUME NEW t \in Thread, NEW c \in CallsOf(t)
    PROVE  /\ c.op \in {"pass", "done", "hooked", "close"} => ProcOf[t] \in Server
           /\ c.op = "pass" => c.point \in Point
           /\ c.op \in {"create", "destroy", "point", "log", "line", "real", "free"} => c \in ToolCall /\ ProcOf[t] \in Tool
  <1>1. ProcOf[t] \in Server \/ ProcOf[t] \in Tool
    BY ProcAssumption DEF ProcAssumption, Proc
  <1>2. CASE ProcOf[t] \in Server
    BY <1>2 DEF CallsOf, ServerCall
  <1>3. CASE ProcOf[t] \notin Server
    BY <1>1, <1>3 DEF CallsOf, ToolCall, PointCall, LogCall, RealCall
  <1>4. QED
    BY <1>2, <1>3

LEMMA OneCall ==
    /\ \A x \in Function : <<x>> \in OwnWork
    /\ \A x \in {"done", "clear", "addlog", "getdisk"} : Fn(x) \in Function
    /\ \A p \in Point : FnV("pass", p) \in Function
    /\ \A c \in PointCall : FnV("set", c) \in Function
    /\ \A c \in LogCall : FnV("getlogging", c) \in Function
    /\ \A v \in SUBSET Switches : FnV("enable", v) \in Function /\ FnV("setlogging", v) \in Function
    /\ \A v \in Nat : /\ FnV("setmemory", v) \in Function /\ FnV("wastedisk", v) \in Function
                      /\ FnV("setdisk", v) \in Function /\ FnV("setdesc", v) \in Function
  BY DEF OwnWork, Fn, FnV, Function

LEMMA FunctionsWork ==
    ASSUME NEW c \in ToolCall
    PROVE  Functions(c) \in OwnWork
  <1>1. <<>> \in OwnWork /\ \A v, w \in OwnWork : v \o w \in OwnWork
    BY DEF OwnWork
  <1>2. CASE c.op = "point"
    BY <1>2, OneCall DEF Functions, ToolCall, PointCall, LogCall, RealCall
  <1>3. CASE c.op = "log"
    BY <1>3, OneCall DEF Functions, ToolCall, PointCall, LogCall, RealCall
  <1>4. CASE c.op = "line"
    BY <1>4, OneCall DEF Functions
  <1>5. CASE c.op = "real"
    <2>1. c \in RealCall
      BY <1>5 DEF ToolCall, PointCall, LogCall
    <2>2. Real(c, "memory", "setmemory") \in OwnWork
      BY <1>1, <2>1, OneCall DEF Real, RealCall, Count
    <2>3. Real(c, "disk", "wastedisk") \in OwnWork
      BY <1>1, <2>1, OneCall DEF Real, RealCall, Count
    <2>4. Real(c, "desc", "setdesc") \in OwnWork
      BY <1>1, <2>1, OneCall DEF Real, RealCall, Count
    <2>5. <<Fn("getdisk")>> \in OwnWork
      BY OneCall
    <2>6. Functions(c) = <<Fn("getdisk")>> \o Real(c, "memory", "setmemory")
                           \o Real(c, "disk", "wastedisk") \o Real(c, "desc", "setdesc")
      BY <1>5 DEF Functions
    <2>7. QED
      BY <1>1, <2>2, <2>3, <2>4, <2>5, <2>6
  <1>6. CASE c.op = "free"
    <2>1. Fn("getdisk") \in Function /\ FnV("setmemory", 0) \in Function /\ FnV("setdisk", 0) \in Function
          /\ FnV("setdesc", 0) \in Function
      BY OneCall
    <2>2. Functions(c) = <<Fn("getdisk"), FnV("setmemory", 0), FnV("setdisk", 0), FnV("setdesc", 0)>>
      BY <1>6 DEF Functions
    <2>3. QED
      BY <2>1, <2>2 DEF OwnWork
  <1>7. CASE c.op \notin {"point", "log", "line", "real", "free"}
    BY <1>1, <1>7 DEF Functions
  <1>8. QED
    BY <1>2, <1>3, <1>4, <1>5, <1>6, <1>7

-----------------------------------------------------------------------------
(* The steps of a thread that leave the segments alone. *)
FlagsStay == \A u \in Thread : st[ProcOf[u]].gInsideHook => st'[ProcOf[u]].gInsideHook

LEMMA ThreadStays ==
    ASSUME Inv, NEW t \in Thread, NEW r, Placed(r, ProcOf[t], Len(seg)), thr' = [thr EXCEPT ![t] = r],
           r.pc \notin {"waste", "open"}, thr[t].pc \notin {"waste", "open", "hung"}, r.hook => thr[t].hook,
           UNCHANGED <<table, seg>>, n' \in [Thread -> Nat], faults' \in Nat,
           keyFile' \in Key \cup {0, None}, junk' \in Nat,
           plan' \in Seq(Phases), st' \in [Proc -> ProcessType], FlagsStay, past \subseteq past'
    PROVE  Shape'
  <1>1. TypeOK /\ LockInv /\ HooksUp
    BY DEF Inv, Shape
  <1>2. Threads' /\ LockInv'
    BY <1>1, ThreadKeeps
  <1>3. HooksUp'
    BY <1>1, HooksKeep DEF FlagsStay
  <1>4. TypeOK'
    BY <1>1, <1>2 DEF TypeOK, Threads
  <1>5. QED
    BY <1>2, <1>3, <1>4 DEF Inv, Shape

(* The state that most steps leave alone keeps its types. *)
LEMMA OldTypes ==
    Inv => /\ keyFile \in Key \cup {0, None} /\ junk \in Nat /\ plan \in Seq(Phases) /\ faults \in Nat
           /\ st \in [Proc -> ProcessType] /\ n \in [Thread -> Nat] /\ Len(seg) \in Nat
           /\ \A t \in Thread : thr[t] \in ThreadType /\ Placed(thr[t], ProcOf[t], Len(seg)) /\ ProcOf[t] \in Proc
  BY ProcAssumption DEF Inv, Shape, TypeOK, ProcAssumption

(* A thread that has been idle and begins. *)
Beginning(c, w) == [Idle EXCEPT !.pc = c, !.todo = w]

LEMMA Begins ==
    ASSUME NEW p, NEW L \in Nat, NEW c \in {"proceed", "destroy", "attach"}, NEW w \in OwnWork
    PROVE  Placed(Beginning(c, w), p, L) /\ Beginning(c, w).pc = c /\ ~Beginning(c, w).hook
  <1>1. Idle \in ThreadType /\ w \in Work /\ c \in Places
    BY IdlePlaced, Works DEF Places
  <1>2. Beginning(c, w) \in ThreadType
    BY <1>1, Moved DEF Beginning
  <1>3. Beginning(c, w).pc = c /\ Beginning(c, w).todo = w /\ ~Beginning(c, w).hook
    BY DEF Idle, Beginning
  <1>4. QED
    BY <1>2, <1>3 DEF Placed

LEMMA LimitPointKeeps == ASSUME Inv, NEW t \in Thread, LimitPoint(t) \/ LimitPointDone(t) PROVE Shape'
  <1>1. TypeOK
    BY DEF Inv, Shape
  <1>3. PICK w \in OwnWork : thr' = [thr EXCEPT ![t] = Beginning("proceed", w)]
    <2>1. CASE LimitPoint(t)
      <3>1. Asked(t).point \in Point
        BY <1>1, <2>1, CallTypes, ServersAsk DEF LimitPoint
      <3>2. QED
        BY <2>1, <3>1, OneCall DEF LimitPoint, Go, Beginning
    <2>2. CASE LimitPointDone(t)
      BY <2>2, OneCall DEF LimitPointDone, Go, Beginning
    <2>3. QED
      BY <2>1, <2>2
  <1>4. PICK q : q = Beginning("proceed", w)
    OBVIOUS
  <1>5. Placed(q, ProcOf[t], Len(seg)) /\ q.pc = "proceed" /\ ~q.hook
    BY <1>4, OldTypes, Begins
  <1>6. PICK ops : Call(t, ops) /\ st' = st
    BY DEF LimitPoint, LimitPointDone
  <1>7. plan' \in Seq(Phases) /\ thr[t].pc = "idle" /\ UNCHANGED <<shared, faults, ghosts>>
    BY <1>1, <1>6, CallTypes
  <1>8. QED
    BY <1>3, <1>4, <1>5, <1>6, <1>7, OldTypes, ThreadStays DEF FlagsStay, shared, ghosts

LEMMA HookKeeps == ASSUME Inv, NEW t \in Thread, Hook(t) PROVE Shape'
  <1>1. TypeOK
    BY DEF Inv, Shape
  <1>2. /\ plan' \in Seq(Phases) /\ thr[t].pc = "idle" /\ UNCHANGED <<shared, faults, ghosts>>
        /\ ProcOf[t] \in Server
    BY <1>1, CallTypes, ServersAsk DEF Hook
  <1>3. PICK w \in {<<>>, <<Fn("memory"), Fn("desc")>>} :
            thr' = [thr EXCEPT ![t] = IF Me(t).gInsideHook THEN Idle ELSE [Idle EXCEPT !.pc = "enter", !.todo = w]]
    BY DEF Hook, Go
  <1>4. w \in Work
    <2>1. Fn("memory") \in HookFunction /\ Fn("desc") \in HookFunction
      BY DEF Fn, HookFunction
    <2>2. \A x, y \in Function \cup HookFunction : <<x, y>> \in Seq(Function \cup HookFunction)
      OBVIOUS
    <2>3. <<Fn("memory"), Fn("desc")>> \in Work
      BY <2>1, <2>2 DEF Work
    <2>4. QED
      BY <2>3, Works
  <1>5. PICK q : q = IF Me(t).gInsideHook THEN Idle ELSE [Idle EXCEPT !.pc = "enter", !.todo = w]
    OBVIOUS
  <1>6. Placed(q, ProcOf[t], Len(seg)) /\ q.pc \in {"idle", "enter"} /\ ~q.hook
    <2>1. CASE Me(t).gInsideHook
      BY <1>5, <2>1, IdlePlaced, OldTypes
    <2>2. CASE ~Me(t).gInsideHook
      <3>1. q = [Idle EXCEPT !.pc = "enter", !.todo = w] /\ "enter" \in Places /\ Idle \in ThreadType
        BY <1>5, <2>2, IdlePlaced DEF Places
      <3>2. q \in ThreadType
        BY <1>4, <3>1, Moved
      <3>3. q.pc = "enter" /\ ~q.hook
        BY <3>1 DEF Idle
      <3>4. QED
        BY <1>2, <3>2, <3>3 DEF Placed
    <2>3. QED
      BY <2>1, <2>2
  <1>7. QED
    BY <1>2, <1>3, <1>5, <1>6, OldTypes, ThreadStays DEF FlagsStay, shared, ghosts, Hook

LEMMA EnterKeeps == ASSUME Inv, NEW t \in Thread, Enter(t) PROVE Shape'
  <1>1. TypeOK /\ LockInv /\ HooksUp /\ thr[t].pc = "enter"
    BY DEF Inv, Shape, Enter, EnterWith, At
  <1>2. PICK c \in Places : /\ c \in {"attach", "leave"}
                            /\ thr' = [thr EXCEPT ![t] = [thr[t] EXCEPT !.hook = TRUE, !.pc = c]]
    BY DEF Enter, EnterWith, Go, Places
  <1>3. Placed(thr[t], ProcOf[t], Len(seg)) /\ thr[t] \in ThreadType /\ thr \in [Thread -> ThreadType] /\ ProcOf[t] \in Proc
    BY OldTypes, <1>1 DEF TypeOK
  <1>4. PICK q \in ThreadType : q = [thr[t] EXCEPT !.hook = TRUE, !.pc = c]
    BY <1>3, Moved
  <1>5. q.pc = c /\ q.hook
    BY <1>3, <1>4 DEF ThreadType
  <1>6. Placed(q, ProcOf[t], Len(seg))
    BY <1>1, <1>2, <1>3, <1>5 DEF Placed
  <1>7. Threads' /\ LockInv'
    <2>1. seg' = seg /\ past \subseteq past'
      BY DEF Enter, EnterWith, shared
    <2>2. QED
      BY <1>1, <1>2, <1>4, <1>5, <1>6, <2>1, ThreadKeeps
  <1>8. st' = [st EXCEPT ![ProcOf[t]] = [st[ProcOf[t]] EXCEPT !.gInsideHook = TRUE]]
    BY DEF Enter, EnterWith
  <1>9. st' \in [Proc -> ProcessType] /\ st'[ProcOf[t]].gInsideHook /\ \A p \in Proc : p # ProcOf[t] => st'[p] = st[p]
    <2>1. st \in [Proc -> ProcessType] /\ ProcOf[t] \in Proc
      BY <1>1, OldTypes, ProcAssumption DEF TypeOK, ProcAssumption
    <2>2. \A p \in ProcessType : [p EXCEPT !.gInsideHook = TRUE] \in ProcessType /\ [p EXCEPT !.gInsideHook = TRUE].gInsideHook
      BY DEF ProcessType
    <2>3. PICK q2 \in ProcessType : q2 = [st[ProcOf[t]] EXCEPT !.gInsideHook = TRUE] /\ q2.gInsideHook
      BY <2>1, <2>2
    <2>4. QED
      BY <1>8, <2>1, <2>3
  <1>10. HooksUp'
    <2>1. SUFFICES ASSUME "hooks" \notin past', NEW u \in Thread, thr'[u].hook
                   PROVE  st'[ProcOf[u]].gInsideHook /\ \A v \in Fellows(u) : ~thr'[v].hook
      BY DEF HooksUp, Fellows
    <2>2. "hooks" \notin past /\ \A v \in Fellows(t) : ~thr[v].hook
      BY <2>1 DEF Enter, EnterWith
    <2>3. \A v \in Thread : v # t => thr'[v] = thr[v]
      BY <1>2, <1>3
    <2>4. CASE u = t
      BY <1>9, <2>2, <2>3, <2>4 DEF Fellows
    <2>5. CASE u # t
      <3>1. thr[u].hook /\ ProcOf[u] \in Proc
        BY <2>1, <2>3, <2>5, OldTypes
      <3>2. ProcOf[u] # ProcOf[t] /\ st[ProcOf[u]].gInsideHook /\ \A v \in Fellows(u) : ~thr[v].hook
        BY <1>1, <2>2, <2>5, <3>1 DEF HooksUp, Fellows
      <3>3. QED
        BY <1>9, <2>3, <3>1, <3>2 DEF Fellows
    <2>6. QED
      BY <2>4, <2>5
  <1>11. QED
    BY <1>7, <1>9, <1>10, OldTypes DEF Inv, Shape, TypeOK, Threads, Enter, EnterWith, shared

LEMMA LeaveKeeps == ASSUME Inv, NEW t \in Thread, Leave(t) PROVE Shape'
  <1>1. TypeOK /\ LockInv /\ HooksUp /\ thr[t].pc = "leave" /\ thr[t].hook /\ thr \in [Thread -> ThreadType] /\ ProcOf[t] \in Proc
    BY OldTypes DEF Inv, Shape, Leave, At, TypeOK, Placed
  <1>2. thr' = [thr EXCEPT ![t] = Idle] /\ Placed(Idle, ProcOf[t], Len(seg)) /\ Idle.pc = "idle" /\ ~Idle.hook
    BY IdlePlaced, OldTypes DEF Leave, Go
  <1>3. seg' = seg /\ past' = past
    BY DEF Leave, shared, ghosts
  <1>4. Threads' /\ LockInv'
    BY <1>1, <1>2, <1>3, ThreadKeeps
  <1>5. st' = [st EXCEPT ![ProcOf[t]] = [st[ProcOf[t]] EXCEPT !.gInsideHook = FALSE]]
    BY DEF Leave
  <1>6. st' \in [Proc -> ProcessType] /\ \A p \in Proc : p # ProcOf[t] => st'[p] = st[p]
    BY <1>1, <1>5 DEF TypeOK, ProcessType
  <1>7. HooksUp'
    <2>1. SUFFICES ASSUME "hooks" \notin past, NEW u \in Thread, thr'[u].hook
                   PROVE  st'[ProcOf[u]].gInsideHook /\ \A v \in Fellows(u) : ~thr'[v].hook
      BY <1>3 DEF HooksUp, Fellows
    <2>2. \A v \in Thread : thr'[v] = IF v = t THEN Idle ELSE thr[v]
      BY <1>1, <1>2
    <2>3. u # t /\ thr[u].hook /\ ProcOf[u] \in Proc
      BY <1>2, <2>1, <2>2, OldTypes
    <2>4. ProcOf[u] # ProcOf[t] /\ st[ProcOf[u]].gInsideHook /\ \A v \in Fellows(u) : ~thr[v].hook
      BY <1>1, <2>1, <2>3 DEF HooksUp, Fellows
    <2>5. QED
      BY <1>2, <1>6, <2>2, <2>3, <2>4 DEF Fellows
  <1>8. QED
    BY <1>4, <1>6, <1>7, OldTypes DEF Inv, Shape, TypeOK, Threads, Leave, shared, ghosts

LEMMA CommandKeeps == ASSUME Inv, NEW t \in Thread, Command(t) PROVE Shape'
  <1>1. TypeOK /\ LockInv /\ HooksUp
    BY DEF Inv, Shape
  <1>2. /\ plan' \in Seq(Phases) /\ thr[t].pc = "idle" /\ UNCHANGED <<shared, faults, ghosts>>
        /\ ProcOf[t] \in Tool /\ Asked(t) \in ToolCall
    BY <1>1, CallTypes, ServersAsk DEF Command
  <1>3. PICK c \in {"proceed", "destroy", "attach"}, w \in OwnWork : thr' = [thr EXCEPT ![t] = Beginning(c, w)]
    <2>1. FirstStep(Asked(t)) \in {"proceed", "destroy", "attach"}
      BY DEF FirstStep
    <2>2. Functions(Asked(t)) \in OwnWork
      BY <1>2, FunctionsWork
    <2>3. QED
      BY <2>1, <2>2 DEF Command, Go, Beginning
  <1>4. PICK q : q = Beginning(c, w)
    OBVIOUS
  <1>5. Placed(q, ProcOf[t], Len(seg)) /\ q.pc = c /\ ~q.hook
    BY <1>4, OldTypes, Begins
  <1>6. Threads' /\ LockInv'
    <2>1. seg' = seg /\ past' = past
      BY <1>2 DEF shared, ghosts
    <2>2. QED
      BY <1>1, <1>2, <1>3, <1>4, <1>5, <2>1, ThreadKeeps
  <1>7. NewProcess(1) \in ProcessType
    BY DEF NewProcess, ProcessType
  <1>8. st' \in [Proc -> ProcessType] /\ \A p \in Proc : p # ProcOf[t] => st'[p] = st[p]
    BY <1>7, OldTypes DEF Command
  <1>9. HooksUp'
    <2>1. SUFFICES ASSUME "hooks" \notin past, NEW u \in Thread, thr'[u].hook
                   PROVE  st'[ProcOf[u]].gInsideHook /\ \A v \in Fellows(u) : ~thr'[v].hook
      BY <1>2 DEF HooksUp, Fellows, ghosts
    <2>2. \A v \in Thread : thr'[v] = IF v = t THEN q ELSE thr[v]
      BY <1>1, <1>3, <1>4 DEF TypeOK
    <2>3. u # t /\ thr[u].hook /\ ProcOf[u] \in Proc
      BY <1>5, <2>1, <2>2, OldTypes
    <2>4. ProcOf[u] \in Server
      BY <2>3, OldTypes DEF Placed
    <2>5. ProcOf[u] # ProcOf[t]
      BY <1>2, <2>4, ProcAssumption DEF ProcAssumption
    <2>6. st[ProcOf[u]].gInsideHook /\ \A v \in Fellows(u) : ~thr[v].hook
      BY <1>1, <2>1, <2>3 DEF HooksUp
    <2>7. QED
      BY <1>5, <1>8, <2>2, <2>3, <2>5, <2>6 DEF Fellows
  <1>10. QED
    BY <1>2, <1>6, <1>8, <1>9, OldTypes DEF Inv, Shape, TypeOK, Threads, shared, ghosts

LEMMA KeyTypes ==
    ASSUME Inv, NEW p \in Proc
    PROVE  /\ KeySeen(p) \in Key \cup {0} /\ Segment(p) \in 0 .. Len(seg)
           /\ KeepKey(p) => st' \in [Proc -> ProcessType] /\ FlagsStay
  <1>1. st \in [Proc -> ProcessType] /\ st[p].gKey \in Key \cup {0} /\ table \in [Key -> 0 .. Len(seg)] /\ Len(seg) \in Nat
    BY OldTypes DEF Inv, Shape, TypeOK, ProcessType
  <1>2. KeySeen(p) \in Key \cup {0}
    BY <1>1 DEF KeySeen
  <1>3. Segment(p) \in 0 .. Len(seg)
    BY <1>1, <1>2 DEF Segment
  <1>4. ASSUME KeepKey(p)
        PROVE  st' \in [Proc -> ProcessType] /\ FlagsStay
    <2>1. st' = [st EXCEPT ![p] = [st[p] EXCEPT !.gKey = KeySeen(p)]]
      BY <1>4 DEF KeepKey
    <2>2. PICK q \in ProcessType : q = [st[p] EXCEPT !.gKey = KeySeen(p)] /\ q.gInsideHook = st[p].gInsideHook
      <3>1. \A r \in ProcessType, k \in Key \cup {0} :
               [r EXCEPT !.gKey = k] \in ProcessType /\ [r EXCEPT !.gKey = k].gInsideHook = r.gInsideHook
        BY DEF ProcessType
      <3>2. QED
        BY <1>1, <1>2, <3>1
    <2>3. QED
      BY <1>1, <2>1, <2>2, OldTypes DEF FlagsStay
  <1>5. QED
    BY <1>2, <1>3, <1>4

LEMMA ProceedKeeps == ASSUME Inv, NEW t \in Thread, IsProceeding(t) PROVE Shape'
  <1>1. TypeOK /\ thr[t].pc = "proceed" /\ ProcOf[t] \in Proc /\ thr[t] \in ThreadType
        /\ Placed(thr[t], ProcOf[t], Len(seg)) /\ Len(seg) \in Nat
    BY OldTypes DEF Inv, Shape, IsProceeding, At
  <1>2. PICK o \in BOOLEAN :
          /\ st' = [st EXCEPT ![ProcOf[t]].gKey = KeySeen(ProcOf[t]), ![ProcOf[t]].sOpened = o]
          /\ past \subseteq past' /\ faults' \in {faults, faults + 1}
    <2>1. Me(t).sOpened \in BOOLEAN
      BY <1>1, OldTypes DEF Me, ProcessType
    <2>2. QED
      BY <2>1 DEF IsProceeding, Fault
  <1>7. st' \in [Proc -> ProcessType] /\ FlagsStay
    <2>1. st' = [st EXCEPT ![ProcOf[t]] = [[st[ProcOf[t]] EXCEPT !.gKey = KeySeen(ProcOf[t])] EXCEPT !.sOpened = o]]
      BY <1>1, <1>2, OldTypes
    <2>2. \A r \in ProcessType, k \in Key \cup {0} :
             /\ [[r EXCEPT !.gKey = k] EXCEPT !.sOpened = o] \in ProcessType
             /\ [[r EXCEPT !.gKey = k] EXCEPT !.sOpened = o].gInsideHook = r.gInsideHook
      BY DEF ProcessType
    <2>3. PICK q \in ProcessType : /\ q = [[st[ProcOf[t]] EXCEPT !.gKey = KeySeen(ProcOf[t])] EXCEPT !.sOpened = o]
                                   /\ q.gInsideHook = st[ProcOf[t]].gInsideHook
      BY <1>1, <2>2, KeyTypes, OldTypes
    <2>4. QED
      BY <1>1, <2>1, <2>3, OldTypes DEF FlagsStay
  <1>3. UNCHANGED <<keyFile, table, seg, junk, plan, n>> /\ past \subseteq past' /\ faults' \in Nat
    BY <1>2, OldTypes DEF IsProceeding, shared
  <1>4. PICK r : /\ thr' = [thr EXCEPT ![t] = r]
                 /\ r \in {Idle, [thr[t] EXCEPT !.pc = "attach"], [thr[t] EXCEPT !.pc = "create"]}
    BY DEF IsProceeding, Go
  <1>5. Placed(r, ProcOf[t], Len(seg)) /\ r.pc \in {"idle", "attach", "create"} /\ (r.hook => thr[t].hook)
    <2>1. CASE r = Idle
      BY <1>1, <2>1, IdlePlaced
    <2>2. ASSUME NEW c \in {"attach", "create"}, r = [thr[t] EXCEPT !.pc = c]
          PROVE  Placed(r, ProcOf[t], Len(seg)) /\ r.pc = c /\ (r.hook => thr[t].hook)
      <3>1. r \in ThreadType
        BY <1>1, <2>2, Moved DEF Places
      <3>2. r.pc = c /\ r.hook = thr[t].hook /\ r.todo = thr[t].todo
        BY <1>1, <2>2 DEF ThreadType
      <3>3. QED
        BY <1>1, <2>2, <3>1, <3>2 DEF Placed
    <2>3. QED
      BY <1>4, <2>1, <2>2
  <1>6. QED
    BY <1>1, <1>3, <1>4, <1>5, <1>7, OldTypes, ThreadStays

(* A thread that only goes to another place in the same function. *)
LEMMA PlaceOnly ==
    ASSUME Inv, NEW t \in Thread, thr[t].pc \notin {"waste", "open", "hung", "enter"},
           NEW c \in {"attach", "write", "setkey", "remove"}, c \in {"write", "setkey"} => thr[t].local \in Key
    PROVE  /\ Placed([thr[t] EXCEPT !.pc = c], ProcOf[t], Len(seg))
           /\ [thr[t] EXCEPT !.pc = c].pc = c /\ [thr[t] EXCEPT !.pc = c].hook = thr[t].hook
  <1>1. thr[t] \in ThreadType /\ Placed(thr[t], ProcOf[t], Len(seg)) /\ c \in Places
    BY OldTypes DEF Places
  <1>2. PICK r \in ThreadType : r = [thr[t] EXCEPT !.pc = c]
    BY <1>1, Moved
  <1>3. r.pc = c /\ r.hook = thr[t].hook /\ r.todo = thr[t].todo /\ r.local = thr[t].local
    BY <1>1, <1>2 DEF ThreadType
  <1>4. Placed(r, ProcOf[t], Len(seg))
    BY <1>1, <1>2, <1>3 DEF Placed
  <1>5. QED
    BY <1>2, <1>3, <1>4

LEMMA KeyFileKeeps ==
    ASSUME Inv, NEW t \in Thread, Truncate(t) \/ WriteKey(t) \/ Destroy(t) \/ RemoveKeyFile(t)
    PROVE  Shape'
  <1>1. thr[t] \in ThreadType /\ Placed(thr[t], ProcOf[t], Len(seg)) /\ Len(seg) \in Nat
    BY OldTypes
  <1>2. ASSUME Truncate(t)
        PROVE  Shape'
    <2>1. thr[t].pc = "truncate" /\ thr[t].local \in Key /\ thr' = [thr EXCEPT ![t] = [thr[t] EXCEPT !.pc = "write"]]
      BY <1>1, <1>2 DEF Truncate, At, Go, Placed
    <2>2. PICK r : r = [thr[t] EXCEPT !.pc = "write"]
      OBVIOUS
    <2>3. Placed(r, ProcOf[t], Len(seg)) /\ r.pc = "write" /\ r.hook = thr[t].hook
      BY <2>1, <2>2, PlaceOnly
    <2>4. UNCHANGED <<table, seg, junk, st, plan, faults, n, past>> /\ keyFile' = 0
      BY <1>2 DEF Truncate, ghosts
    <2>5. QED
      BY <2>1, <2>2, <2>3, <2>4, OldTypes, ThreadStays DEF FlagsStay
  <1>3. ASSUME WriteKey(t)
        PROVE  Shape'
    <2>1. thr[t].pc = "write" /\ thr[t].local \in Key /\ thr' = [thr EXCEPT ![t] = [thr[t] EXCEPT !.pc = "setkey"]]
      BY <1>1, <1>3 DEF WriteKey, At, Go, Placed
    <2>2. PICK r : r = [thr[t] EXCEPT !.pc = "setkey"]
      OBVIOUS
    <2>3. Placed(r, ProcOf[t], Len(seg)) /\ r.pc = "setkey" /\ r.hook = thr[t].hook
      BY <2>1, <2>2, PlaceOnly
    <2>4. UNCHANGED <<table, seg, junk, st, plan, faults, n, past>> /\ keyFile' \in Key
      BY <1>3, <2>1 DEF WriteKey, ghosts
    <2>5. QED
      BY <2>1, <2>2, <2>3, <2>4, OldTypes, ThreadStays DEF FlagsStay
  <1>4. ASSUME RemoveKeyFile(t)
        PROVE  Shape'
    <2>1. thr[t].pc = "remove" /\ thr' = [thr EXCEPT ![t] = Idle] /\ keyFile' = None
          /\ UNCHANGED <<table, seg, junk, st, plan, faults, n, past>>
      BY <1>4 DEF RemoveKeyFile, At, Go, ghosts
    <2>2. QED
      BY <1>1, <2>1, IdlePlaced, OldTypes, ThreadStays DEF FlagsStay
  <1>5. ASSUME Destroy(t)
        PROVE  Shape'
    <2>1. thr[t].pc = "destroy" /\ thr' = [thr EXCEPT ![t] = [thr[t] EXCEPT !.pc = "remove"]]
      BY <1>5 DEF Destroy, At, Go
    <2>2. PICK r : r = [thr[t] EXCEPT !.pc = "remove"]
      OBVIOUS
    <2>3. Placed(r, ProcOf[t], Len(seg)) /\ r.pc = "remove" /\ r.hook = thr[t].hook
      BY <2>1, <2>2, PlaceOnly
    <2>4. UNCHANGED <<keyFile, seg, junk, st, plan, faults, n>> /\ past \subseteq past' /\ table' \in [Key -> 0 .. Len(seg)]
      <3>1. table \in [Key -> 0 .. Len(seg)]
        BY DEF Inv, Shape, TypeOK
      <3>2. table' = table \/ table' = [table EXCEPT ![keyFile] = 0]
        BY <1>5 DEF Destroy
      <3>3. 0 \in 0 .. Len(seg)
        BY <1>1
      <3>4. table' \in [Key -> 0 .. Len(seg)]
        BY <3>1, <3>2, <3>3
      <3>5. QED
        BY <1>5, <3>4 DEF Destroy
    <2>5. TypeOK /\ LockInv /\ HooksUp
      BY DEF Inv, Shape
    <2>6. Threads' /\ LockInv'
      BY <2>1, <2>2, <2>3, <2>4, <2>5, ThreadKeeps
    <2>7. HooksUp'
      BY <2>1, <2>2, <2>3, <2>4, <2>5, HooksKeep
    <2>8. QED
      BY <2>4, <2>5, <2>6, <2>7, OldTypes DEF Inv, Shape, TypeOK, Threads
  <1>6. QED
    BY <1>2, <1>3, <1>4, <1>5

(* What a thread calls that is in no hook. *)
LEMMA HeadTypes ==
    ASSUME Inv, NEW t \in Thread, thr[t].pc # "enter", NEW names, Calling(t, names),
           names \cap {"memory", "desc"} = {}
    PROVE  /\ F(t) \in Function /\ F(t).fn \in names /\ thr[t].todo # <<>>
           /\ F(t).fn = "pass" => F(t).v \in Point
           /\ F(t).fn = "set" => F(t).v \in PointCall
           /\ F(t).fn = "getlogging" => F(t).v \in LogCall
           /\ F(t).fn \in {"enable", "setlogging"} => F(t).v \in SUBSET Switches
           /\ F(t).fn \in {"setmemory", "wastedisk", "setdisk", "setdesc"} => F(t).v \in Nat
  <1>1. thr[t].todo \in Work /\ thr[t].todo # <<>>
    BY OldTypes DEF ThreadType, Calling
  <1>2. F(t) \in Function \cup HookFunction /\ F(t).fn \in names
    BY <1>1, Works DEF F, Calling
  <1>3. F(t) \in Function
    BY <1>2 DEF HookFunction
  <1>4. QED
    BY <1>1, <1>2, <1>3 DEF Function

LEMMA WasteDiskKeeps == ASSUME Inv, NEW t \in Thread, WasteDisk(t) PROVE Shape'
  <1>1. thr[t] \in ThreadType /\ Placed(thr[t], ProcOf[t], Len(seg)) /\ thr[t].pc = "attach" /\ junk \in Nat
    BY OldTypes DEF WasteDisk, At
  <1>2. F(t).fn = "wastedisk" /\ F(t).v \in Nat /\ thr[t].todo # <<>>
    BY <1>1, HeadTypes DEF WasteDisk, Calling
  <1>3. junk' \in Nat
    <2>1. PICK a \in Nat, b \in Nat : a = F(t).v /\ b = IF F(t).v <= junk THEN junk ELSE DiskMax
      BY <1>1, <1>2, BoundsAssumption DEF BoundsAssumption
    <2>2. junk' = Min({a, b})
      BY <2>1 DEF WasteDisk
    <2>3. QED
      BY <2>2, LeastOfSet
  <1>4. PICK x \in Function : x = FnV("setdisk", junk')
    BY <1>3, OneCall
  <1>5. PICK w : w = <<x>> \o Tail(thr[t].todo)
    OBVIOUS
  <1>6. w \in Work
    BY <1>1, <1>2, <1>5, Works DEF ThreadType, Work
  <1>7. ~thr[t].hook => w \in OwnWork
    BY <1>1, <1>2, <1>5, Works DEF Placed, OwnWork
  <1>8. PICK r \in ThreadType : r = [thr[t] EXCEPT !.todo = w]
    BY <1>1, <1>6, Moved DEF Places
  <1>9. r.pc = "attach" /\ r.hook = thr[t].hook /\ r.todo = w
    BY <1>1, <1>8 DEF ThreadType
  <1>10. Placed(r, ProcOf[t], Len(seg))
    BY <1>1, <1>7, <1>8, <1>9 DEF Placed
  <1>11. thr' = [thr EXCEPT ![t] = r] /\ UNCHANGED <<keyFile, table, seg, st, plan, faults, n, past>>
    BY <1>4, <1>5, <1>8 DEF WasteDisk, Go, ghosts
  <1>12. QED
    BY <1>1, <1>3, <1>9, <1>10, <1>11, OldTypes, ThreadStays DEF FlagsStay

LEMMA AttachKeeps == ASSUME Inv, NEW t \in Thread, Attach(t) PROVE Shape'
  <1>1. /\ TypeOK /\ thr[t].pc = "attach" /\ ProcOf[t] \in Proc /\ thr[t] \in ThreadType
        /\ Placed(thr[t], ProcOf[t], Len(seg)) /\ Len(seg) \in Nat
    BY OldTypes DEF Inv, Shape, Attach, At
  <1>2. st' \in [Proc -> ProcessType] /\ FlagsStay
    BY <1>1, KeyTypes DEF Attach
  <1>3. UNCHANGED <<keyFile, table, seg, junk, plan, faults, n, past>>
    BY DEF Attach, shared, ghosts
  <1>4. PICK r : /\ thr' = [thr EXCEPT ![t] = r]
                 /\ r = IF Segment(ProcOf[t]) = 0 THEN Failed(t)
                        ELSE [thr[t] EXCEPT !.pc = "lock", !.at = Segment(ProcOf[t])]
    BY DEF Attach, Go
  <1>5. Placed(r, ProcOf[t], Len(seg)) /\ r.pc \in {"idle", "attach", "leave", "lock"} /\ (r.hook => thr[t].hook)
    <2>1. CASE Segment(ProcOf[t]) = 0
      BY <1>1, <1>4, <2>1, ReturnPlaced DEF Back
    <2>2. CASE Segment(ProcOf[t]) # 0
      <3>1. Segment(ProcOf[t]) \in 1 .. Len(seg)
        BY <1>1, <2>2, KeyTypes
      <3>2. r = [thr[t] EXCEPT !.pc = "lock", !.at = Segment(ProcOf[t])]
        BY <1>4, <2>2
      <3>3. r \in ThreadType
        <4>1. "lock" \in Places /\ Segment(ProcOf[t]) \in Nat
          BY <1>1, <3>1 DEF Places
        <4>2. QED
          BY <1>1, <3>2, <4>1, Moved
      <3>4. r.pc = "lock" /\ r.hook = thr[t].hook /\ r.todo = thr[t].todo /\ r.at \in 1 .. Len(seg)
        BY <1>1, <3>1, <3>2 DEF ThreadType
      <3>5. QED
        BY <1>1, <3>3, <3>4 DEF Placed
    <2>3. QED
      BY <2>1, <2>2
  <1>6. QED
    BY <1>1, <1>2, <1>3, <1>4, <1>5, OldTypes, ThreadStays

LEMMA SetKeyKeeps == ASSUME Inv, NEW t \in Thread, SetKey(t) PROVE Shape'
  <1>1. /\ thr[t].pc = "setkey" /\ ProcOf[t] \in Proc /\ thr[t] \in ThreadType
        /\ Placed(thr[t], ProcOf[t], Len(seg)) /\ Len(seg) \in Nat /\ thr[t].local \in Key
        /\ st \in [Proc -> ProcessType]
    BY OldTypes DEF SetKey, At, Placed
  <1>2. st' \in [Proc -> ProcessType] /\ FlagsStay
    <2>1. st' = [st EXCEPT ![ProcOf[t]] = [st[ProcOf[t]] EXCEPT !.gKey = thr[t].local]]
      BY DEF SetKey
    <2>2. \A r \in ProcessType, k \in Key \cup {0} :
             [r EXCEPT !.gKey = k] \in ProcessType /\ [r EXCEPT !.gKey = k].gInsideHook = r.gInsideHook
      BY DEF ProcessType
    <2>3. PICK q \in ProcessType : q = [st[ProcOf[t]] EXCEPT !.gKey = thr[t].local] /\ q.gInsideHook = st[ProcOf[t]].gInsideHook
      BY <1>1, <2>2
    <2>4. QED
      BY <1>1, <2>1, <2>3, OldTypes DEF FlagsStay
  <1>3. UNCHANGED <<keyFile, table, seg, junk, plan, faults, n, past>>
    BY DEF SetKey, shared, ghosts
  <1>4. PICK r : thr' = [thr EXCEPT ![t] = r] /\ r \in {Idle, [thr[t] EXCEPT !.pc = "attach", !.local = 0]}
    BY DEF SetKey, Go
  <1>5. Placed(r, ProcOf[t], Len(seg)) /\ r.pc \in {"idle", "attach"} /\ (r.hook => thr[t].hook)
    <2>1. CASE r = Idle
      BY <1>1, <2>1, IdlePlaced
    <2>2. CASE r = [thr[t] EXCEPT !.pc = "attach", !.local = 0]
      <3>1. r \in ThreadType
        BY <1>1, <2>2, Moved DEF Places
      <3>2. r.pc = "attach" /\ r.hook = thr[t].hook /\ r.todo = thr[t].todo
        BY <1>1, <2>2 DEF ThreadType
      <3>3. QED
        BY <1>1, <3>1, <3>2 DEF Placed
    <2>3. QED
      BY <1>4, <2>1, <2>2
  <1>6. QED
    BY <1>1, <1>2, <1>3, <1>4, <1>5, OldTypes, ThreadStays

LEMMA CreateKeeps == ASSUME Inv, NEW t \in Thread, Create(t) PROVE Shape'
  <1>1. /\ TypeOK /\ LockInv /\ HooksUp /\ thr[t].pc = "create" /\ thr[t] \in ThreadType
        /\ thr \in [Thread -> ThreadType] /\ Placed(thr[t], ProcOf[t], Len(seg)) /\ Len(seg) \in Nat
    BY OldTypes DEF Create, At, Inv, Shape, TypeOK
  <1>2. seg' \in Seq(SegmentType) /\ Len(seg') = Len(seg) + 1 /\ seg'[Len(seg) + 1] = NewSegment
        /\ \A i \in 1 .. Len(seg) : seg'[i] = seg[i]
    <2>1. seg' = Append(seg, NewSegment)
      BY DEF Create
    <2>2. QED
      BY <1>1, <2>1, NewSegmentType, AppendProperties DEF TypeOK
  <1>3. PICK k \in Key : /\ table' = [table EXCEPT ![k] = Len(seg) + 1]
                         /\ thr' \in {[thr EXCEPT ![t] = Idle], [thr EXCEPT ![t] = [thr[t] EXCEPT !.pc = "truncate", !.local = k]]}
    <2>1. FreeKeys(ProcOf[t]) # {} /\ FreeKeys(ProcOf[t]) \subseteq Key /\ Key \subseteq Nat
      BY ProcAssumption DEF Create, FreeKeys, ProcAssumption
    <2>2. Min(FreeKeys(ProcOf[t])) \in FreeKeys(ProcOf[t])
      BY <2>1, LeastOfSet
    <2>3. QED
      BY <2>1, <2>2 DEF Create, Go
  <1>4. PICK r : /\ thr' = [thr EXCEPT ![t] = r]
                 /\ r \in {Idle, [thr[t] EXCEPT !.pc = "truncate", !.local = k]}
    BY <1>3
  <1>5. Placed(r, ProcOf[t], Len(seg)) /\ r.pc \in {"idle", "truncate"} /\ (r.hook => thr[t].hook) /\ r \in ThreadType
    <2>1. CASE r = Idle
      BY <1>1, <2>1, IdlePlaced
    <2>2. CASE r = [thr[t] EXCEPT !.pc = "truncate", !.local = k]
      <3>1. k \in Nat /\ "truncate" \in Places
        BY ProcAssumption DEF ProcAssumption, Places
      <3>2. r \in ThreadType
        BY <1>1, <2>2, <3>1, Moved
      <3>3. r.pc = "truncate" /\ r.hook = thr[t].hook /\ r.todo = thr[t].todo /\ r.local = k
        BY <1>1, <2>2 DEF ThreadType
      <3>4. QED
        BY <1>1, <3>2, <3>3 DEF Placed
    <2>3. QED
      BY <1>4, <2>1, <2>2
  <1>6. \A u \in Thread : thr'[u] = IF u = t THEN r ELSE thr[u]
    BY <1>1, <1>4
  <1>7. past \subseteq past' /\ faults' \in Nat /\ UNCHANGED <<keyFile, junk, plan, n>>
    BY OldTypes DEF Create, Fault
  <1>15. st' \in [Proc -> ProcessType] /\ FlagsStay
    <2>1. st \in [Proc -> ProcessType] /\ ProcOf[t] \in Proc
      BY OldTypes
    <2>2. st' = st \/ st' = [st EXCEPT ![ProcOf[t]] = [st[ProcOf[t]] EXCEPT !.sOpened = TRUE]]
      BY DEF Create
    <2>3. PICK q \in ProcessType : q = [st[ProcOf[t]] EXCEPT !.sOpened = TRUE] /\ q.gInsideHook = st[ProcOf[t]].gInsideHook
      <3>1. \A a \in ProcessType : [a EXCEPT !.sOpened = TRUE] \in ProcessType /\ [a EXCEPT !.sOpened = TRUE].gInsideHook = a.gInsideHook
        BY DEF ProcessType
      <3>2. QED
        BY <2>1, <3>1
    <2>4. QED
      BY <2>1, <2>2, <2>3, OldTypes DEF FlagsStay
  <1>8. Threads'
    BY <1>1, <1>2, <1>4, <1>5, <1>6 DEF Threads, TypeOK, Placed
  <1>9. table' \in [Key -> 0 .. Len(seg')]
    BY <1>1, <1>2, <1>3 DEF TypeOK
  <1>10. NewSegment.mLock = Nobody /\ ~NewSegment.mLogLock
    BY DEF NewSegment
  <1>11. LogFree' /\ WasterHolds'
    <2>1. LogFree'
      BY <1>1, <1>2, <1>7, <1>10 DEF LockInv, LogFree
    <2>2. \A u \in Thread : thr[u].pc \in {"waste", "open"} => thr[u].at \in 1 .. Len(seg)
      BY <1>1 DEF TypeOK, Placed
    <2>3. WasterHolds'
      BY <1>1, <1>2, <1>5, <1>6, <2>2 DEF LockInv, WasterHolds
    <2>4. QED
      BY <2>1, <2>3
  <1>12. LockReleased'
    <2>1. SUFFICES ASSUME NEW i \in 1 .. Len(seg) + 1
                   PROVE  /\ seg'[i].mLock = Dead => "died" \in past'
                          /\ seg'[i].mLock \in Thread =>
                               LET h == thr'[seg'[i].mLock]
                               IN  h.at = i /\ (h.pc \in {"waste", "open"} \/ (h.pc = "hung" /\ past' \cap Hangs # {}))
      BY <1>2 DEF LockReleased
    <2>2. CASE i = Len(seg) + 1
      <3>1. seg'[i].mLock = Nobody /\ Nobody \notin Thread /\ Nobody # Dead
        BY <1>2, <1>10, <2>2, NamesAssumption DEF NamesAssumption, Nobody, Dead
      <3>2. QED
        BY <3>1
    <2>3. CASE i # Len(seg) + 1
      <3>1. i \in 1 .. Len(seg) /\ DOMAIN seg = 1 .. Len(seg) /\ seg'[i] = seg[i]
        BY <1>1, <1>2, <2>3 DEF TypeOK
      <3>2. QED
        BY <1>1, <1>6, <1>7, <3>1 DEF LockReleased, LockInv
    <2>4. QED
      BY <2>2, <2>3
  <1>13. HooksUp'
    BY <1>1, <1>4, <1>5, <1>7, <1>15, HooksKeep DEF FlagsStay
  <1>14. QED
    BY <1>2, <1>7, <1>8, <1>9, <1>11, <1>12, <1>13, <1>15, OldTypes DEF Inv, Shape, LockInv, TypeOK, Threads
-----------------------------------------------------------------------------
(* The functions that work under the lock. *)
LEMMA EndInv ==
    ASSUME Inv, NEW t \in Thread, NEW s, NEW r, Placed(r, ProcOf[t], Len(seg)), r.hook => thr[t].hook,
           r.pc \notin {"waste", "open"}, Ended(t, s, r),
           thr[t].pc \in {"lock", "waste", "open"}, S(t).mLock \in {Nobody, t},
           UNCHANGED <<keyFile, table, junk, plan>>, faults' \in Nat, n' \in [Thread -> Nat],
           st' \in [Proc -> ProcessType], FlagsStay
    PROVE  Shape'
  <1>1. TypeOK /\ LockInv /\ HooksUp /\ thr[t] \in ThreadType
    BY OldTypes DEF Inv, Shape
  <1>2. seg' \in Seq(SegmentType) /\ Len(seg') = Len(seg) /\ Threads' /\ LockInv'
    BY <1>1, EndKeeps
  <1>3. past \subseteq past'
    BY DEF Ended
  <1>4. PICK q : thr' = [thr EXCEPT ![t] = q] /\ (q.hook => thr[t].hook)
    <2>1. [thr[t] EXCEPT !.pc = "hung"].hook = thr[t].hook
      BY <1>1 DEF ThreadType
    <2>2. QED
      BY <2>1 DEF Ended
  <1>5. HooksUp'
    BY <1>1, <1>3, <1>4, HooksKeep DEF FlagsStay
  <1>6. QED
    BY <1>1, <1>2, <1>5, OldTypes DEF Inv, Shape, TypeOK, Threads

(* A thread at the lock of a segment, and where it goes from there. *)
LEMMA AtLock ==
    ASSUME Inv, NEW t \in Thread, thr[t].pc \in {"lock", "waste", "open"}
    PROVE  /\ S(t) \in SegmentType /\ thr[t].at \in 1 .. Len(seg)
           /\ Placed(Returned(t), ProcOf[t], Len(seg)) /\ Back(Returned(t), thr[t])
           /\ Placed(Failed(t), ProcOf[t], Len(seg)) /\ Back(Failed(t), thr[t])
           /\ thr[t].pc # "lock" => S(t).mLock = t
           /\ OpenRecurses(t) => past \cap Hangs # {}
  <1>1. OpenRecurses(t) => past \cap Hangs # {}
    BY DEF Inv, Tries, Tried, AtRest, OpenRecurses, Recurses, Me, Hangs
  <1>2. QED
    BY <1>1, ReturnPlaced, OldTypes DEF Inv, Shape, TypeOK, Placed, S, LockInv, WasterHolds

LEMMA UnlockInv ==
    ASSUME Inv, NEW t \in Thread, NEW s \in SegmentType, s.mLogLock = S(t).mLogLock, NEW lines, NEW r,
           Placed(r, ProcOf[t], Len(seg)), Back(r, thr[t]), Unlock(t, s, lines, r),
           thr[t].pc \in {"lock", "waste", "open"}, S(t).mLock \in {Nobody, t},
           n' \in [Thread -> Nat], st' \in [Proc -> ProcessType], FlagsStay
    PROVE  Shape'
  <1>1. TypeOK /\ LockInv /\ thr[t].at \in 1 .. Len(seg)
    BY OldTypes DEF Inv, Shape, Placed
  <1>2. PICK u : Ended(t, u, r)
    BY <1>1, AtLock, UnlockEnds
  <1>3. faults' \in Nat /\ UNCHANGED <<keyFile, table, junk, plan>>
    BY <1>1, AtLock, UnlockEnds
  <1>4. QED
    BY <1>2, <1>3, EndInv DEF Back

LEMMA LogLockKept ==
    ASSUME NEW s \in SegmentType, NEW t \in Thread
    PROVE  /\ PointClear(s).mLogLock = s.mLogLock
           /\ \A v : PointSet(s, v).mLogLock = s.mLogLock
           /\ \A p, i : Passed(s, t, p, i).mLogLock = s.mLogLock
           /\ \A i : Released(s, i).mLogLock = s.mLogLock /\ Released(s, i).mLock = s.mLock
  BY DEF SegmentType, PointClear, PointSet, Passed, Released

LEMMA PointPassKeeps == ASSUME Inv, NEW t \in Thread, PointPass(t) PROVE Shape'
  <1>1. thr[t].pc = "lock" /\ S(t).mLock = Nobody /\ F(t).v \in Point /\ ProcOf[t] \in Proc /\ st \in [Proc -> ProcessType]
        /\ n \in [Thread -> Nat]
    <2>1. thr[t].pc = "lock" /\ S(t).mLock = Nobody /\ Calling(t, {"pass"})
      BY DEF PointPass, Locks, At
    <2>2. F(t).fn = "pass"
      BY <2>1 DEF Calling
    <2>3. QED
      BY <2>1, <2>2, HeadTypes, OldTypes
  <1>2. PICK s \in SegmentType, p \in Point : s = S(t) /\ p = F(t).v
    BY <1>1, AtLock
  <1>6. TypeOK
    BY DEF Inv, Shape
  <1>3. CASE Unlock(t, s, IF Writes(s, "pass") THEN 1 ELSE 0, Failed(t)) /\ Update(t, Flagged(t)) /\ n' = n
    <2>1. st' \in [Proc -> ProcessType] /\ FlagsStay
      BY <1>3, <1>6, FlaggedTypes, UpdateTypes DEF FlagsStay
    <2>2. QED
      BY <1>1, <1>2, <1>3, <2>1, AtLock, OldTypes, UnlockInv
  <1>4. ASSUME NEW i \in MySlots(s, t),
               Unlock(t, Passed(s, t, p, i), PassLines(s, p, i), Returned(t)),
               Update(t, [Flagged(t) EXCEPT !.gHookLoaded = (thr'[t].pc # "hung") \/ @]),
               n' = [n EXCEPT ![t] = IF Activates(s, p, i) THEN 0 ELSE @ + 1] \/ n' = n
        PROVE  Shape'
    <2>1. i \in Slot
      BY DEF MySlots
    <2>2. Passed(s, t, p, i) \in SegmentType /\ Passed(s, t, p, i).mLogLock = S(t).mLogLock
      BY <1>2, <2>1, SegmentTypes, LogLockKept
    <2>3. n' \in [Thread -> Nat]
      BY <1>1, <1>4
    <2>4. st' \in [Proc -> ProcessType] /\ FlagsStay
      <3>1. PICK b \in BOOLEAN : b = ((thr'[t].pc # "hung") \/ Flagged(t).gHookLoaded)
        OBVIOUS
      <3>2. \A r \in ProcessType : [r EXCEPT !.gHookLoaded = b] \in ProcessType /\ [r EXCEPT !.gHookLoaded = b].gInsideHook = r.gInsideHook
        BY DEF ProcessType
      <3>3. PICK q \in ProcessType : q = [Flagged(t) EXCEPT !.gHookLoaded = b] /\ q.gInsideHook = Flagged(t).gInsideHook
        BY <1>6, <3>2, FlaggedTypes
      <3>4. Update(t, q)
        BY <1>4, <3>1, <3>3
      <3>5. QED
        BY <1>6, <3>3, <3>4, FlaggedTypes, UpdateTypes DEF FlagsStay
    <2>5. QED
      BY <1>1, <1>4, <2>2, <2>3, <2>4, AtLock, UnlockInv
  <1>5. QED
    BY <1>2, <1>3, <1>4 DEF PointPass

LEMMA HangsInHookTypes ==
    ASSUME Inv, NEW t \in Thread, HangsInHook(t)
    PROVE  st' \in [Proc -> ProcessType] /\ FlagsStay
  <1>1. TypeOK /\ st[ProcOf[t]] \in ProcessType
    BY OldTypes DEF Inv, Shape
  <1>2. PICK q \in ProcessType : q = [st[ProcOf[t]] EXCEPT !.gInsideHook = TRUE] /\ q.gInsideHook
    <2>1. \A r \in ProcessType : [r EXCEPT !.gInsideHook = TRUE] \in ProcessType /\ [r EXCEPT !.gInsideHook = TRUE].gInsideHook
      BY DEF ProcessType
    <2>2. QED
      BY <1>1, <2>1
  <1>3. Update(t, q)
    BY <1>2 DEF HangsInHook, Me
  <1>4. QED
    BY <1>1, <1>2, <1>3, UpdateTypes DEF FlagsStay

LEMMA HeldFunctions ==
    ASSUME Inv, NEW t \in Thread, NEW names, Locks(t, names)
    PROVE  /\ thr[t].pc = "lock" /\ S(t).mLock = Nobody /\ Calling(t, names) /\ S(t) \in SegmentType
           /\ thr[t].at \in 1 .. Len(seg)
  BY AtLock DEF Locks, At

LEMMA StackKeeps == ASSUME Inv, NEW t \in Thread, StackRecurses(t) PROVE Shape'
  <1>1. /\ thr[t].pc = "lock" /\ S(t).mLock = Nobody /\ S(t) \in SegmentType /\ ~S(t).mLogLock
        /\ Placed(Returned(t), ProcOf[t], Len(seg)) /\ Back(Returned(t), thr[t])
    BY HeldFunctions, AtLock DEF StackRecurses
  <1>2. PICK s \in SegmentType : s = S(t)
    BY <1>1
  <1>3. PICK u : u = [[s EXCEPT !.mLogLock = TRUE] EXCEPT !.mLock = t]
    OBVIOUS
  <1>4. u \in SegmentType /\ u.mLock = t
    BY <1>3 DEF SegmentType, Holder
  <1>5. Ended(t, u, Returned(t))
    BY <1>1, <1>2, <1>3, <1>4 DEF Ended, StackRecurses, Keep, Put, HangsInHook, Hang, Go, Hangs
  <1>7. st' \in [Proc -> ProcessType] /\ FlagsStay
    BY HangsInHookTypes DEF StackRecurses
  <1>6. QED
    BY <1>1, <1>5, <1>7, OldTypes, EndInv DEF StackRecurses, Back

LEMMA PointDoneKeeps == ASSUME Inv, NEW t \in Thread, PointDone(t) PROVE Shape'
  <1>1. /\ thr[t].pc = "lock" /\ S(t).mLock = Nobody /\ S(t) \in SegmentType /\ thr[t].at \in 1 .. Len(seg)
        /\ Placed(Returned(t), ProcOf[t], Len(seg)) /\ Back(Returned(t), thr[t])
    BY HeldFunctions, AtLock DEF PointDone
  <1>2. PICK u : u = IF MySlots(S(t), t) = {} THEN S(t) ELSE Released(S(t), Min(MySlots(S(t), t)))
    OBVIOUS
  <1>3. u \in SegmentType /\ u.mLock = Nobody /\ u.mLogLock = S(t).mLogLock
    <2>1. CASE MySlots(S(t), t) = {}
      BY <1>1, <1>2, <2>1
    <2>2. CASE MySlots(S(t), t) # {}
      <3>1. MySlots(S(t), t) \in SUBSET Nat /\ MySlots(S(t), t) \subseteq Slot
        BY DEF MySlots, Slot
      <3>2. PICK i \in Slot : i = Min(MySlots(S(t), t))
        BY <2>2, <3>1, LeastOfSet
      <3>3. QED
        BY <1>1, <1>2, <2>2, <3>2, SegmentTypes, LogLockKept
    <2>3. QED
      BY <2>1, <2>2
  <1>4. u.mLogLock => past \cap Hangs # {}
    BY <1>1, <1>3 DEF Inv, Shape, LockInv, LogFree, S
  <1>5. Ended(t, u, Returned(t))
    BY <1>2, <1>3, <1>4 DEF Ended, PointDone, Put, Go
  <1>6. QED
    BY <1>1, <1>5, OldTypes, EndInv DEF PointDone, Back, FlagsStay

LEMMA PointChangeKeeps == ASSUME Inv, NEW t \in Thread, PointChange(t) PROVE Shape'
  <1>1. /\ thr[t].pc = "lock" /\ S(t).mLock = Nobody /\ S(t) \in SegmentType /\ Calling(t, {"set", "clear"})
        /\ Placed(Returned(t), ProcOf[t], Len(seg)) /\ Back(Returned(t), thr[t])
    BY HeldFunctions, AtLock DEF PointChange
  <1>2. st' = st /\ n' \in [Thread -> Nat]
    BY OldTypes DEF PointChange
  <1>3. PICK s \in SegmentType : s = S(t)
    BY <1>1
  <1>4. CASE F(t).fn = "clear"
    <2>1. PICK lines : Unlock(t, PointClear(s), lines, Returned(t))
      BY <1>3, <1>4 DEF PointChange
    <2>2. PointClear(s) \in SegmentType /\ PointClear(s).mLogLock = S(t).mLogLock
      BY <1>3, SegmentTypes, LogLockKept
    <2>3. QED
      BY <1>1, <1>2, <2>1, <2>2, OldTypes, UnlockInv DEF FlagsStay
  <1>5. CASE F(t).fn # "clear"
    <2>1. PICK lines : Unlock(t, PointSet(s, F(t).v), lines, Returned(t))
      BY <1>3, <1>5 DEF PointChange
    <2>2. F(t).v \in PointCall
      BY <1>1, <1>5, HeadTypes DEF Calling
    <2>3. PointSet(s, F(t).v) \in SegmentType /\ PointSet(s, F(t).v).mLogLock = S(t).mLogLock
      BY <1>3, <2>2, SegmentTypes, LogLockKept
    <2>4. QED
      BY <1>1, <1>2, <2>1, <2>3, OldTypes, UnlockInv DEF FlagsStay
  <1>6. QED
    BY <1>4, <1>5

LEMMA LoggingKeeps == ASSUME Inv, NEW t \in Thread, Logging(t) PROVE Shape'
  <1>1. /\ thr[t].pc = "lock" /\ S(t).mLock = Nobody /\ S(t) \in SegmentType
        /\ Calling(t, {"getlogging", "enable", "setlogging"})
        /\ Placed(Returned(t), ProcOf[t], Len(seg)) /\ Back(Returned(t), thr[t])
    BY HeldFunctions, AtLock DEF Logging
  <1>2. st' = st /\ n' \in [Thread -> Nat] /\ FlagsStay
    BY OldTypes DEF Logging, FlagsStay
  <1>3. PICK s \in SegmentType : s = S(t)
    BY <1>1
  <1>4. CASE F(t).fn = "getlogging"
    <2>1. F(t).v \in LogCall
      BY <1>1, <1>4, HeadTypes
    <2>2. PICK new : new = NewFlags(s, F(t).v)
      OBVIOUS
    <2>3. new \in SUBSET Switches
      <3>1. s.flags \in SUBSET Switches /\ {"log"} \cup Kinds = Switches /\ F(t).v.kinds \in SUBSET Kinds
        BY <2>1 DEF SegmentType, Switches, LogCall
      <3>2. QED
        BY <2>2, <3>1 DEF NewFlags
    <2>4. PICK w \in OwnWork : w = <<FnV("enable", new \cap {"log"}), FnV("setlogging", new \ {"log"})>>
      <3>1. new \cap {"log"} \in SUBSET Switches /\ new \ {"log"} \in SUBSET Switches
        BY <2>3
      <3>2. PICK x \in Function, y \in Function : x = FnV("enable", new \cap {"log"}) /\ y = FnV("setlogging", new \ {"log"})
        BY <3>1, OneCall
      <3>3. <<x, y>> \in OwnWork
        BY DEF OwnWork
      <3>4. QED
        BY <3>2, <3>3
    <2>5. PICK r : r = Beginning("attach", w)
      OBVIOUS
    <2>6. Placed(r, ProcOf[t], Len(seg)) /\ Back(r, thr[t])
      BY <2>5, OldTypes, Begins DEF Back
    <2>7. Unlock(t, s, 0, r)
      BY <1>3, <1>4, <2>2, <2>4, <2>5 DEF Logging, Beginning
    <2>8. QED
      BY <1>1, <1>2, <1>3, <2>6, <2>7, OldTypes, UnlockInv
  <1>5. ASSUME NEW f \in SUBSET Switches, NEW lines, Unlock(t, [s EXCEPT !.flags = f], lines, Returned(t))
        PROVE  Shape'
    <2>1. PICK u \in SegmentType : u = [s EXCEPT !.flags = f] /\ u.mLogLock = S(t).mLogLock
      <3>1. [s EXCEPT !.flags = f] \in SegmentType /\ [s EXCEPT !.flags = f].mLogLock = s.mLogLock
        BY DEF SegmentType
      <3>2. QED
        BY <1>3, <3>1
    <2>2. QED
      BY <1>1, <1>2, <1>5, <2>1, OldTypes, UnlockInv
  <1>6. CASE F(t).fn # "getlogging"
    <2>1. F(t).v \in SUBSET Switches /\ s.flags \in SUBSET Switches
      <3>1. F(t).fn \in {"enable", "setlogging"}
        BY <1>1, <1>6 DEF Calling
      <3>2. F(t).v \in SUBSET Switches
        BY <1>1, <3>1, HeadTypes
      <3>3. QED
        BY <3>2 DEF SegmentType
    <2>2. /\ F(t).fn = "enable" => Unlock(t, [s EXCEPT !.flags = (s.flags \ {"log"}) \cup F(t).v], 1, Returned(t))
          /\ F(t).fn # "enable" => Unlock(t, [s EXCEPT !.flags = (s.flags \cap {"log"}) \cup F(t).v],
                                          IF "log" \in s.flags THEN 7 ELSE 0, Returned(t))
      BY <1>3, <1>6 DEF Logging
    <2>3. (s.flags \ {"log"}) \cup F(t).v \in SUBSET Switches /\ (s.flags \cap {"log"}) \cup F(t).v \in SUBSET Switches
      BY <2>1
    <2>4. QED
      BY <1>5, <2>2, <2>3
  <1>7. QED
    BY <1>4, <1>6

LEMMA AddLogKeeps == ASSUME Inv, NEW t \in Thread, AddLog(t) PROVE Shape'
  <1>1. /\ TypeOK /\ LockInv /\ HooksUp /\ thr[t].pc = "lock" /\ S(t) \in SegmentType /\ thr[t].at \in 1 .. Len(seg)
        /\ Placed(Returned(t), ProcOf[t], Len(seg)) /\ Back(Returned(t), thr[t])
        /\ Placed(Failed(t), ProcOf[t], Len(seg)) /\ Back(Failed(t), thr[t])
        /\ thr[t] \in ThreadType /\ Placed(thr[t], ProcOf[t], Len(seg)) /\ Len(seg) \in Nat
    BY AtLock, OldTypes DEF AddLog, At, Inv, Shape
  <1>2. PICK r : thr' = [thr EXCEPT ![t] = r] /\ r \in {[thr[t] EXCEPT !.pc = "hung"], Returned(t), Failed(t)}
    BY DEF AddLog, Hang, Go
  <1>3. /\ Placed(r, ProcOf[t], Len(seg)) /\ r.pc \notin {"waste", "open"} /\ (r.hook => thr[t].hook) /\ r \in ThreadType
    <2>1. CASE r = [thr[t] EXCEPT !.pc = "hung"]
      <3>1. r \in ThreadType
        BY <1>1, <2>1, Moved DEF Places
      <3>2. r.pc = "hung" /\ r.hook = thr[t].hook /\ r.todo = thr[t].todo
        BY <1>1, <2>1 DEF ThreadType
      <3>3. QED
        BY <1>1, <3>1, <3>2 DEF Placed
    <2>2. CASE r \in {Returned(t), Failed(t)}
      BY <1>1, <2>2 DEF Back, Placed
    <2>3. QED
      BY <1>2, <2>1, <2>2
  <1>4. UNCHANGED <<keyFile, table, junk, st, plan, n>> /\ faults' \in Nat /\ past \subseteq past'
    BY OldTypes DEF AddLog, Fault
  <1>5. CASE seg' = seg
    BY <1>1, <1>2, <1>3, <1>4, <1>5, OldTypes, ThreadStays DEF FlagsStay
  <1>6. CASE seg' # seg
    <2>1. /\ seg' = [seg EXCEPT ![thr[t].at] = [S(t) EXCEPT !.mLogLock = TRUE]] /\ past' \cap Hangs # {}
      BY <1>6 DEF AddLog, Put, Hangs
    <2>2. PICK u \in SegmentType : u = [S(t) EXCEPT !.mLogLock = TRUE] /\ u.mLock = S(t).mLock
      <3>1. \A s \in SegmentType : [s EXCEPT !.mLogLock = TRUE] \in SegmentType /\ [s EXCEPT !.mLogLock = TRUE].mLock = s.mLock
        BY DEF SegmentType
      <3>2. QED
        BY <1>1, <3>1
    <2>3. /\ seg' \in Seq(SegmentType) /\ Len(seg') = Len(seg) /\ DOMAIN seg = 1 .. Len(seg) /\ DOMAIN seg' = 1 .. Len(seg)
          /\ \A i \in 1 .. Len(seg) : seg'[i].mLock = seg[i].mLock
      BY <1>1, <2>1, <2>2 DEF TypeOK, S
    <2>4. \A v \in Thread : thr'[v] = IF v = t THEN r ELSE thr[v]
      BY <1>1, <1>2 DEF TypeOK
    <2>5. Threads'
      BY <1>1, <1>2, <1>3, <2>3, <2>4 DEF Threads, TypeOK
    <2>6. LogFree'
      BY <2>1 DEF LogFree
    <2>7. \A v \in Thread : thr[v].pc \in {"waste", "open"} => thr[v].at \in 1 .. Len(seg)
      BY <1>1 DEF TypeOK, Placed
    <2>8. WasterHolds'
      BY <1>1, <1>3, <2>3, <2>4, <2>7 DEF LockInv, WasterHolds
    <2>9. LockReleased'
      <3>1. SUFFICES ASSUME NEW i \in 1 .. Len(seg)
                     PROVE  /\ seg'[i].mLock = Dead => "died" \in past'
                            /\ seg'[i].mLock \in Thread =>
                                 LET h == thr'[seg'[i].mLock]
                                 IN  h.at = i /\ (h.pc \in {"waste", "open"} \/ (h.pc = "hung" /\ past' \cap Hangs # {}))
        BY <2>3 DEF LockReleased
      <3>2. seg'[i].mLock = seg[i].mLock /\ (seg[i].mLock \in Thread => seg[i].mLock # t)
        BY <1>1, <2>3 DEF LockReleased, LockInv
      <3>3. QED
        BY <1>1, <1>4, <2>3, <2>4, <3>2 DEF LockReleased, LockInv
    <2>10. HooksUp'
      BY <1>1, <1>2, <1>3, <1>4, HooksKeep
    <2>11. QED
      BY <1>1, <1>4, <2>3, <2>5, <2>6, <2>8, <2>9, <2>10, OldTypes DEF Inv, Shape, LockInv, TypeOK, Threads
  <1>7. QED
    BY <1>5, <1>6

LEMMA SetWasteKeeps == ASSUME Inv, NEW t \in Thread, SetWaste(t) PROVE Shape'
  <1>1. /\ thr[t].pc = "lock" /\ S(t).mLock = Nobody /\ S(t) \in SegmentType
        /\ Calling(t, {"getdisk", "setmemory", "setdisk", "setdesc"})
        /\ Placed(Returned(t), ProcOf[t], Len(seg)) /\ Back(Returned(t), thr[t])
    BY HeldFunctions, AtLock DEF SetWaste
  <1>2. st' = st /\ n' \in [Thread -> Nat] /\ FlagsStay
    BY OldTypes DEF SetWaste, FlagsStay
  <1>3. PICK s \in SegmentType : s = S(t)
    BY <1>1
  <1>4. ASSUME NEW u \in SegmentType, u.mLogLock = s.mLogLock, NEW lines, Unlock(t, u, lines, Returned(t))
        PROVE  Shape'
    BY <1>1, <1>2, <1>3, <1>4, OldTypes, UnlockInv
  <1>5. CASE F(t).fn = "getdisk"
    <2>1. Unlock(t, s, 0, Returned(t))
      BY <1>3, <1>5 DEF SetWaste
    <2>2. QED
      BY <1>4, <2>1
  <1>6. CASE F(t).fn # "getdisk"
    <2>1. F(t).fn \in {"setmemory", "setdisk", "setdesc"} /\ F(t).v \in Nat
      BY <1>1, <1>6, HeadTypes DEF Calling
    <2>2. \A v \in Nat : /\ [s EXCEPT !.destMemory = v] \in SegmentType /\ [s EXCEPT !.destMemory = v].mLogLock = s.mLogLock
                         /\ [s EXCEPT !.destDisk = v, !.disk = v] \in SegmentType
                         /\ [s EXCEPT !.destDisk = v, !.disk = v].mLogLock = s.mLogLock
                         /\ [s EXCEPT !.destDesc = v] \in SegmentType /\ [s EXCEPT !.destDesc = v].mLogLock = s.mLogLock
      BY DEF SegmentType
    <2>3. CASE F(t).fn = "setmemory"
      <3>1. Unlock(t, [s EXCEPT !.destMemory = F(t).v], RealLines(s), Returned(t))
        BY <1>3, <2>3 DEF SetWaste
      <3>2. QED
        BY <1>4, <2>1, <2>2, <3>1
    <2>4. CASE F(t).fn = "setdisk"
      <3>1. Unlock(t, [s EXCEPT !.destDisk = F(t).v, !.disk = F(t).v], RealLines(s), Returned(t))
        BY <1>3, <2>4 DEF SetWaste
      <3>2. QED
        BY <1>4, <2>1, <2>2, <3>1
    <2>5. CASE F(t).fn = "setdesc"
      <3>1. Unlock(t, [s EXCEPT !.destDesc = F(t).v], RealLines(s), Returned(t))
        BY <1>3, <2>5 DEF SetWaste
      <3>2. QED
        BY <1>4, <2>1, <2>2, <3>1
    <2>6. QED
      BY <2>1, <2>3, <2>4, <2>5
  <1>7. QED
    BY <1>5, <1>6

(* A thread that keeps the lock: it begins to waste, goes on, or is caught *)
(* in its own hook.                                                        *)
LEMMA KeepingInv ==
    ASSUME Inv, NEW t \in Thread, thr[t].pc \in {"lock", "waste", "open"}, S(t).mLock \in {Nobody, t},
           NEW u \in SegmentType, u.mLock = t, u.mLogLock = S(t).mLogLock,
           seg' = [seg EXCEPT ![thr[t].at] = u],
           NEW r, Placed(r, ProcOf[t], Len(seg)), r.at = thr[t].at, r.hook = thr[t].hook,
           thr' = [thr EXCEPT ![t] = r],
           r.pc \in {"waste", "open"} \/ (r.pc = "hung" /\ "hooks" \in past),
           UNCHANGED <<keyFile, table, junk, plan, faults, past, n>>, st' \in [Proc -> ProcessType], FlagsStay
    PROVE  Shape'
  <1>1. /\ TypeOK /\ LockInv /\ HooksUp /\ thr \in [Thread -> ThreadType] /\ r \in ThreadType
        /\ thr[t].at \in 1 .. Len(seg) /\ Len(seg) \in Nat /\ seg \in Seq(SegmentType)
    BY AtLock, OldTypes DEF Inv, Shape, TypeOK, Placed
  <1>2. seg' \in Seq(SegmentType) /\ Len(seg') = Len(seg) /\ DOMAIN seg = 1 .. Len(seg) /\ DOMAIN seg' = 1 .. Len(seg)
        /\ \A i \in 1 .. Len(seg) : seg'[i] = IF i = thr[t].at THEN u ELSE seg[i]
    BY <1>1
  <1>3. \A v \in Thread : thr'[v] = IF v = t THEN r ELSE thr[v]
    BY <1>1
  <1>4. Threads'
    BY <1>1, <1>2, <1>3 DEF Threads, TypeOK
  <1>5. LogFree'
    BY <1>1, <1>2 DEF LogFree, LockInv, S
  <1>6. \A v \in Thread : v # t /\ thr[v].pc \in {"waste", "open"} => thr[v].at \in 1 .. Len(seg) /\ thr[v].at # thr[t].at
    BY <1>1, NamesAssumption DEF TypeOK, Placed, LockInv, WasterHolds, NamesAssumption, S
  <1>7. WasterHolds'
    BY <1>1, <1>2, <1>3, <1>6 DEF WasterHolds, LockInv
  <1>8. LockReleased'
    <2>1. SUFFICES ASSUME NEW i \in 1 .. Len(seg)
                   PROVE  /\ seg'[i].mLock = Dead => "died" \in past'
                          /\ seg'[i].mLock \in Thread =>
                               LET h == thr'[seg'[i].mLock]
                               IN  h.at = i /\ (h.pc \in {"waste", "open"} \/ (h.pc = "hung" /\ past' \cap Hangs # {}))
      BY <1>2 DEF LockReleased
    <2>2. t # Dead
      BY NamesAssumption DEF NamesAssumption
    <2>3. CASE i = thr[t].at
      <3>1. seg'[i].mLock = t /\ thr'[t] = r /\ r.at = i
        BY <1>2, <1>3, <2>3
      <3>2. r.pc \in {"waste", "open"} \/ (r.pc = "hung" /\ past' \cap Hangs # {})
        BY DEF Hangs
      <3>3. QED
        BY <2>2, <3>1, <3>2
    <2>4. CASE i # thr[t].at
      <3>1. seg'[i] = seg[i] /\ (seg[i].mLock \in Thread => seg[i].mLock # t)
        BY <1>1, <1>2, <2>4 DEF LockReleased, LockInv
      <3>2. QED
        BY <1>1, <1>2, <1>3, <2>4, <3>1 DEF LockReleased, LockInv
    <2>5. QED
      BY <2>3, <2>4
  <1>9. HooksUp'
    BY <1>1, HooksKeep DEF FlagsStay
  <1>10. QED
    BY <1>1, <1>2, <1>4, <1>5, <1>7, <1>8, <1>9, OldTypes DEF Inv, Shape, LockInv, TypeOK, Threads

(* The end of a process. *)
LEMMA DiesInv ==
    ASSUME Inv, NEW p \in Proc, NEW locked, Dies(p, locked), Held(p) \subseteq locked,
           \A i \in locked : i \in DOMAIN seg /\ (i \notin Held(p) => seg[i].mLock = Nobody),
           past \subseteq past', "died" \in past',
           UNCHANGED <<keyFile, table, junk, plan, n>>, faults' \in Nat
    PROVE  Shape'
  <1>1. /\ TypeOK /\ LockInv /\ HooksUp /\ thr \in [Thread -> ThreadType]
        /\ Len(seg) \in Nat /\ seg \in Seq(SegmentType) /\ DOMAIN seg = 1 .. Len(seg) /\ st \in [Proc -> ProcessType]
    BY OldTypes DEF Inv, Shape, TypeOK
  <1>2. seg' = [i \in 1 .. Len(seg) |-> IF i \in locked THEN [seg[i] EXCEPT !.mLock = Dead] ELSE seg[i]]
    BY <1>1 DEF Dies
  <1>3. \A i \in 1 .. Len(seg) : /\ seg'[i] \in SegmentType /\ seg'[i].mLogLock = seg[i].mLogLock
                                 /\ seg'[i].mLock = IF i \in locked THEN Dead ELSE seg[i].mLock
    <2>1. \A s \in SegmentType : /\ [s EXCEPT !.mLock = Dead] \in SegmentType
                                 /\ [s EXCEPT !.mLock = Dead].mLogLock = s.mLogLock /\ [s EXCEPT !.mLock = Dead].mLock = Dead
      BY DEF SegmentType, Holder
    <2>2. \A i \in 1 .. Len(seg) : seg[i] \in SegmentType
      BY <1>1
    <2>3. QED
      BY <1>2, <2>1, <2>2
  <1>4. seg' \in Seq(SegmentType) /\ Len(seg') = Len(seg) /\ DOMAIN seg' = 1 .. Len(seg)
    BY <1>1, <1>2, <1>3
  <1>5. \A v \in Thread : thr'[v] = IF ProcOf[v] = p THEN Idle ELSE thr[v]
    BY DEF Dies
  <1>6. Idle \in ThreadType /\ Idle.pc = "idle" /\ ~Idle.hook /\ \A q : Placed(Idle, q, Len(seg))
    BY <1>1, IdlePlaced
  <1>7. Threads'
    <2>1. thr' = [v \in Thread |-> IF ProcOf[v] = p THEN Idle ELSE thr[v]]
      BY DEF Dies
    <2>2. thr' \in [Thread -> ThreadType]
      BY <1>1, <1>6, <2>1
    <2>3. QED
      BY <1>1, <1>4, <1>5, <1>6, <2>2 DEF Threads, TypeOK
  <1>8. st' \in [Proc -> ProcessType] /\ \A q \in Proc : q # p => st'[q] = st[q]
    <2>1. st[p].run + 1 \in Nat
      BY <1>1 DEF ProcessType
    <2>2. \A k \in Nat : NewProcess(k) \in ProcessType
      BY DEF NewProcess, ProcessType
    <2>3. QED
      BY <1>1, <2>1, <2>2 DEF Dies
  <1>9. LogFree'
    BY <1>1, <1>3, <1>4 DEF LogFree, LockInv
  <1>10. \A v \in Thread : thr[v].pc \in {"waste", "open"} => thr[v].at \in 1 .. Len(seg) /\ seg[thr[v].at].mLock = v
    BY <1>1 DEF TypeOK, Placed, LockInv, WasterHolds
  <1>11. \A i \in locked : seg[i].mLock \in Thread => ProcOf[seg[i].mLock] = p
    BY NamesAssumption DEF Held, NamesAssumption
  <1>12. WasterHolds'
    BY <1>3, <1>5, <1>6, <1>10, <1>11 DEF WasterHolds
  <1>13. LockReleased'
    <2>1. SUFFICES ASSUME NEW i \in 1 .. Len(seg)
                   PROVE  /\ seg'[i].mLock = Dead => "died" \in past'
                          /\ seg'[i].mLock \in Thread =>
                               LET h == thr'[seg'[i].mLock]
                               IN  h.at = i /\ (h.pc \in {"waste", "open"} \/ (h.pc = "hung" /\ past' \cap Hangs # {}))
      BY <1>4 DEF LockReleased
    <2>2. CASE i \in locked
      BY <1>3, <2>2, NamesAssumption DEF NamesAssumption
    <2>3. CASE i \notin locked
      <3>1. seg'[i].mLock = seg[i].mLock /\ (seg[i].mLock \in Thread => ProcOf[seg[i].mLock] # p)
        BY <1>1, <1>3, <2>3 DEF Held
      <3>2. QED
        BY <1>1, <1>5, <3>1 DEF LockReleased, LockInv
    <2>4. QED
      BY <2>2, <2>3
  <1>14. HooksUp'
    BY <1>1, <1>5, <1>6, <1>8, OldTypes DEF HooksUp, Fellows
  <1>15. QED
    BY <1>1, <1>4, <1>7, <1>8, <1>9, <1>12, <1>13, <1>14, OldTypes DEF Inv, Shape, LockInv, TypeOK, Threads

(* A hook that wastes is in a hook. *)
LEMMA WastersHook ==
    ASSUME Inv, NEW t \in Thread
    PROVE  /\ thr[t].pc = "lock" /\ Calling(t, {"memory", "desc"}) => thr[t].hook
           /\ thr[t].pc \in {"waste", "open"} => thr[t].hook /\ S(t).mLock = t
           /\ thr[t].hook /\ Recurses(t) => "hooks" \in past
           /\ thr[t].hook => ProcOf[t] \in Server
  <1>1. ASSUME thr[t].pc = "lock", Calling(t, {"memory", "desc"}), ~thr[t].hook
        PROVE  FALSE
    <2>1. thr[t].todo \in OwnWork /\ thr[t].todo # <<>>
      BY <1>1, OldTypes DEF Placed, Calling
    <2>2. F(t) \in Function
      BY <2>1, Works DEF F
    <2>3. QED
      BY <1>1, <2>2 DEF Function, Calling
  <1>2. thr[t].pc \in {"waste", "open"} => thr[t].hook /\ S(t).mLock = t
    BY OldTypes, AtLock DEF Placed
  <1>3. thr[t].hook /\ Recurses(t) => "hooks" \in past
    BY DEF Inv, Shape, HooksUp, Recurses, Me
  <1>4. thr[t].hook => ProcOf[t] \in Server
    BY OldTypes DEF Placed
  <1>5. QED
    BY <1>1, <1>2, <1>3, <1>4

LEMMA MemoryTypes ==
    ASSUME NEW s \in SegmentType, NEW m \in Nat
    PROVE  /\ [s EXCEPT !.memory = m, !.destMemory = m] \in SegmentType
           /\ [s EXCEPT !.memory = m, !.destMemory = m].mLogLock = s.mLogLock
           /\ [s EXCEPT !.desc = m] \in SegmentType /\ [s EXCEPT !.desc = m].mLogLock = s.mLogLock
  BY DEF SegmentType

LEMMA WasteTypes ==
    ASSUME NEW r \in ProcessType, NEW m \in Nat, NEW d \in SUBSET Nat
    PROVE  /\ [r EXCEPT !.chunks = m] \in ProcessType /\ [r EXCEPT !.chunks = m].gInsideHook = r.gInsideHook
           /\ [r EXCEPT !.socks = d] \in ProcessType /\ [r EXCEPT !.socks = d].gInsideHook = r.gInsideHook
  BY DEF ProcessType

LEMMA MemoryDoneInv ==
    ASSUME Inv, NEW t \in Thread, thr[t].pc \in {"lock", "waste", "open"}, S(t).mLock \in {Nobody, t},
           NEW cur \in Nat, MemoryDone(t, cur), n' = n, st' \in [Proc -> ProcessType], FlagsStay
    PROVE  Shape'
  <1>1. S(t) \in SegmentType /\ Placed(Returned(t), ProcOf[t], Len(seg)) /\ Back(Returned(t), thr[t])
    BY AtLock
  <1>2. PICK u \in SegmentType : u = [S(t) EXCEPT !.memory = cur, !.destMemory = cur] /\ u.mLogLock = S(t).mLogLock
    BY <1>1, MemoryTypes
  <1>3. Unlock(t, u, RealLines(S(t)), Returned(t))
    BY <1>2 DEF MemoryDone
  <1>4. QED
    BY <1>1, <1>2, <1>3, OldTypes, UnlockInv

(* A thread takes the lock and begins to waste. *)
LEMMA StartsWasting ==
    ASSUME Inv, NEW t \in Thread, thr[t].pc = "lock", thr[t].hook, S(t).mLock = Nobody, NEW k \in Nat,
           NEW c \in {"waste", "open"}, Keep(t, S(t)), Go(t, [thr[t] EXCEPT !.pc = c, !.local = k]),
           UNCHANGED <<keyFile, table, junk, st, plan, faults, past, n>>
    PROVE  Shape'
  <1>1. S(t) \in SegmentType /\ thr[t] \in ThreadType /\ Placed(thr[t], ProcOf[t], Len(seg)) /\ c \in Places
    BY AtLock, OldTypes DEF Places
  <1>2. PICK u : u = [S(t) EXCEPT !.mLock = t]
    OBVIOUS
  <1>3. u \in SegmentType /\ u.mLock = t /\ u.mLogLock = S(t).mLogLock
    <2>1. \A s \in SegmentType : [s EXCEPT !.mLock = t] \in SegmentType /\ [s EXCEPT !.mLock = t].mLock = t
                                 /\ [s EXCEPT !.mLock = t].mLogLock = s.mLogLock
      BY DEF SegmentType, Holder
    <2>2. QED
      BY <1>1, <1>2, <2>1
  <1>4. PICK r \in ThreadType : r = [thr[t] EXCEPT !.pc = c, !.local = k]
    BY <1>1, Moved
  <1>5. r.pc = c /\ r.hook = thr[t].hook /\ r.todo = thr[t].todo /\ r.at = thr[t].at
    BY <1>1, <1>4 DEF ThreadType
  <1>6. Placed(r, ProcOf[t], Len(seg))
    BY <1>1, <1>4, <1>5 DEF Placed
  <1>7. QED
    BY <1>2, <1>3, <1>4, <1>5, <1>6, OldTypes, KeepingInv DEF Keep, Put, Go, FlagsStay

(* It goes on, or is caught. *)
LEMMA GoesOnWasting ==
    ASSUME Inv, NEW t \in Thread, thr[t].pc \in {"waste", "open"}, UNCHANGED shared,
           \/ Go(t, [thr[t] EXCEPT !.local = thr[t].local + 1])
           \/ Hang(t) /\ Recurses(t),
           UNCHANGED <<plan, faults, past, n>>, st' \in [Proc -> ProcessType], FlagsStay
    PROVE  Shape'
  <1>1. /\ S(t) \in SegmentType /\ thr[t] \in ThreadType /\ Placed(thr[t], ProcOf[t], Len(seg))
        /\ S(t).mLock = t /\ thr[t].hook /\ thr[t].at \in 1 .. Len(seg) /\ Len(seg) \in Nat
        /\ (Recurses(t) => "hooks" \in past)
    BY AtLock, OldTypes, WastersHook
  <1>2. seg' = [seg EXCEPT ![thr[t].at] = S(t)]
    BY <1>1 DEF shared, S, Inv, Shape, TypeOK
  <1>3. PICK r : /\ thr' = [thr EXCEPT ![t] = r]
                 /\ r = [thr[t] EXCEPT !.local = thr[t].local + 1] \/ (r = [thr[t] EXCEPT !.pc = "hung"] /\ Recurses(t))
    BY DEF Go, Hang
  <1>4. r \in ThreadType /\ r.hook = thr[t].hook /\ r.at = thr[t].at /\ r.todo = thr[t].todo
        /\ (r.pc = thr[t].pc \/ (r.pc = "hung" /\ Recurses(t)))
    <2>1. thr[t].local + 1 \in Nat /\ "hung" \in Places
      BY <1>1 DEF ThreadType, Places
    <2>2. PICK k \in Nat : k = thr[t].local + 1
      BY <2>1
    <2>3. [thr[t] EXCEPT !.local = k] \in ThreadType /\ [thr[t] EXCEPT !.pc = "hung"] \in ThreadType
      BY <1>1, <2>1, Moved
    <2>4. r \in ThreadType
      BY <1>3, <2>2, <2>3
    <2>5. QED
      BY <1>1, <1>3, <2>4 DEF ThreadType
  <1>5. Placed(r, ProcOf[t], Len(seg))
    BY <1>1, <1>4 DEF Placed
  <1>6. QED
    BY <1>1, <1>2, <1>3, <1>4, <1>5, KeepingInv DEF shared

LEMMA MemoryKeeps == ASSUME Inv, NEW t \in Thread, Memory(t) PROVE Shape'
  <1>1. /\ thr[t].pc = "lock" /\ S(t).mLock = Nobody /\ S(t) \in SegmentType /\ thr[t].hook /\ ProcOf[t] \in Proc
        /\ Placed(Returned(t), ProcOf[t], Len(seg)) /\ Back(Returned(t), thr[t]) /\ n' = n
        /\ st \in [Proc -> ProcessType] /\ thr[t].at \in 1 .. Len(seg)
    <2>1. thr[t].pc = "lock" /\ S(t).mLock = Nobody /\ Calling(t, {"memory"}) /\ S(t) \in SegmentType /\ n' = n
      BY HeldFunctions DEF Memory
    <2>2. thr[t].hook
      BY <2>1, WastersHook DEF Calling
    <2>3. QED
      BY <2>1, <2>2, AtLock, OldTypes
  <1>7. TypeOK
    BY DEF Inv, Shape
  <1>2. S(t).memory \in Nat /\ S(t).destMemory \in Nat
    BY <1>1 DEF SegmentType
  <1>3. CASE S(t).memory = S(t).destMemory
    <2>1. Unlock(t, S(t), 0, Returned(t)) /\ st' = st
      BY <1>2, <1>3 DEF Memory
    <2>2. PICK s \in SegmentType : s = S(t)
      BY <1>1
    <2>3. QED
      BY <1>1, <2>1, <2>2, OldTypes, UnlockInv DEF FlagsStay
  <1>4. CASE S(t).memory > S(t).destMemory
    <2>1. FreeMemory(t)
      BY <1>2, <1>4 DEF Memory
    <2>2. CASE Me(t).chunks = 0
      <3>1. MemoryDone(t, 0) /\ Update(t, Flagged(t))
        BY <2>1, <2>2 DEF FreeMemory
      <3>2. st' \in [Proc -> ProcessType] /\ FlagsStay
        BY <1>7, <3>1, FlaggedTypes, UpdateTypes DEF FlagsStay
      <3>3. QED
        BY <1>1, <3>1, <3>2, MemoryDoneInv
    <2>3. CASE Me(t).chunks # 0 /\ S(t).memory - S(t).destMemory <= Me(t).chunks
      <3>1. MemoryDone(t, S(t).destMemory)
            /\ Update(t, [Flagged(t) EXCEPT !.chunks = Flagged(t).chunks - (S(t).memory - S(t).destMemory)])
        BY <2>1, <2>3 DEF FreeMemory
      <3>2. PICK m \in Nat : m = Flagged(t).chunks - (S(t).memory - S(t).destMemory)
        <4>1. Flagged(t).chunks \in Nat /\ Flagged(t).chunks = Me(t).chunks
          BY <1>1, <1>7, FlaggedTypes DEF ProcessType, Me
        <4>2. QED
          BY <1>2, <1>4, <2>3, <4>1
      <3>3. st' \in [Proc -> ProcessType] /\ FlagsStay
        <4>1. PICK q \in ProcessType : q = [Flagged(t) EXCEPT !.chunks = m] /\ q.gInsideHook = Flagged(t).gInsideHook
          BY <1>7, FlaggedTypes, WasteTypes
        <4>2. Update(t, q)
          BY <3>1, <3>2, <4>1
        <4>3. QED
          BY <1>7, <4>1, <4>2, FlaggedTypes, UpdateTypes DEF FlagsStay
      <3>4. QED
        BY <1>1, <1>2, <3>1, <3>3, MemoryDoneInv
    <2>4. CASE Me(t).chunks # 0 /\ ~(S(t).memory - S(t).destMemory <= Me(t).chunks)
      <3>1. Dies(ProcOf[t], Held(ProcOf[t]) \cup {thr[t].at}) /\ past' = past \cup {"died"}
            /\ UNCHANGED <<keyFile, table, junk, plan, faults>>
        BY <2>1, <2>4 DEF FreeMemory
      <3>2. \A i \in Held(ProcOf[t]) \cup {thr[t].at} : i \in DOMAIN seg /\ (i \notin Held(ProcOf[t]) => seg[i].mLock = Nobody)
        BY <1>1 DEF Held, S, Inv, Shape, TypeOK
      <3>3. PICK locked : locked = Held(ProcOf[t]) \cup {thr[t].at}
        OBVIOUS
      <3>4. QED
        BY <1>1, <3>1, <3>2, <3>3, OldTypes, DiesInv
    <2>5. QED
      BY <2>2, <2>3, <2>4
  <1>5. CASE S(t).memory < S(t).destMemory
    <2>1. /\ Keep(t, S(t)) /\ Go(t, [thr[t] EXCEPT !.pc = "waste", !.local = S(t).memory])
          /\ UNCHANGED <<keyFile, table, junk, st, plan, faults, past>>
      BY <1>2, <1>5 DEF Memory
    <2>2. QED
      BY <1>1, <1>2, <2>1, StartsWasting
  <1>6. QED
    BY <1>2, <1>3, <1>4, <1>5

LEMMA WasteKeeps == ASSUME Inv, NEW t \in Thread, Waste(t) PROVE Shape'
  <1>1. /\ thr[t].pc = "waste" /\ S(t).mLock = t /\ thr[t].hook /\ n' = n /\ ProcOf[t] \in Proc
        /\ st \in [Proc -> ProcessType] /\ thr[t].local \in Nat
    BY OldTypes, WastersHook DEF Waste, At, ThreadType
  <1>7. TypeOK
    BY DEF Inv, Shape
  <1>2. CASE thr[t].local < S(t).destMemory /\ Recurses(t)
    <2>1. HangsInHook(t) /\ Hang(t) /\ UNCHANGED <<shared, plan, faults, past>>
      BY <1>2 DEF Waste, HangsInHook
    <2>2. QED
      BY <1>1, <1>2, <2>1, HangsInHookTypes, GoesOnWasting
  <1>3. CASE ~(thr[t].local < S(t).destMemory /\ Recurses(t)) /\ thr[t].local < S(t).destMemory /\ Me(t).chunks < MemoryMax
    <2>1. st' = [st EXCEPT ![ProcOf[t]] = [st[ProcOf[t]] EXCEPT !.chunks = st[ProcOf[t]].chunks + 1]]
          /\ Go(t, [thr[t] EXCEPT !.local = thr[t].local + 1]) /\ UNCHANGED <<shared, plan, faults, past>>
      BY <1>3 DEF Waste
    <2>2. st' \in [Proc -> ProcessType] /\ FlagsStay
      <3>1. PICK m \in Nat : m = st[ProcOf[t]].chunks + 1
        BY <1>1 DEF ProcessType
      <3>2. PICK q \in ProcessType : q = [st[ProcOf[t]] EXCEPT !.chunks = m] /\ q.gInsideHook = st[ProcOf[t]].gInsideHook
        BY <1>1, WasteTypes
      <3>3. st' = [st EXCEPT ![ProcOf[t]] = q]
        BY <2>1, <3>1, <3>2
      <3>4. QED
        BY <1>1, <3>2, <3>3, OldTypes DEF FlagsStay
    <2>3. QED
      BY <1>1, <2>1, <2>2, GoesOnWasting
  <1>4. CASE ~(thr[t].local < S(t).destMemory /\ Recurses(t)) /\ ~(thr[t].local < S(t).destMemory /\ Me(t).chunks < MemoryMax)
    <2>1. MemoryDone(t, thr[t].local) /\ Update(t, Flagged(t))
      BY <1>4 DEF Waste
    <2>2. st' \in [Proc -> ProcessType] /\ FlagsStay
      BY <1>7, <2>1, FlaggedTypes, UpdateTypes DEF FlagsStay
    <2>3. QED
      BY <1>1, <2>1, <2>2, MemoryDoneInv
  <1>5. QED
    BY <1>2, <1>3, <1>4

LEMMA DescKeeps == ASSUME Inv, NEW t \in Thread, Desc(t) PROVE Shape'
  <1>1. /\ thr[t].pc = "lock" /\ S(t).mLock = Nobody /\ S(t) \in SegmentType /\ thr[t].hook /\ ProcOf[t] \in Proc
        /\ Placed(Returned(t), ProcOf[t], Len(seg)) /\ Back(Returned(t), thr[t]) /\ n' = n
        /\ st \in [Proc -> ProcessType]
    <2>1. thr[t].pc = "lock" /\ S(t).mLock = Nobody /\ Calling(t, {"desc"}) /\ S(t) \in SegmentType /\ n' = n
      BY HeldFunctions DEF Desc
    <2>2. thr[t].hook
      BY <2>1, WastersHook DEF Calling
    <2>3. QED
      BY <2>1, <2>2, AtLock, OldTypes
  <1>7. TypeOK
    BY DEF Inv, Shape
  <1>2. S(t).desc \in Nat /\ S(t).destDesc \in Nat
    BY <1>1 DEF SegmentType
  <1>3. CASE S(t).desc = S(t).destDesc
    <2>1. Unlock(t, S(t), 0, Returned(t)) /\ st' = st
      BY <1>2, <1>3 DEF Desc
    <2>2. PICK s \in SegmentType : s = S(t)
      BY <1>1
    <2>3. QED
      BY <1>1, <2>1, <2>2, OldTypes, UnlockInv DEF FlagsStay
  <1>4. CASE S(t).desc > S(t).destDesc
    <2> DEFINE closed == (S(t).destDesc + 1) .. S(t).desc
    <2>1. /\ Update(t, [Flagged(t) EXCEPT !.socks = Flagged(t).socks \ closed])
          /\ Unlock(t, [S(t) EXCEPT !.desc = S(t).destDesc], RealLines(S(t)), Returned(t))
      BY <1>2, <1>4 DEF Desc
    <2> HIDE DEF closed
    <2>2. PICK d \in SUBSET Nat : d = Flagged(t).socks \ closed
      BY <1>7, FlaggedTypes DEF ProcessType
    <2>3. PICK q \in ProcessType : q = [Flagged(t) EXCEPT !.socks = d] /\ q.gInsideHook = Flagged(t).gInsideHook
      BY <1>7, FlaggedTypes, WasteTypes
    <2>7. Update(t, q)
      BY <2>1, <2>2, <2>3
    <2>4. st' \in [Proc -> ProcessType] /\ FlagsStay
      BY <1>7, <2>3, <2>7, FlaggedTypes, UpdateTypes DEF FlagsStay
    <2>5. PICK u \in SegmentType : u = [S(t) EXCEPT !.desc = S(t).destDesc] /\ u.mLogLock = S(t).mLogLock
      BY <1>1, <1>2, MemoryTypes
    <2>6. QED
      BY <1>1, <2>1, <2>4, <2>5, OldTypes, UnlockInv
  <1>5. CASE S(t).desc < S(t).destDesc
    <2>1. /\ Keep(t, S(t)) /\ Go(t, [thr[t] EXCEPT !.pc = "open", !.local = S(t).desc])
          /\ UNCHANGED <<keyFile, table, junk, st, plan, faults, past>>
      BY <1>2, <1>5 DEF Desc
    <2>2. QED
      BY <1>1, <1>2, <2>1, StartsWasting
  <1>6. QED
    BY <1>2, <1>3, <1>4, <1>5

LEMMA OpenKeeps == ASSUME Inv, NEW t \in Thread, Open(t) PROVE Shape'
  <1>1. /\ thr[t].pc = "open" /\ S(t).mLock = t /\ thr[t].hook /\ n' = n /\ ProcOf[t] \in Proc
        /\ st \in [Proc -> ProcessType] /\ thr[t].local \in Nat /\ S(t) \in SegmentType
        /\ Placed(Returned(t), ProcOf[t], Len(seg)) /\ Back(Returned(t), thr[t])
    BY OldTypes, WastersHook, AtLock DEF Open, At, ThreadType
  <1>7. TypeOK
    BY DEF Inv, Shape
  <1>2. CASE thr[t].local < S(t).destDesc /\ Recurses(t)
    <2>1. HangsInHook(t) /\ Hang(t) /\ UNCHANGED <<shared, plan, faults, past>>
      BY <1>2 DEF Open, HangsInHook
    <2>2. QED
      BY <1>1, <1>2, <2>1, HangsInHookTypes, GoesOnWasting
  <1>3. CASE ~(thr[t].local < S(t).destDesc /\ Recurses(t)) /\ thr[t].local < S(t).destDesc /\ Cardinality(Me(t).socks) < DescMax
    <2>1. st' = [st EXCEPT ![ProcOf[t]] = [st[ProcOf[t]] EXCEPT !.socks = st[ProcOf[t]].socks \cup {thr[t].local + 1}]]
          /\ Go(t, [thr[t] EXCEPT !.local = thr[t].local + 1]) /\ UNCHANGED <<shared, plan, faults, past>>
      BY <1>3 DEF Open
    <2>2. st' \in [Proc -> ProcessType] /\ FlagsStay
      <3>1. PICK d \in SUBSET Nat : d = st[ProcOf[t]].socks \cup {thr[t].local + 1}
        <4>1. st[ProcOf[t]].socks \in SUBSET Nat
          BY <1>1 DEF ProcessType
        <4>2. thr[t].local + 1 \in Nat
          BY <1>1
        <4>3. QED
          BY <4>1, <4>2
      <3>2. PICK q \in ProcessType : q = [st[ProcOf[t]] EXCEPT !.socks = d] /\ q.gInsideHook = st[ProcOf[t]].gInsideHook
        BY <1>1, WasteTypes
      <3>3. st' = [st EXCEPT ![ProcOf[t]] = q]
        BY <2>1, <3>1, <3>2
      <3>4. QED
        BY <1>1, <3>2, <3>3, OldTypes DEF FlagsStay
    <2>3. QED
      BY <1>1, <2>1, <2>2, GoesOnWasting
  <1>4. CASE ~(thr[t].local < S(t).destDesc /\ Recurses(t)) /\ ~(thr[t].local < S(t).destDesc /\ Cardinality(Me(t).socks) < DescMax)
    <2>1. Unlock(t, [S(t) EXCEPT !.desc = thr[t].local], RealLines(S(t)), Returned(t)) /\ Update(t, Flagged(t))
      BY <1>4 DEF Open
    <2>2. PICK u \in SegmentType : u = [S(t) EXCEPT !.desc = thr[t].local] /\ u.mLogLock = S(t).mLogLock
      BY <1>1, MemoryTypes
    <2>3. st' \in [Proc -> ProcessType] /\ FlagsStay
      BY <1>7, <2>1, FlaggedTypes, UpdateTypes DEF FlagsStay
    <2>4. QED
      BY <1>1, <2>1, <2>2, <2>3, OldTypes, UnlockInv
  <1>5. QED
    BY <1>2, <1>3, <1>4

LEMMA OnwardKeeps == ASSUME Inv, Onward PROVE Shape'
  <1>1. /\ keyFile' = keyFile /\ table' = table /\ seg' = seg /\ junk' = junk /\ st' = st /\ thr' = thr
        /\ faults' = faults /\ n' = n /\ past' = past
    BY DEF Onward, shared, ghosts
  <1>2. plan' \in Seq(Phases)
    BY DEF Onward, Inv, Shape, TypeOK
  <1>3. TypeOK'
    BY <1>1, <1>2 DEF Inv, Shape, TypeOK
  <1>4. LockInv' /\ HooksUp'
    BY <1>1 DEF Inv, Shape, LockInv, LogFree, LockReleased, WasterHolds, HooksUp, Fellows
  <1>5. QED
    BY <1>3, <1>4 DEF Inv, Shape

LEMMA DieKeeps == ASSUME Inv, NEW p \in Server, Die(p) PROVE Shape'
  <1>1. /\ keyFile' = keyFile /\ table' = table /\ junk' = junk /\ plan' = plan /\ n' = n
        /\ Dies(p, Held(p)) /\ past \subseteq past' /\ "died" \in past' /\ faults' = faults + 1
    BY DEF Die, Fault
  <1>2. faults' \in Nat /\ p \in Proc
    BY <1>1 DEF Inv, Shape, TypeOK, Proc
  <1>3. \A i \in Held(p) : i \in DOMAIN seg
    BY DEF Held
  <1>4. PICK locked : locked = Held(p)
    OBVIOUS
  <1>5. QED
    BY <1>1, <1>2, <1>3, <1>4, DiesInv

-----------------------------------------------------------------------------
(* Who works has tried to open the log.                                    *)
OnlyMoves(t) ==
    /\ \E r : thr' = [thr EXCEPT ![t] = r]
    /\ past \subseteq past'
    /\ \A p \in Server : /\ p # ProcOf[t] => st'[p] = st[p]
                         /\ st[p].sOpened => st'[p].sOpened

LEMMA TriesAtWork ==
    ASSUME TypeOK, Tries, NEW t \in Thread, thr[t].pc \notin AtRest, OnlyMoves(t)
    PROVE  Tries'
  <1>1. PICK r : thr' = [thr EXCEPT ![t] = r]
    BY DEF OnlyMoves
  <1>2. \A u \in Thread : u # t => thr'[u] = thr[u]
    BY <1>1 DEF TypeOK
  <1>3. \A p \in Server : Tried(p) => Tried(p)'
    BY DEF Tried, OnlyMoves
  <1>4. ProcOf[t] \in Server => Tried(ProcOf[t])
    BY DEF Tries
  <1>5. QED
    BY <1>2, <1>3, <1>4 DEF Tries, OnlyMoves

LEMMA TriesAtRest ==
    ASSUME TypeOK, Tries, NEW t \in Thread, NEW r, thr' = [thr EXCEPT ![t] = r], past \subseteq past',
           \A p \in Server : /\ st'[p].gHookLoaded = st[p].gHookLoaded /\ (st[p].sOpened => st'[p].sOpened)
                             /\ st'[p].gKey = st[p].gKey \/ Tried(p)',
           r.pc \in AtRest \/ Tried(ProcOf[t])' \/ ProcOf[t] \notin Server
    PROVE  Tries'
  <1>1. \A u \in Thread : u # t => thr'[u] = thr[u]
    BY DEF TypeOK
  <1>2. \A p \in Server : Tried(p) => Tried(p)'
    BY DEF Tried
  <1>3. thr'[t] = r
    BY DEF TypeOK
  <1>4. QED
    BY <1>1, <1>2, <1>3 DEF Tries

LEMMA UnlockMoves ==
    ASSUME NEW t, NEW s, NEW lines, NEW r, Unlock(t, s, lines, r)
    PROVE  (\E q : thr' = [thr EXCEPT ![t] = q]) /\ past \subseteq past'
  BY DEF Unlock, Go, Hang

LEMMA UpdateMoves ==
    ASSUME TypeOK, NEW t \in Thread, NEW q \in ProcessType, Update(t, q), st[ProcOf[t]].sOpened => q.sOpened
    PROVE  \A p \in Server : (p # ProcOf[t] => st'[p] = st[p]) /\ (st[p].sOpened => st'[p].sOpened)
  BY ProcAssumption DEF TypeOK, ProcAssumption, Update, Proc

LEMMA EndMoves ==
    ASSUME TypeOK, NEW t \in Thread, NEW s, NEW lines, NEW r, Unlock(t, s, lines, r), NEW h \in BOOLEAN,
           NEW m \in Nat, NEW d \in SUBSET Nat,
           \/ Update(t, Flagged(t)) \/ Update(t, [Flagged(t) EXCEPT !.gHookLoaded = h])
           \/ Update(t, [Flagged(t) EXCEPT !.chunks = m]) \/ Update(t, [Flagged(t) EXCEPT !.socks = d])
    PROVE  OnlyMoves(t)
  <1>1. Flagged(t) \in ProcessType /\ Flagged(t).sOpened = st[ProcOf[t]].sOpened
    BY FlaggedTypes
  <1>2. \A q \in ProcessType :
          /\ [q EXCEPT !.gHookLoaded = h] \in ProcessType /\ [q EXCEPT !.gHookLoaded = h].sOpened = q.sOpened
          /\ [q EXCEPT !.chunks = m] \in ProcessType /\ [q EXCEPT !.chunks = m].sOpened = q.sOpened
          /\ [q EXCEPT !.socks = d] \in ProcessType /\ [q EXCEPT !.socks = d].sOpened = q.sOpened
    BY DEF ProcessType
  <1>3. PICK q \in ProcessType : Update(t, q) /\ q.sOpened = st[ProcOf[t]].sOpened
    <2>1. CASE Update(t, Flagged(t))
      BY <1>1, <2>1
    <2>2. CASE Update(t, [Flagged(t) EXCEPT !.gHookLoaded = h])
      <3>1. PICK u : u = [Flagged(t) EXCEPT !.gHookLoaded = h]
        OBVIOUS
      <3>2. u \in ProcessType /\ u.sOpened = Flagged(t).sOpened
        BY <1>1, <3>1 DEF ProcessType
      <3>3. Update(t, u)
        BY <2>2, <3>1
      <3>4. QED
        BY <1>1, <3>2, <3>3
    <2>3. CASE Update(t, [Flagged(t) EXCEPT !.chunks = m])
      BY <1>1, <1>2, <2>3
    <2>4. CASE Update(t, [Flagged(t) EXCEPT !.socks = d])
      BY <1>1, <1>2, <2>4
    <2>5. QED
      BY <2>1, <2>2, <2>3, <2>4
  <1>4. QED
    BY <1>3, UnlockMoves, UpdateMoves DEF OnlyMoves

LEMMA HangMoves ==
    ASSUME TypeOK, NEW t \in Thread, HangsInHook(t), past \subseteq past'
    PROVE  OnlyMoves(t)
  <1>1. ProcOf[t] \in Proc /\ st[ProcOf[t]] \in ProcessType
    BY ProcAssumption DEF TypeOK, ProcAssumption
  <1>2. PICK q \in ProcessType : q = [st[ProcOf[t]] EXCEPT !.gInsideHook = TRUE] /\ q.sOpened = st[ProcOf[t]].sOpened
    <2>1. \A r \in ProcessType : [r EXCEPT !.gInsideHook = TRUE] \in ProcessType /\ [r EXCEPT !.gInsideHook = TRUE].sOpened = r.sOpened
      BY DEF ProcessType
    <2>2. QED
      BY <1>1, <2>1
  <1>3. Update(t, q)
    BY <1>2 DEF HangsInHook, Me
  <1>4. QED
    BY <1>2, <1>3, UpdateMoves DEF OnlyMoves, HangsInHook, Hang, Go

LEMMA TriesPlain ==
    ASSUME Inv, NEW t \in Thread,
           \/ Truncate(t) \/ WriteKey(t) \/ Destroy(t) \/ RemoveKeyFile(t) \/ WasteDisk(t) \/ Attach(t) \/ SetKey(t)
           \/ Create(t) \/ PointDone(t) \/ PointChange(t) \/ Logging(t) \/ AddLog(t) \/ SetWaste(t)
    PROVE  Tries'
  <1>1. TypeOK /\ Tries /\ st \in [Proc -> ProcessType] /\ ProcOf[t] \in Proc /\ Server \subseteq Proc
    BY OldTypes DEF Inv, Shape, Proc
  <1>2. thr[t].pc \notin AtRest
    BY DEF Truncate, WriteKey, Destroy, RemoveKeyFile, WasteDisk, Attach, SetKey, Create, PointDone, PointChange,
           Logging, AddLog, SetWaste, Locks, At, AtRest
  <1>3. /\ \E r : thr' = [thr EXCEPT ![t] = r]
        /\ past \subseteq past'
    <2>1. CASE Truncate(t) \/ WriteKey(t) \/ Destroy(t) \/ RemoveKeyFile(t) \/ WasteDisk(t) \/ Attach(t) \/ SetKey(t)
      BY <2>1 DEF Truncate, WriteKey, Destroy, RemoveKeyFile, WasteDisk, Attach, SetKey, Go, ghosts
    <2>2. CASE Create(t) \/ PointDone(t) \/ AddLog(t)
      BY <2>2 DEF Create, PointDone, AddLog, Go, Hang
    <2>3. CASE PointChange(t)
      BY <2>3, UnlockMoves DEF PointChange
    <2>4. CASE Logging(t)
      <3>1. PICK s, lines, r : Unlock(t, s, lines, r)
        BY <2>4 DEF Logging
      <3>2. QED
        BY <3>1, UnlockMoves
    <2>5. CASE SetWaste(t)
      <3>1. PICK s, lines, r : Unlock(t, s, lines, r)
        BY <2>5 DEF SetWaste
      <3>2. QED
        BY <3>1, UnlockMoves
    <2>6. QED
      BY <2>1, <2>2, <2>3, <2>4, <2>5
  <1>4. \A p \in Server : (p # ProcOf[t] => st'[p] = st[p]) /\ (st[p].sOpened => st'[p].sOpened)
    <2>1. CASE st' = st
      BY <2>1
    <2>2. ASSUME NEW k, st' = [st EXCEPT ![ProcOf[t]].gKey = k]
          PROVE  \A p \in Server : (p # ProcOf[t] => st'[p] = st[p]) /\ (st[p].sOpened => st'[p].sOpened)
      BY <1>1, <2>2 DEF ProcessType
    <2>3. CASE st' = [st EXCEPT ![ProcOf[t]].sOpened = TRUE]
      BY <1>1, <2>3 DEF ProcessType
    <2>4. (st' = st) \/ (\E k : st' = [st EXCEPT ![ProcOf[t]].gKey = k]) \/ (st' = [st EXCEPT ![ProcOf[t]].sOpened = TRUE])
      BY DEF Truncate, WriteKey, Destroy, RemoveKeyFile, WasteDisk, Attach, SetKey, Create, PointDone, PointChange,
             Logging, AddLog, SetWaste, KeepKey
    <2>5. QED
      BY <2>1, <2>2, <2>3, <2>4
  <1>5. QED
    BY <1>1, <1>2, <1>3, <1>4, TriesAtWork DEF OnlyMoves

LEMMA TriesAtCalls ==
    ASSUME Inv, NEW t \in Thread,
           LimitPoint(t) \/ LimitPointDone(t) \/ Hook(t) \/ Enter(t) \/ Leave(t) \/ Command(t) \/ IsProceeding(t)
    PROVE  Tries'
  <1>1. TypeOK /\ Tries /\ st \in [Proc -> ProcessType] /\ ProcOf[t] \in Proc /\ Server \subseteq Proc
        /\ thr[t] \in ThreadType
    BY OldTypes DEF Inv, Shape, Proc
  <1>2. CASE LimitPoint(t) \/ LimitPointDone(t) \/ Hook(t)
    <2>1. st' = st /\ past' = past
      BY <1>2 DEF LimitPoint, LimitPointDone, Hook, Call, ghosts
    <2>2. PICK r : /\ thr' = [thr EXCEPT ![t] = r]
                   /\ \/ r = Idle
                      \/ \E w : r = [Idle EXCEPT !.pc = "proceed", !.todo = w] \/ r = [Idle EXCEPT !.pc = "enter", !.todo = w]
      BY <1>2 DEF LimitPoint, LimitPointDone, Hook, Go
    <2>4. r.pc \in AtRest
      <3>1. \A w : [Idle EXCEPT !.pc = "proceed", !.todo = w].pc = "proceed" /\ [Idle EXCEPT !.pc = "enter", !.todo = w].pc = "enter"
        BY DEF Idle
      <3>2. Idle.pc = "idle"
        BY DEF Idle
      <3>3. r.pc \in {"idle", "proceed", "enter"}
        BY <2>2, <3>1, <3>2, Zenon
      <3>4. QED
        BY <3>3 DEF AtRest
    <2>3. QED
      BY <1>1, <2>1, <2>2, <2>4, TriesAtRest
  <1>3. CASE Enter(t)
    <2>1. /\ \A p \in Server : /\ st'[p].gHookLoaded = st[p].gHookLoaded /\ (st[p].sOpened => st'[p].sOpened)
                                /\ st'[p].gKey = st[p].gKey
          /\ past \subseteq past'
      <3>1. st' = [st EXCEPT ![ProcOf[t]] = [st[ProcOf[t]] EXCEPT !.gInsideHook = TRUE]] /\ past \subseteq past'
        BY <1>3 DEF Enter, EnterWith
      <3>2. QED
        BY <1>1, <3>1 DEF ProcessType
    <2>2. PICK r : /\ thr' = [thr EXCEPT ![t] = r]
                   /\ r = [thr[t] EXCEPT !.hook = TRUE,
                                         !.pc = IF Me(t).gHookLoaded /\ thr[t].todo # <<>> THEN "attach" ELSE "leave"]
      BY <1>3 DEF Enter, EnterWith, Go
    <2>3. r.pc \in AtRest \/ Me(t).gHookLoaded
      BY <1>1, <2>2 DEF ThreadType, AtRest
    <2>4. Me(t).gHookLoaded /\ ProcOf[t] \in Server => Tried(ProcOf[t])'
      BY <1>1, <2>1 DEF Tries, Tried, Me
    <2>5. QED
      BY <1>1, <2>1, <2>2, <2>3, <2>4, TriesAtRest
  <1>4. CASE Leave(t)
    <2>1. st' = [st EXCEPT ![ProcOf[t]] = [st[ProcOf[t]] EXCEPT !.gInsideHook = FALSE]] /\ past' = past
      BY <1>4 DEF Leave, ghosts
    <2>2. \A p \in Server : /\ st'[p].gHookLoaded = st[p].gHookLoaded /\ (st[p].sOpened => st'[p].sOpened)
                            /\ st'[p].gKey = st[p].gKey
      BY <1>1, <2>1 DEF ProcessType
    <2>3. thr' = [thr EXCEPT ![t] = Idle] /\ Idle.pc \in AtRest
      BY <1>4 DEF Leave, Go, Idle, AtRest
    <2>4. QED
      BY <1>1, <2>1, <2>2, <2>3, TriesAtRest
  <1>5. CASE Command(t)
    <2>1. ProcOf[t] \in Tool /\ ProcOf[t] \notin Server
      <3>1. ProcOf[t] \in Tool
        BY <1>1, <1>5, CallTypes, ServersAsk DEF Command
      <3>2. QED
        BY <3>1, ProcAssumption DEF ProcAssumption
    <2>2. \A p \in Server : st'[p] = st[p]
      BY <1>1, <1>5, <2>1 DEF Command
    <2>3. PICK r : thr' = [thr EXCEPT ![t] = r]
      BY <1>5 DEF Command, Go
    <2>4. past' = past
      BY <1>5 DEF Command, Call, ghosts
    <2>5. QED
      BY <1>1, <2>1, <2>2, <2>3, <2>4, TriesAtRest
  <1>6. CASE IsProceeding(t)
    <2>1. PICK r : thr' = [thr EXCEPT ![t] = r]
      BY <1>6 DEF IsProceeding, Go
    <2>2. PICK o \in IF Opening(t) THEN BOOLEAN ELSE {Me(t).sOpened} :
            /\ st' = [st EXCEPT ![ProcOf[t]].gKey = KeySeen(ProcOf[t]), ![ProcOf[t]].sOpened = o]
            /\ past \subseteq past' /\ (Opening(t) /\ ~o => "unopened" \in past')
      BY <1>6 DEF IsProceeding
    <2>3. st' = [st EXCEPT ![ProcOf[t]] = [[st[ProcOf[t]] EXCEPT !.gKey = KeySeen(ProcOf[t])] EXCEPT !.sOpened = o]]
      BY <1>1, <2>2
    <2>4. /\ st'[ProcOf[t]].sOpened = o /\ st'[ProcOf[t]].gHookLoaded = st[ProcOf[t]].gHookLoaded
          /\ \A p \in Proc : p # ProcOf[t] => st'[p] = st[p]
      BY <1>1, <2>3 DEF ProcessType
    <2>5. ProcOf[t] \in Server => o \/ "unopened" \in past'
      <3>1. CASE Opening(t)
        BY <2>2, <3>1
      <3>2. CASE ~Opening(t) /\ ProcOf[t] \in Server
        <4>1. st[ProcOf[t]].sOpened \/ st[ProcOf[t]].gKey # 0
          BY <3>2 DEF Opening
        <4>2. Tried(ProcOf[t]) /\ o = st[ProcOf[t]].sOpened
          BY <1>1, <2>2, <3>2, <4>1 DEF Tries, Tried, Me
        <4>3. QED
          BY <2>2, <4>2 DEF Tried
      <3>3. QED
        BY <3>1, <3>2
    <2>6. Tried(ProcOf[t])' \/ ProcOf[t] \notin Server
      BY <2>4, <2>5 DEF Tried
    <2>7. \A p \in Server : /\ st'[p].gHookLoaded = st[p].gHookLoaded /\ (st[p].sOpened => st'[p].sOpened)
                            /\ st'[p].gKey = st[p].gKey \/ Tried(p)'
      <3>1. ProcOf[t] \in Server /\ st[ProcOf[t]].sOpened => o
        BY <2>2 DEF Opening, Me
      <3>2. QED
        BY <1>1, <2>4, <2>6, <3>1
    <2>8. QED
      BY <1>1, <2>1, <2>2, <2>6, <2>7, TriesAtRest
  <1>7. QED
    BY <1>2, <1>3, <1>4, <1>5, <1>6

LEMMA TriesAtDeath ==
    ASSUME TypeOK, Tries, NEW p, NEW locked, Dies(p, locked), past \subseteq past'
    PROVE  Tries'
  <1>1. \A q \in Server : IF q = p THEN ~st'[q].gHookLoaded /\ st'[q].gKey = 0 ELSE st'[q] = st[q]
    BY DEF Dies, TypeOK, NewProcess, Proc
  <1>2. \A u \in Thread : thr'[u] = IF ProcOf[u] = p THEN Idle ELSE thr[u]
    BY DEF Dies
  <1>3. Idle.pc \in AtRest
    BY DEF Idle, AtRest
  <1>4. \A q \in Server : q # p /\ Tried(q) => Tried(q)'
    BY <1>1 DEF Tried
  <1>5. QED
    BY <1>1, <1>2, <1>3, <1>4 DEF Tries

LEMMA TriesAtHooks ==
    ASSUME Inv, NEW t \in Thread, PointPass(t) \/ StackRecurses(t) \/ Memory(t) \/ Waste(t) \/ Desc(t) \/ Open(t)
    PROVE  Tries'
  <1>1. TypeOK /\ Tries /\ st \in [Proc -> ProcessType] /\ ProcOf[t] \in Proc /\ Server \subseteq Proc
        /\ Flagged(t) \in ProcessType /\ thr[t] \in ThreadType
    BY OldTypes, FlaggedTypes DEF Inv, Shape, Proc
  <1>2. thr[t].pc \notin AtRest /\ S(t) \in SegmentType
    <2>1. thr[t].pc \in {"lock", "waste", "open"}
      BY DEF PointPass, StackRecurses, Memory, Waste, Desc, Open, Locks, At
    <2>2. QED
      BY <2>1, AtLock DEF AtRest
  <1>3. ASSUME NEW s, NEW lines, NEW r, Unlock(t, s, lines, r),
               NEW h \in BOOLEAN, NEW m \in Nat, NEW d \in SUBSET Nat,
               \/ Update(t, Flagged(t)) \/ Update(t, [Flagged(t) EXCEPT !.gHookLoaded = h])
               \/ Update(t, [Flagged(t) EXCEPT !.chunks = m]) \/ Update(t, [Flagged(t) EXCEPT !.socks = d])
        PROVE  Tries'
    BY <1>1, <1>2, <1>3, EndMoves, TriesAtWork
  <1>4. ASSUME UNCHANGED st, \E r : thr' = [thr EXCEPT ![t] = r], past \subseteq past'
        PROVE  Tries'
    BY <1>1, <1>2, <1>4, TriesAtWork DEF OnlyMoves
  <1>5. ASSUME HangsInHook(t), past \subseteq past'
        PROVE  Tries'
    BY <1>1, <1>2, <1>5, HangMoves, TriesAtWork
  <1>6. CASE PointPass(t)
    <2>1. PICK b \in BOOLEAN : b = ((thr'[t].pc # "hung") \/ Flagged(t).gHookLoaded)
      OBVIOUS
    <2>2. \E s, lines, r : /\ Unlock(t, s, lines, r)
                           /\ Update(t, Flagged(t)) \/ Update(t, [Flagged(t) EXCEPT !.gHookLoaded = b])
      BY <1>6, <2>1 DEF PointPass
    <2>3. QED
      BY <1>3, <2>2
  <1>7. CASE StackRecurses(t)
    BY <1>5, <1>7 DEF StackRecurses
  <1>8. CASE Memory(t)
    <2>1. CASE FreeMemory(t)
      <3>1. CASE Me(t).chunks = 0
        BY <1>3, <2>1, <3>1 DEF FreeMemory, MemoryDone
      <3>2. CASE Me(t).chunks # 0 /\ S(t).memory - S(t).destMemory <= Me(t).chunks
        <4>1. PICK m \in Int : m = S(t).memory - S(t).destMemory
          BY <1>2 DEF SegmentType
        <4>2. PICK k \in Nat : k = Flagged(t).chunks - m
          BY <1>1, <3>2, <4>1, FlaggedTypes DEF ProcessType, Me
        <4>3. Update(t, [Flagged(t) EXCEPT !.chunks = k]) /\ MemoryDone(t, S(t).destMemory)
          BY <2>1, <3>2, <4>1, <4>2 DEF FreeMemory
        <4>4. QED
          BY <1>3, <4>3 DEF MemoryDone
      <3>3. CASE Me(t).chunks # 0 /\ ~(S(t).memory - S(t).destMemory <= Me(t).chunks)
        <4>1. Dies(ProcOf[t], Held(ProcOf[t]) \cup {thr[t].at}) /\ past \subseteq past'
          BY <2>1, <3>3 DEF FreeMemory
        <4>2. QED
          BY <1>1, <4>1, TriesAtDeath
      <3>4. QED
        BY <3>1, <3>2, <3>3
    <2>2. CASE S(t).memory = S(t).destMemory /\ Unlock(t, S(t), 0, Returned(t)) /\ UNCHANGED st
      BY <1>4, <2>2, UnlockMoves
    <2>3. CASE (\E r : Go(t, r)) /\ UNCHANGED <<st, past>>
      BY <1>4, <2>3 DEF Go
    <2>4. QED
      BY <1>8, <2>1, <2>2, <2>3 DEF Memory
  <1>9. CASE Waste(t)
    <2>1. CASE HangsInHook(t) /\ UNCHANGED past
      BY <1>5, <2>1
    <2>2. CASE MemoryDone(t, thr[t].local) /\ Update(t, Flagged(t))
      BY <1>3, <2>2 DEF MemoryDone
    <2>3. CASE /\ st' = [st EXCEPT ![ProcOf[t]].chunks = st[ProcOf[t]].chunks + 1] /\ UNCHANGED past
               /\ Go(t, [thr[t] EXCEPT !.local = thr[t].local + 1])
      <3>1. OnlyMoves(t)
        BY <1>1, <2>3 DEF OnlyMoves, Go, ProcessType
      <3>2. QED
        BY <1>1, <1>2, <3>1, TriesAtWork
    <2>4. QED
      BY <1>9, <2>1, <2>2, <2>3 DEF Waste
  <1>10. CASE Desc(t)
    <2>1. CASE S(t).desc = S(t).destDesc /\ Unlock(t, S(t), 0, Returned(t)) /\ UNCHANGED st
      BY <1>4, <2>1, UnlockMoves
    <2>2. CASE \E s, lines, r : /\ Unlock(t, s, lines, r)
                               /\ Update(t, [Flagged(t) EXCEPT !.socks = @ \ ((S(t).destDesc + 1)..S(t).desc)])
      <3>1. PICK d \in SUBSET Nat : d = Flagged(t).socks \ ((S(t).destDesc + 1)..S(t).desc)
        BY <1>1 DEF ProcessType
      <3>2. PICK s, lines, r : Unlock(t, s, lines, r) /\ Update(t, [Flagged(t) EXCEPT !.socks = d])
        BY <2>2, <3>1
      <3>3. QED
        BY <1>3, <3>2
    <2>3. CASE (\E r : Go(t, r)) /\ UNCHANGED <<st, past>>
      BY <1>4, <2>3 DEF Go
    <2>4. QED
      BY <1>10, <2>1, <2>2, <2>3 DEF Desc
  <1>11. CASE Open(t)
    <2>1. CASE HangsInHook(t) /\ UNCHANGED past
      BY <1>5, <2>1
    <2>2. CASE \E s, lines, r : Unlock(t, s, lines, r) /\ Update(t, Flagged(t))
      BY <1>3, <2>2
    <2>3. CASE /\ st' = [st EXCEPT ![ProcOf[t]].socks = st[ProcOf[t]].socks \cup {thr[t].local + 1}] /\ UNCHANGED past
               /\ Go(t, [thr[t] EXCEPT !.local = thr[t].local + 1])
      <3>1. OnlyMoves(t)
        BY <1>1, <2>3 DEF OnlyMoves, Go, ProcessType
      <3>2. QED
        BY <1>1, <1>2, <3>1, TriesAtWork
    <2>4. QED
      BY <1>11, <2>1, <2>2, <2>3 DEF Open
  <1>12. QED
    BY <1>6, <1>7, <1>8, <1>9, <1>10, <1>11

-----------------------------------------------------------------------------
LEMMA InitInv == Init => Inv
  <1> SUFFICES ASSUME Init PROVE Inv
    OBVIOUS
  <1>2. seg = <<>> /\ Len(seg) = 0 /\ seg \in Seq(SegmentType) /\ table \in [Key -> 0 .. Len(seg)]
    BY DEF Init
  <1>3. \A t \in Thread : thr[t] = Idle /\ Placed(thr[t], ProcOf[t], Len(seg))
    BY <1>2, IdlePlaced DEF Init
  <1>4. thr \in [Thread -> ThreadType]
    BY <1>2, IdlePlaced DEF Init
  <1>5. NewProcess(1) \in ProcessType
    BY DEF NewProcess, ProcessType
  <1>6. st \in [Proc -> ProcessType]
    BY <1>5 DEF Init
  <1>7. keyFile \in Key \cup {0, None} /\ plan \in Seq(Phases) /\ faults \in Nat /\ junk \in Nat /\ n \in [Thread -> Nat]
    BY PlansAssumption DEF Init, PlansAssumption
  <1>8. TypeOK
    BY <1>2, <1>3, <1>4, <1>6, <1>7 DEF TypeOK
  <1>9. LockInv /\ HooksUp
    BY <1>2, <1>3, IdlePlaced DEF LockInv, LogFree, LockReleased, WasterHolds, HooksUp
  <1>10. Tries
    BY <1>3, IdlePlaced DEF Tries, Init, NewProcess, AtRest, Proc
  <1>11. QED
    BY <1>8, <1>9, <1>10 DEF Inv, Shape

LEMMA NextInv == Inv /\ [Next]_vars => Inv'
  <1>1. SUFFICES ASSUME Inv, [Next]_vars PROVE Inv'
    OBVIOUS
  <1>2. CASE UNCHANGED vars
    BY <1>1, <1>2 DEF Inv, Shape, TypeOK, LockInv, LogFree, LockReleased, WasterHolds, HooksUp, Fellows, Tries, Tried,
       vars, shared, ghosts
  <1>3. ASSUME NEW t \in Thread, ThreadStep(t)
        PROVE  Inv'
    <2>1. Shape'
      BY <1>1, <1>3, LimitPointKeeps, HookKeeps, EnterKeeps, LeaveKeeps, CommandKeeps, ProceedKeeps, KeyFileKeeps,
         WasteDiskKeeps, AttachKeeps, SetKeyKeeps, CreateKeeps, PointPassKeeps, StackKeeps, PointDoneKeeps,
         PointChangeKeeps, LoggingKeeps, AddLogKeeps, SetWasteKeeps, MemoryKeeps, WasteKeeps, DescKeeps, OpenKeeps
      DEF ThreadStep
    <2>2. Tries'
      BY <1>1, <1>3, TriesPlain, TriesAtCalls, TriesAtHooks DEF ThreadStep
    <2>3. QED
      BY <2>1, <2>2 DEF Inv
  <1>4. ASSUME NEW p \in Server, Die(p)
        PROVE  Inv'
    <2>1. TypeOK /\ Tries /\ Dies(p, Held(p)) /\ past \subseteq past'
      BY <1>1, <1>4 DEF Inv, Shape, Die
    <2>2. QED
      BY <1>1, <1>4, <2>1, DieKeeps, TriesAtDeath DEF Inv
  <1>5. CASE Onward
    <2>1. Tries'
      BY <1>1, <1>5 DEF Inv, Tries, Tried, Onward, ghosts
    <2>2. QED
      BY <1>1, <1>5, <2>1, OnwardKeeps DEF Inv
  <1>6. QED
    BY <1>1, <1>2, <1>3, <1>4, <1>5 DEF Next

(* What every function of allib.c keeps. *)
THEOREM SpecInv == Spec => []Inv
  BY InitInv, NextInv, PTL DEF Spec

(* The lock of the segment comes back, with whatever the servers and tools *)
(* call, unless one of the accidents the property names happened: who has  *)
(* it is wasting memory or descriptors, or hangs because of an accident.   *)
THEOREM LocksReleased == Spec => []LockReleased
  <1>1. Inv => LockReleased
    BY DEF Inv, Shape, LockInv
  <1>2. QED
    BY <1>1, SpecInv, PTL

-----------------------------------------------------------------------------
(* What the functions that work under the lock do to the rest: a function  *)
(* ends with the segment as s, but for its locks, or its thread hangs.     *)
Quits == {"idle", "attach", "leave"}

Ends(t, s) ==
    /\ \E u, r :
         /\ seg' = [seg EXCEPT ![thr[t].at] = u] /\ thr' = [thr EXCEPT ![t] = r] /\ Alike(s, u)
         /\ \/ u.mLock = Nobody /\ r.pc \in Quits
            \/ u.mLock = t /\ r.pc = "hung"
            \/ u.mLock = S(t).mLock /\ thr[t].pc = "lock" /\ r.pc \in Quits \cup {"hung"}
    /\ UNCHANGED <<keyFile, table>> /\ past \subseteq past'
    /\ thr[t].pc \in {"lock", "waste", "open"} /\ thr[t].at \in 1 .. Len(seg)

(* The data of the processes that the properties are about. *)
SameData ==
    \A p \in Proc : /\ st'[p].gKey = st[p].gKey /\ st'[p].chunks = st[p].chunks
                    /\ st'[p].socks = st[p].socks /\ st'[p].run = st[p].run

(* The process of t afterwards has c chunks and the sockets d. *)
Data(t, c, d) ==
    \A p \in Proc : /\ st'[p].gKey = st[p].gKey /\ st'[p].run = st[p].run
                    /\ st'[p].chunks = IF p = ProcOf[t] THEN c ELSE st[p].chunks
                    /\ st'[p].socks = IF p = ProcOf[t] THEN d ELSE st[p].socks

LEMMA UpdatesData ==
    ASSUME TypeOK, NEW t \in Thread, NEW h \in BOOLEAN, NEW m \in Nat, NEW d \in SUBSET Nat
    PROVE  /\ Update(t, Flagged(t)) => SameData
           /\ Update(t, [Flagged(t) EXCEPT !.gHookLoaded = h]) => SameData
           /\ Update(t, [Flagged(t) EXCEPT !.chunks = m]) => Data(t, m, Me(t).socks)
           /\ Update(t, [Flagged(t) EXCEPT !.socks = d]) => Data(t, Me(t).chunks, d)
           /\ HangsInHook(t) => SameData
  <1>1. st \in [Proc -> ProcessType] /\ ProcOf[t] \in Proc /\ st[ProcOf[t]] \in ProcessType /\ Flagged(t) \in ProcessType
        /\ Flagged(t).gKey = st[ProcOf[t]].gKey /\ Flagged(t).run = st[ProcOf[t]].run
        /\ Flagged(t).chunks = st[ProcOf[t]].chunks /\ Flagged(t).socks = st[ProcOf[t]].socks
    BY FlaggedTypes DEF TypeOK
  <1>2. \A q : Update(t, q) => \A p \in Proc : st'[p] = IF p = ProcOf[t] THEN q ELSE st[p]
    BY <1>1 DEF Update
  <1>3. ASSUME NEW q \in ProcessType, q.gKey = st[ProcOf[t]].gKey, q.run = st[ProcOf[t]].run,
               q.chunks = st[ProcOf[t]].chunks, q.socks = st[ProcOf[t]].socks
        PROVE  /\ Update(t, [q EXCEPT !.gHookLoaded = h]) \/ Update(t, [q EXCEPT !.gInsideHook = TRUE]) => SameData
               /\ Update(t, [q EXCEPT !.chunks = m]) => Data(t, m, q.socks)
               /\ Update(t, [q EXCEPT !.socks = d]) => Data(t, q.chunks, d)
    <2>1. ASSUME Update(t, [q EXCEPT !.gHookLoaded = h]) \/ Update(t, [q EXCEPT !.gInsideHook = TRUE])
          PROVE  SameData
      <3>1. \A u \in {[q EXCEPT !.gHookLoaded = h], [q EXCEPT !.gInsideHook = TRUE]} :
              u.gKey = q.gKey /\ u.run = q.run /\ u.chunks = q.chunks /\ u.socks = q.socks
        BY DEF ProcessType
      <3>2. PICK u : Update(t, u) /\ u \in {[q EXCEPT !.gHookLoaded = h], [q EXCEPT !.gInsideHook = TRUE]}
        BY <2>1
      <3>3. SameData
        <4>1. u.gKey = q.gKey /\ u.run = q.run /\ u.chunks = q.chunks /\ u.socks = q.socks
          BY <3>1, <3>2
        <4>2. QED
          BY <1>2, <1>3, <3>2, <4>1 DEF SameData
      <3>4. QED
        BY <3>3
    <2>2. ASSUME Update(t, [q EXCEPT !.chunks = m])
          PROVE  Data(t, m, q.socks)
      <3>1. PICK u : u = [q EXCEPT !.chunks = m]
        OBVIOUS
      <3>2. u.gKey = q.gKey /\ u.run = q.run /\ u.chunks = m /\ u.socks = q.socks
        BY <3>1 DEF ProcessType
      <3>3. Update(t, u)
        BY <2>2, <3>1
      <3>4. QED
        BY <1>2, <1>3, <3>2, <3>3 DEF Data
    <2>3. ASSUME Update(t, [q EXCEPT !.socks = d])
          PROVE  Data(t, q.chunks, d)
      <3>1. PICK u : u = [q EXCEPT !.socks = d]
        OBVIOUS
      <3>2. u.gKey = q.gKey /\ u.run = q.run /\ u.chunks = q.chunks /\ u.socks = d
        BY <3>1 DEF ProcessType
      <3>3. Update(t, u)
        BY <2>3, <3>1
      <3>4. QED
        BY <1>2, <1>3, <3>2, <3>3 DEF Data
    <2>4. QED
      BY <2>1, <2>2, <2>3
  <1>4. Update(t, Flagged(t)) => SameData
    BY <1>1, <1>2 DEF SameData
  <1>5. Update(t, [Flagged(t) EXCEPT !.gHookLoaded = h]) => SameData
    BY <1>1, <1>3
  <1>6. Update(t, [Flagged(t) EXCEPT !.chunks = m]) => Data(t, m, Me(t).socks)
    BY <1>1, <1>3 DEF Me
  <1>7. Update(t, [Flagged(t) EXCEPT !.socks = d]) => Data(t, Me(t).chunks, d)
    BY <1>1, <1>3 DEF Me
  <1>8. HangsInHook(t) => SameData
    <2>1. HangsInHook(t) => Update(t, [st[ProcOf[t]] EXCEPT !.gInsideHook = TRUE])
      BY DEF HangsInHook, Me
    <2>2. QED
      BY <1>1, <1>3, <2>1
  <1>9. QED
    BY <1>4, <1>5, <1>6, <1>7, <1>8

LEMMA UnlockEndsIt ==
    ASSUME Inv, NEW t \in Thread, thr[t].pc \in {"lock", "waste", "open"}, NEW s \in SegmentType,
           s.mLogLock = S(t).mLogLock, NEW lines, NEW r, r.pc \in Quits, Unlock(t, s, lines, r)
    PROVE  Ends(t, s)
  <1>1. TypeOK /\ LockInv /\ thr[t].at \in 1 .. Len(seg) /\ thr[t] \in ThreadType
        /\ (OpenRecurses(t) => past \cap Hangs # {})
    BY AtLock, OldTypes DEF Inv, Shape
  <1>2. PICK u : Ended(t, u, r) /\ Alike(s, u)
    BY <1>1, UnlockEnds
  <1>3. UNCHANGED <<keyFile, table>>
    BY <1>1, UnlockEnds
  <1>4. [thr[t] EXCEPT !.pc = "hung"].pc = "hung"
    BY <1>1 DEF ThreadType
  <1>5. QED
    BY <1>1, <1>2, <1>3, <1>4 DEF Ended, Ends

LEMMA PointPassEnds ==
    ASSUME Inv, NEW t \in Thread, PointPass(t)
    PROVE  /\ SameData /\ UNCHANGED moves /\ F(t).v \in Point
           /\ \/ Ends(t, S(t)) /\ UNCHANGED <<n, last>>
              \/ \E i \in MySlots(S(t), t) :
                   /\ Ends(t, Passed(S(t), t, F(t).v, i))
                   /\ IF Counted(S(t), F(t).v)
                      THEN /\ n' = [n EXCEPT ![t] = IF Activates(S(t), F(t).v, i) THEN 0 ELSE n[t] + 1]
                           /\ last' = [hit |-> Activates(S(t), F(t).v, i), n |-> n[t] + 1, count |-> S(t).count]
                      ELSE UNCHANGED <<n, last>>
  <1>1. thr[t].pc = "lock" /\ Calling(t, {"pass"})
    BY DEF PointPass, Locks, At
  <1>2. S(t) \in SegmentType /\ Returned(t).pc \in Quits /\ Failed(t).pc \in Quits /\ F(t).v \in Point
    BY <1>1, AtLock, HeadTypes DEF Back, Quits
  <1>3. CASE /\ MySlots(S(t), t) = {}
             /\ Unlock(t, S(t), IF Writes(S(t), "pass") THEN 1 ELSE 0, Failed(t))
             /\ Update(t, Flagged(t)) /\ UNCHANGED <<n, last, moves>>
    <2>1. PICK s \in SegmentType : s = S(t)
      BY <1>2
    <2>2. Ends(t, S(t))
      BY <1>1, <1>2, <1>3, <2>1, UnlockEndsIt
    <2>3. SameData
      BY <1>3, UpdatesData DEF Inv, Shape
    <2>4. QED
      BY <1>2, <1>3, <2>2, <2>3
  <1>4. ASSUME NEW i \in MySlots(S(t), t),
               Unlock(t, Passed(S(t), t, F(t).v, i), PassLines(S(t), F(t).v, i), Returned(t)),
               Update(t, [Flagged(t) EXCEPT !.gHookLoaded = (thr'[t].pc # "hung") \/ @])
        PROVE  Ends(t, Passed(S(t), t, F(t).v, i)) /\ SameData
    <2>1. Passed(S(t), t, F(t).v, i) \in SegmentType /\ Passed(S(t), t, F(t).v, i).mLogLock = S(t).mLogLock
      BY <1>2, SegmentTypes, LogLockKept DEF MySlots
    <2>2. PICK s \in SegmentType : s = Passed(S(t), t, F(t).v, i)
      BY <2>1
    <2>3. Ends(t, s)
      BY <1>1, <1>2, <1>4, <2>1, <2>2, UnlockEndsIt
    <2>4. SameData
      <3>1. PICK b \in BOOLEAN : b = ((thr'[t].pc # "hung") \/ Flagged(t).gHookLoaded)
        OBVIOUS
      <3>2. Update(t, [Flagged(t) EXCEPT !.gHookLoaded = b])
        BY <1>4, <3>1
      <3>3. QED
        BY <3>2, UpdatesData DEF Inv, Shape
    <2>5. QED
      BY <2>2, <2>3, <2>4
  <1>5. QED
    BY <1>2, <1>3, <1>4 DEF PointPass

(* A function that changes neither the point nor what is wasted. *)
LEMMA EndsAlike ==
    ASSUME NEW t \in Thread, NEW s, Ends(t, s), Alike(S(t), s)
    PROVE  Ends(t, S(t))
  <1>1. \A u : Alike(s, u) => Alike(S(t), u)
    BY DEF Alike
  <1>2. QED
    BY <1>1 DEF Ends

LEMMA StackEnds ==
    ASSUME Inv, NEW t \in Thread, StackRecurses(t)
    PROVE  Ends(t, S(t)) /\ SameData /\ UNCHANGED <<n, last, moves>>
  <1>1. thr[t].pc = "lock" /\ thr[t] \in ThreadType /\ S(t) \in SegmentType /\ thr[t].at \in 1 .. Len(seg)
    BY AtLock, OldTypes DEF StackRecurses, Locks, At
  <1>2. PICK u : u = [[S(t) EXCEPT !.mLogLock = TRUE] EXCEPT !.mLock = t]
    OBVIOUS
  <1>3. /\ seg' = [seg EXCEPT ![thr[t].at] = u]
        /\ thr' = [thr EXCEPT ![t] = [thr[t] EXCEPT !.pc = "hung"]]
        /\ HangsInHook(t) /\ UNCHANGED <<keyFile, table, n, last, moves>> /\ past \subseteq past'
    BY <1>2 DEF StackRecurses, Keep, Put, HangsInHook, Hang, Go
  <1>4. u.mLock = t /\ Alike(S(t), u) /\ [thr[t] EXCEPT !.pc = "hung"].pc = "hung"
    BY <1>1, <1>2 DEF SegmentType, ThreadType, Alike
  <1>5. SameData
    BY <1>3, UpdatesData DEF Inv, Shape
  <1>6. QED
    BY <1>1, <1>3, <1>4, <1>5 DEF Ends

LEMMA LoggingEnds ==
    ASSUME Inv, NEW t \in Thread, Logging(t)
    PROVE  Ends(t, S(t)) /\ UNCHANGED <<st, n, last, moves>>
  <1>1. thr[t].pc = "lock" /\ Calling(t, {"getlogging", "enable", "setlogging"}) /\ UNCHANGED <<st, n, last, moves>>
    BY DEF Logging, Locks, At
  <1>2. S(t) \in SegmentType /\ Returned(t).pc \in Quits
    BY <1>1, AtLock DEF Back, Quits
  <1>3. \A f \in SUBSET Switches : LET u == [S(t) EXCEPT !.flags = f]
                                   IN  u \in SegmentType /\ u.mLogLock = S(t).mLogLock /\ Alike(S(t), u)
    BY <1>2 DEF SegmentType, Alike
  <1>4. /\ F(t).fn \in {"getlogging", "enable", "setlogging"}
        /\ F(t).fn \in {"enable", "setlogging"} => F(t).v \in SUBSET Switches
    BY <1>1, HeadTypes
  <1>5. ASSUME NEW f \in SUBSET Switches, NEW lines, Unlock(t, [S(t) EXCEPT !.flags = f], lines, Returned(t))
        PROVE  Ends(t, S(t))
    <2>1. PICK u \in SegmentType : u = [S(t) EXCEPT !.flags = f] /\ u.mLogLock = S(t).mLogLock /\ Alike(S(t), u)
      BY <1>3
    <2>2. Ends(t, u)
      BY <1>1, <1>2, <1>5, <2>1, UnlockEndsIt
    <2>3. QED
      BY <2>1, <2>2, EndsAlike
  <1>6. CASE F(t).fn = "getlogging"
    <2>1. PICK r : Unlock(t, S(t), 0, r) /\ r.pc = "attach"
      <3>1. \A w : [Idle EXCEPT !.pc = "attach", !.todo = w].pc = "attach"
        BY DEF Idle
      <3>2. QED
        BY <1>6, <3>1 DEF Logging
    <2>2. PICK u \in SegmentType : u = S(t)
      BY <1>2
    <2>3. Ends(t, u)
      BY <1>1, <2>1, <2>2, UnlockEndsIt DEF Quits
    <2>4. QED
      BY <1>1, <2>2, <2>3
  <1>7. CASE F(t).fn = "enable"
    <2>1. PICK f \in SUBSET Switches : f = (S(t).flags \ {"log"}) \cup F(t).v
      BY <1>2, <1>4, <1>7 DEF SegmentType
    <2>2. QED
      BY <1>1, <1>5, <1>7, <2>1 DEF Logging
  <1>8. CASE F(t).fn = "setlogging"
    <2>1. PICK f \in SUBSET Switches : f = (S(t).flags \cap {"log"}) \cup F(t).v
      BY <1>2, <1>4, <1>8 DEF SegmentType
    <2>2. QED
      BY <1>1, <1>5, <1>8, <2>1 DEF Logging
  <1>9. QED
    BY <1>4, <1>6, <1>7, <1>8

LEMMA AddLogEnds ==
    ASSUME Inv, NEW t \in Thread, AddLog(t)
    PROVE  Ends(t, S(t)) /\ UNCHANGED <<st, n, last, moves>>
  <1>1. /\ thr[t].pc = "lock" /\ thr[t] \in ThreadType /\ S(t) \in SegmentType /\ thr[t].at \in 1 .. Len(seg)
        /\ Returned(t).pc \in Quits /\ Failed(t).pc \in Quits /\ seg \in Seq(SegmentType)
    BY AtLock, OldTypes DEF AddLog, At, Back, Quits, Inv, Shape, TypeOK
  <1>2. /\ UNCHANGED <<keyFile, table, st, n, last, moves>> /\ past \subseteq past'
        /\ seg' = seg \/ seg' = [seg EXCEPT ![thr[t].at] = [S(t) EXCEPT !.mLogLock = TRUE]]
        /\ \E r : thr' = [thr EXCEPT ![t] = r] /\ r \in {Returned(t), Failed(t), [thr[t] EXCEPT !.pc = "hung"]}
    BY DEF AddLog, Put, Hang, Go
  <1>3. PICK r : thr' = [thr EXCEPT ![t] = r] /\ r.pc \in Quits \cup {"hung"}
    <2>1. [thr[t] EXCEPT !.pc = "hung"].pc = "hung"
      BY <1>1 DEF ThreadType
    <2>2. QED
      BY <1>1, <1>2, <2>1
  <1>4. PICK u : seg' = [seg EXCEPT ![thr[t].at] = u] /\ Alike(S(t), u) /\ u.mLock = S(t).mLock
    <2>1. seg = [seg EXCEPT ![thr[t].at] = S(t)] /\ Alike(S(t), S(t))
      BY <1>1 DEF S, Alike
    <2>2. LET u == [S(t) EXCEPT !.mLogLock = TRUE] IN Alike(S(t), u) /\ u.mLock = S(t).mLock
      BY <1>1 DEF SegmentType, Alike
    <2>3. QED
      BY <1>2, <2>1, <2>2
  <1>5. QED
    BY <1>1, <1>2, <1>3, <1>4 DEF Ends

LEMMA SetWasteEnds ==
    ASSUME Inv, NEW t \in Thread, SetWaste(t)
    PROVE  Ends(t, S(t)) /\ UNCHANGED <<st, n, last, moves>>
  <1>1. thr[t].pc = "lock" /\ Calling(t, {"getdisk", "setmemory", "setdisk", "setdesc"}) /\ UNCHANGED <<st, n, last, moves>>
    BY DEF SetWaste, Locks, At
  <1>2. S(t) \in SegmentType /\ Returned(t).pc \in Quits
    BY <1>1, AtLock DEF Back, Quits
  <1>3. /\ F(t).fn \in {"getdisk", "setmemory", "setdisk", "setdesc"}
        /\ F(t).fn \in {"setmemory", "setdisk", "setdesc"} => F(t).v \in Nat
    BY <1>1, HeadTypes
  <1>4. \A k \in Nat :
          /\ [S(t) EXCEPT !.destMemory = k] \in SegmentType /\ [S(t) EXCEPT !.destMemory = k].mLogLock = S(t).mLogLock
             /\ Alike(S(t), [S(t) EXCEPT !.destMemory = k])
          /\ [S(t) EXCEPT !.destDisk = k, !.disk = k] \in SegmentType
             /\ [S(t) EXCEPT !.destDisk = k, !.disk = k].mLogLock = S(t).mLogLock
             /\ Alike(S(t), [S(t) EXCEPT !.destDisk = k, !.disk = k])
          /\ [S(t) EXCEPT !.destDesc = k] \in SegmentType /\ [S(t) EXCEPT !.destDesc = k].mLogLock = S(t).mLogLock
             /\ Alike(S(t), [S(t) EXCEPT !.destDesc = k])
    BY <1>2 DEF SegmentType, Alike
  <1>5. ASSUME NEW u, u \in SegmentType, u.mLogLock = S(t).mLogLock, Alike(S(t), u), NEW lines, Unlock(t, u, lines, Returned(t))
        PROVE  Ends(t, S(t))
    <2>1. Ends(t, u)
      BY <1>1, <1>2, <1>5, UnlockEndsIt
    <2>2. QED
      BY <1>5, <2>1, EndsAlike
  <1>6. CASE F(t).fn = "getdisk"
    <2>1. Unlock(t, S(t), 0, Returned(t)) /\ Alike(S(t), S(t))
      BY <1>6 DEF SetWaste, Alike
    <2>2. QED
      BY <1>1, <1>2, <1>5, <2>1
  <1>7. CASE F(t).fn = "setmemory"
    <2>1. Unlock(t, [S(t) EXCEPT !.destMemory = F(t).v], RealLines(S(t)), Returned(t))
      BY <1>7 DEF SetWaste
    <2>2. QED
      BY <1>1, <1>3, <1>4, <1>5, <1>7, <2>1
  <1>8. CASE F(t).fn = "setdisk"
    <2>1. Unlock(t, [S(t) EXCEPT !.destDisk = F(t).v, !.disk = F(t).v], RealLines(S(t)), Returned(t))
      BY <1>8 DEF SetWaste
    <2>2. QED
      BY <1>1, <1>3, <1>4, <1>5, <1>8, <2>1
  <1>9. CASE F(t).fn = "setdesc"
    <2>1. Unlock(t, [S(t) EXCEPT !.destDesc = F(t).v], RealLines(S(t)), Returned(t))
      BY <1>9 DEF SetWaste
    <2>2. QED
      BY <1>1, <1>3, <1>4, <1>5, <1>9, <2>1
  <1>10. QED
    BY <1>3, <1>6, <1>7, <1>8, <1>9

LEMMA PointDoneEnds ==
    ASSUME Inv, NEW t \in Thread, PointDone(t)
    PROVE  /\ UNCHANGED <<st, n, last, moves>> /\ "done" \in past'
           /\ \E s : Ends(t, s) /\ s.memory = S(t).memory /\ s.desc = S(t).desc
  <1>1. /\ thr[t].pc = "lock" /\ S(t).mLock = Nobody /\ S(t) \in SegmentType /\ thr[t].at \in 1 .. Len(seg)
        /\ Returned(t).pc \in Quits
    BY AtLock DEF PointDone, Locks, At, Back, Quits
  <1>2. PICK s : /\ seg' = [seg EXCEPT ![thr[t].at] = s]
                 /\ s = IF MySlots(S(t), t) = {} THEN S(t) ELSE Released(S(t), Min(MySlots(S(t), t)))
    BY DEF PointDone, Put
  <1>3. s.memory = S(t).memory /\ s.desc = S(t).desc /\ s.mLock = Nobody
    BY <1>1, <1>2 DEF Released, SegmentType
  <1>4. thr' = [thr EXCEPT ![t] = Returned(t)] /\ past' = past \cup {"done"} /\ UNCHANGED <<keyFile, table, st, n, last, moves>>
    BY DEF PointDone, Go
  <1>5. Ends(t, s)
    BY <1>1, <1>2, <1>3, <1>4 DEF Ends, Alike
  <1>6. QED
    BY <1>3, <1>4, <1>5

LEMMA PointChangeEnds ==
    ASSUME Inv, NEW t \in Thread, PointChange(t)
    PROVE  /\ UNCHANGED <<st, last, moves>>
           /\ \/ Ends(t, PointClear(S(t))) /\ n' = n
              \/ \E v \in PointCall : Ends(t, PointSet(S(t), v)) /\ n' = [u \in Thread |-> 0]
  <1>1. thr[t].pc = "lock" /\ Calling(t, {"set", "clear"}) /\ UNCHANGED <<st, last, moves>>
    BY DEF PointChange, Locks, At
  <1>2. S(t) \in SegmentType /\ Returned(t).pc \in Quits
    BY <1>1, AtLock DEF Back, Quits
  <1>3. F(t).fn \in {"set", "clear"} /\ (F(t).fn = "set" => F(t).v \in PointCall)
    BY <1>1, HeadTypes
  <1>4. CASE F(t).fn = "clear"
    <2>1. PICK lines : Unlock(t, PointClear(S(t)), lines, Returned(t)) /\ n' = n
      BY <1>4 DEF PointChange
    <2>2. PICK s \in SegmentType : s = PointClear(S(t)) /\ s.mLogLock = S(t).mLogLock
      BY <1>2, SegmentTypes, LogLockKept
    <2>3. Ends(t, s)
      BY <1>1, <1>2, <2>1, <2>2, UnlockEndsIt
    <2>4. QED
      BY <1>1, <2>1, <2>2, <2>3
  <1>5. CASE F(t).fn = "set"
    <2>1. PICK lines : Unlock(t, PointSet(S(t), F(t).v), lines, Returned(t)) /\ n' = [u \in Thread |-> 0]
      BY <1>5 DEF PointChange
    <2>2. PICK s \in SegmentType : s = PointSet(S(t), F(t).v) /\ s.mLogLock = S(t).mLogLock
      BY <1>2, <1>3, <1>5, SegmentTypes, LogLockKept
    <2>3. Ends(t, s)
      BY <1>1, <1>2, <2>1, <2>2, UnlockEndsIt
    <2>4. QED
      BY <1>1, <1>3, <1>5, <2>1, <2>2, <2>3
  <1>6. QED
    BY <1>3, <1>4, <1>5

(* The point is as it was. *)
SamePoint(s, u) == u.file = s.file /\ u.count = s.count /\ u.hits = s.hits /\ u.ids = s.ids

LEMMA WasteEnds ==
    ASSUME Inv, NEW t \in Thread, thr[t].pc \in {"lock", "waste", "open"}, NEW k \in Nat
    PROVE  /\ MemoryDone(t, k) => \E s : /\ Ends(t, s) /\ SamePoint(S(t), s)
                                        /\ s.memory = k /\ s.desc = S(t).desc
           /\ Unlock(t, [S(t) EXCEPT !.desc = k], RealLines(S(t)), Returned(t)) =>
                \E s : /\ Ends(t, s) /\ SamePoint(S(t), s)
                       /\ s.memory = S(t).memory /\ s.desc = k
  <1>1. S(t) \in SegmentType /\ Returned(t).pc \in Quits
    BY AtLock DEF Back, Quits
  <1>2. PICK a : a = [S(t) EXCEPT !.memory = k, !.destMemory = k]
    OBVIOUS
  <1>3. PICK b : b = [S(t) EXCEPT !.desc = k]
    OBVIOUS
  <1>4. /\ a \in SegmentType /\ a.mLogLock = S(t).mLogLock
        /\ SamePoint(S(t), a) /\ a.memory = k /\ a.desc = S(t).desc
    BY <1>1, <1>2 DEF SegmentType, SamePoint
  <1>5. /\ b \in SegmentType /\ b.mLogLock = S(t).mLogLock
        /\ SamePoint(S(t), b) /\ b.memory = S(t).memory /\ b.desc = k
    BY <1>1, <1>3 DEF SegmentType, SamePoint
  <1>6. MemoryDone(t, k) => Ends(t, a)
    BY <1>1, <1>2, <1>4, UnlockEndsIt DEF MemoryDone
  <1>7. Unlock(t, [S(t) EXCEPT !.desc = k], RealLines(S(t)), Returned(t)) => Ends(t, b)
    BY <1>1, <1>3, <1>5, UnlockEndsIt
  <1>8. QED
    BY <1>3, <1>6, <1>7, <1>4, <1>5

(* What a hooked function that wastes does: it frees what is too much, or  *)
(* keeps the lock and begins, goes on, hangs or ends.                      *)
Starts(t, c, k) ==
    /\ \E u, r : /\ seg' = [seg EXCEPT ![thr[t].at] = u] /\ thr' = [thr EXCEPT ![t] = r]
                 /\ Alike(S(t), u) /\ u.mLock = t /\ r.pc = c /\ r.local = k /\ r.at = thr[t].at
    /\ UNCHANGED <<keyFile, table, st, harm, past>>

GoesOn(t) ==
    /\ \E r : /\ thr' = [thr EXCEPT ![t] = r] /\ r.at = thr[t].at
              /\ \/ r.pc = thr[t].pc /\ r.local = thr[t].local + 1
                    /\ IF thr[t].pc = "waste" THEN st' = [st EXCEPT ![ProcOf[t]].chunks = @ + 1]
                       ELSE st' = [st EXCEPT ![ProcOf[t]].socks = @ \cup {thr[t].local + 1}]
                 \/ r.pc = "hung" /\ SameData
    /\ UNCHANGED <<shared, moves, past>>

LEMMA MemorySteps ==
    ASSUME Inv, NEW t \in Thread, Memory(t)
    PROVE  /\ thr[t].pc = "lock" /\ S(t).mLock = Nobody /\ UNCHANGED <<n, last>>
           /\ \/ Ends(t, S(t)) /\ UNCHANGED <<st, moves>>
              \/ Starts(t, "waste", S(t).memory) /\ Moves(t)
              \/ /\ S(t).memory > S(t).destMemory /\ Moves(t)
                 /\ \/ /\ Me(t).chunks = 0 /\ SameData /\ harm' = harm
                       /\ \E s : Ends(t, s) /\ SamePoint(S(t), s) /\ s.memory = 0 /\ s.desc = S(t).desc
                    \/ /\ S(t).memory - S(t).destMemory <= Me(t).chunks /\ harm' = harm
                       /\ Data(t, Me(t).chunks - (S(t).memory - S(t).destMemory), Me(t).socks)
                       /\ \E s : Ends(t, s) /\ SamePoint(S(t), s) /\ s.memory = S(t).destMemory /\ s.desc = S(t).desc
                    \/ /\ S(t).memory - S(t).destMemory > Me(t).chunks /\ Me(t).chunks # 0 /\ UNCHANGED <<keyFile, table>>
                       /\ Dies(ProcOf[t], Held(ProcOf[t]) \cup {thr[t].at}) /\ past \subseteq past' /\ "died" \in past'
  <1>1. /\ thr[t].pc = "lock" /\ S(t).mLock = Nobody /\ UNCHANGED <<n, last>> /\ Calling(t, {"memory"})
        /\ S(t) \in SegmentType /\ thr[t].at \in 1 .. Len(seg) /\ Returned(t).pc \in Quits /\ thr[t] \in ThreadType
        /\ ProcOf[t] \in Proc /\ Me(t) \in ProcessType /\ TypeOK
    BY AtLock, OldTypes DEF Memory, Locks, At, Back, Quits, Me, Inv, Shape
  <1>2. S(t).memory \in Nat /\ S(t).destMemory \in Nat /\ Me(t).chunks \in Nat
    BY <1>1 DEF SegmentType, ProcessType
  <1>3. CASE S(t).memory = S(t).destMemory
    <2>1. Unlock(t, S(t), 0, Returned(t)) /\ UNCHANGED <<st, moves>>
      BY <1>2, <1>3 DEF Memory
    <2>2. PICK s \in SegmentType : s = S(t)
      BY <1>1
    <2>3. Ends(t, S(t))
      BY <1>1, <2>1, <2>2, UnlockEndsIt
    <2>4. QED
      BY <1>1, <2>1, <2>3
  <1>4. CASE S(t).memory < S(t).destMemory
    <2>1. /\ Keep(t, S(t)) /\ Go(t, [thr[t] EXCEPT !.pc = "waste", !.local = S(t).memory]) /\ Moves(t)
          /\ UNCHANGED <<keyFile, table, st, harm, past>>
      BY <1>2, <1>4 DEF Memory
    <2>2. LET u == [S(t) EXCEPT !.mLock = t]
              r == [thr[t] EXCEPT !.pc = "waste", !.local = S(t).memory]
          IN  Alike(S(t), u) /\ u.mLock = t /\ r.pc = "waste" /\ r.local = S(t).memory /\ r.at = thr[t].at
      BY <1>1 DEF SegmentType, ThreadType, Alike
    <2>3. Starts(t, "waste", S(t).memory)
      BY <2>1, <2>2 DEF Starts, Keep, Put, Go
    <2>4. QED
      BY <1>1, <2>1, <2>3
  <1>5. CASE S(t).memory > S(t).destMemory
    <2>1. FreeMemory(t) /\ Moves(t)
      BY <1>2, <1>5 DEF Memory
    <2>2. CASE Me(t).chunks = 0
      <3>1. MemoryDone(t, 0) /\ Update(t, Flagged(t)) /\ harm' = harm
        BY <2>1, <2>2 DEF FreeMemory
      <3>4. SameData
        BY <1>1, <3>1, UpdatesData
      <3>2. PICK s : Ends(t, s) /\ SamePoint(S(t), s) /\ s.memory = 0 /\ s.desc = S(t).desc
        BY <1>1, <3>1, WasteEnds
      <3>3. QED
        BY <1>1, <1>5, <2>1, <2>2, <3>1, <3>2, <3>4
    <2>3. CASE Me(t).chunks # 0 /\ S(t).memory - S(t).destMemory <= Me(t).chunks
      <3>1. /\ MemoryDone(t, S(t).destMemory) /\ harm' = harm
            /\ Data(t, Me(t).chunks - (S(t).memory - S(t).destMemory), Me(t).socks)
        <4>1. PICK k \in Int : k = S(t).memory - S(t).destMemory
          BY <1>2
        <4>2. PICK m \in Nat : m = Flagged(t).chunks - k /\ m = Me(t).chunks - k
          BY <1>1, <1>2, <2>3, <4>1, FlaggedTypes DEF Me
        <4>3. /\ MemoryDone(t, S(t).destMemory) /\ harm' = harm
              /\ Update(t, [Flagged(t) EXCEPT !.chunks = m])
          BY <2>1, <2>3, <4>1, <4>2 DEF FreeMemory
        <4>4. QED
          BY <1>1, <4>1, <4>2, <4>3, UpdatesData
      <3>2. PICK s : Ends(t, s) /\ SamePoint(S(t), s) /\ s.memory = S(t).destMemory /\ s.desc = S(t).desc
        BY <1>1, <1>2, <3>1, WasteEnds
      <3>3. QED
        BY <1>1, <1>5, <2>1, <2>3, <3>1, <3>2
    <2>4. CASE Me(t).chunks # 0 /\ ~(S(t).memory - S(t).destMemory <= Me(t).chunks)
      <3>1. /\ Dies(ProcOf[t], Held(ProcOf[t]) \cup {thr[t].at}) /\ past' = past \cup {"died"}
            /\ UNCHANGED <<keyFile, table>>
        BY <2>1, <2>4 DEF FreeMemory
      <3>2. S(t).memory - S(t).destMemory > Me(t).chunks
        BY <1>2, <2>4
      <3>3. QED
        BY <1>1, <1>5, <2>1, <2>4, <3>1, <3>2
    <2>5. QED
      BY <2>2, <2>3, <2>4
  <1>6. QED
    BY <1>2, <1>3, <1>4, <1>5

LEMMA WasteSteps ==
    ASSUME Inv, NEW t \in Thread, Waste(t)
    PROVE  /\ thr[t].pc = "waste" /\ UNCHANGED <<n, last, moves>>
           /\ \/ GoesOn(t)
              \/ /\ SameData
                 /\ \E s : Ends(t, s) /\ SamePoint(S(t), s) /\ s.memory = thr[t].local /\ s.desc = S(t).desc
  <1>1. /\ thr[t].pc = "waste" /\ UNCHANGED <<n, last, moves>> /\ thr[t] \in ThreadType
    BY OldTypes DEF Waste, At
  <1>2. CASE thr[t].local < S(t).destMemory /\ Recurses(t)
    <2>1. Hang(t) /\ SameData /\ UNCHANGED <<shared, past>>
      <3>1. HangsInHook(t) /\ UNCHANGED <<shared, past>>
        BY <1>2 DEF Waste
      <3>2. QED
        BY <3>1, UpdatesData DEF HangsInHook, Inv, Shape
    <2>2. [thr[t] EXCEPT !.pc = "hung"].pc = "hung" /\ [thr[t] EXCEPT !.pc = "hung"].at = thr[t].at
      BY <1>1 DEF ThreadType
    <2>3. QED
      BY <1>1, <2>1, <2>2 DEF GoesOn, Hang, Go
  <1>3. CASE ~(thr[t].local < S(t).destMemory /\ Recurses(t)) /\ thr[t].local < S(t).destMemory /\ Me(t).chunks < MemoryMax
    <2>1. st' = [st EXCEPT ![ProcOf[t]].chunks = @ + 1]
          /\ Go(t, [thr[t] EXCEPT !.local = thr[t].local + 1]) /\ UNCHANGED <<shared, past>>
      BY <1>3 DEF Waste
    <2>2. LET r == [thr[t] EXCEPT !.local = thr[t].local + 1]
          IN  r.pc = thr[t].pc /\ r.local = thr[t].local + 1 /\ r.at = thr[t].at
      BY <1>1 DEF ThreadType
    <2>3. QED
      BY <1>1, <2>1, <2>2 DEF GoesOn, Go
  <1>4. CASE ~(thr[t].local < S(t).destMemory /\ Recurses(t)) /\ ~(thr[t].local < S(t).destMemory /\ Me(t).chunks < MemoryMax)
    <2>1. MemoryDone(t, thr[t].local) /\ SameData
      <3>1. MemoryDone(t, thr[t].local) /\ Update(t, Flagged(t))
        BY <1>4 DEF Waste
      <3>2. QED
        BY <3>1, UpdatesData DEF Inv, Shape
    <2>2. thr[t].local \in Nat
      BY <1>1 DEF ThreadType
    <2>3. QED
      BY <1>1, <2>1, <2>2, WasteEnds
  <1>5. QED
    BY <1>2, <1>3, <1>4

LEMMA DescSteps ==
    ASSUME Inv, NEW t \in Thread, Desc(t)
    PROVE  /\ thr[t].pc = "lock" /\ S(t).mLock = Nobody /\ UNCHANGED <<n, last>>
           /\ \/ Ends(t, S(t)) /\ UNCHANGED <<st, moves>>
              \/ Starts(t, "open", S(t).desc) /\ Moves(t)
              \/ /\ S(t).desc > S(t).destDesc /\ Moves(t)
                 /\ harm' = harm \cup (IF (S(t).destDesc + 1) .. S(t).desc \subseteq Me(t).socks THEN {} ELSE {"stray"})
                 /\ Data(t, Me(t).chunks, Me(t).socks \ ((S(t).destDesc + 1) .. S(t).desc))
                 /\ \E s : Ends(t, s) /\ SamePoint(S(t), s) /\ s.memory = S(t).memory /\ s.desc = S(t).destDesc
  <1>1. /\ thr[t].pc = "lock" /\ S(t).mLock = Nobody /\ UNCHANGED <<n, last>> /\ Calling(t, {"desc"})
        /\ S(t) \in SegmentType /\ thr[t].at \in 1 .. Len(seg) /\ Returned(t).pc \in Quits /\ thr[t] \in ThreadType
    BY AtLock, OldTypes DEF Desc, Locks, At, Back, Quits
  <1>2. S(t).desc \in Nat /\ S(t).destDesc \in Nat
    BY <1>1 DEF SegmentType
  <1>3. CASE S(t).desc = S(t).destDesc
    <2>1. Unlock(t, S(t), 0, Returned(t)) /\ UNCHANGED <<st, moves>>
      BY <1>2, <1>3 DEF Desc
    <2>2. PICK s \in SegmentType : s = S(t)
      BY <1>1
    <2>3. Ends(t, S(t))
      BY <1>1, <2>1, <2>2, UnlockEndsIt
    <2>4. QED
      BY <1>1, <2>1, <2>3
  <1>4. CASE S(t).desc < S(t).destDesc
    <2>1. /\ Keep(t, S(t)) /\ Go(t, [thr[t] EXCEPT !.pc = "open", !.local = S(t).desc]) /\ Moves(t)
          /\ UNCHANGED <<keyFile, table, st, harm, past>>
      BY <1>2, <1>4 DEF Desc
    <2>2. LET u == [S(t) EXCEPT !.mLock = t]
              r == [thr[t] EXCEPT !.pc = "open", !.local = S(t).desc]
          IN  Alike(S(t), u) /\ u.mLock = t /\ r.pc = "open" /\ r.local = S(t).desc /\ r.at = thr[t].at
      BY <1>1 DEF SegmentType, ThreadType, Alike
    <2>3. Starts(t, "open", S(t).desc)
      BY <2>1, <2>2 DEF Starts, Keep, Put, Go
    <2>4. QED
      BY <1>1, <2>1, <2>3
  <1>5. CASE S(t).desc > S(t).destDesc
    <2> DEFINE closed == (S(t).destDesc + 1) .. S(t).desc
    <2>1. /\ Moves(t) /\ harm' = harm \cup (IF closed \subseteq Me(t).socks THEN {} ELSE {"stray"})
          /\ Update(t, [Flagged(t) EXCEPT !.socks = @ \ closed])
          /\ Unlock(t, [S(t) EXCEPT !.desc = S(t).destDesc], RealLines(S(t)), Returned(t))
      BY <1>2, <1>5 DEF Desc
    <2> HIDE DEF closed
    <2>4. Data(t, Me(t).chunks, Me(t).socks \ closed)
      <3>1. TypeOK /\ Flagged(t).socks = Me(t).socks /\ Me(t).socks \in SUBSET Nat
        BY FlaggedTypes DEF Inv, Shape, Me, ProcessType
      <3>2. PICK d \in SUBSET Nat : d = Me(t).socks \ closed
        BY <3>1
      <3>3. Update(t, [Flagged(t) EXCEPT !.socks = d])
        BY <2>1, <3>1, <3>2
      <3>4. QED
        BY <3>1, <3>2, <3>3, UpdatesData
    <2>2. PICK s : Ends(t, s) /\ SamePoint(S(t), s) /\ s.memory = S(t).memory /\ s.desc = S(t).destDesc
      BY <1>1, <1>2, <2>1, WasteEnds
    <2>3. QED
      BY <1>1, <1>5, <2>1, <2>2, <2>4 DEF closed
  <1>6. QED
    BY <1>2, <1>3, <1>4, <1>5

LEMMA OpenSteps ==
    ASSUME Inv, NEW t \in Thread, Open(t)
    PROVE  /\ thr[t].pc = "open" /\ UNCHANGED <<n, last, moves>>
           /\ \/ GoesOn(t)
              \/ /\ SameData
                 /\ \E s : Ends(t, s) /\ SamePoint(S(t), s) /\ s.memory = S(t).memory /\ s.desc = thr[t].local
  <1>1. /\ thr[t].pc = "open" /\ UNCHANGED <<n, last, moves>> /\ thr[t] \in ThreadType
    BY OldTypes DEF Open, At
  <1>2. CASE thr[t].local < S(t).destDesc /\ Recurses(t)
    <2>1. Hang(t) /\ SameData /\ UNCHANGED <<shared, past>>
      <3>1. HangsInHook(t) /\ UNCHANGED <<shared, past>>
        BY <1>2 DEF Open
      <3>2. QED
        BY <3>1, UpdatesData DEF HangsInHook, Inv, Shape
    <2>2. [thr[t] EXCEPT !.pc = "hung"].pc = "hung" /\ [thr[t] EXCEPT !.pc = "hung"].at = thr[t].at
      BY <1>1 DEF ThreadType
    <2>3. QED
      BY <1>1, <2>1, <2>2 DEF GoesOn, Hang, Go
  <1>3. CASE ~(thr[t].local < S(t).destDesc /\ Recurses(t)) /\ thr[t].local < S(t).destDesc /\ Cardinality(Me(t).socks) < DescMax
    <2>1. st' = [st EXCEPT ![ProcOf[t]].socks = @ \cup {thr[t].local + 1}]
          /\ Go(t, [thr[t] EXCEPT !.local = thr[t].local + 1]) /\ UNCHANGED <<shared, past>>
      BY <1>3 DEF Open
    <2>2. LET r == [thr[t] EXCEPT !.local = thr[t].local + 1]
          IN  r.pc = thr[t].pc /\ r.local = thr[t].local + 1 /\ r.at = thr[t].at
      BY <1>1 DEF ThreadType
    <2>3. QED
      BY <1>1, <2>1, <2>2 DEF GoesOn, Go
  <1>4. CASE ~(thr[t].local < S(t).destDesc /\ Recurses(t)) /\ ~(thr[t].local < S(t).destDesc /\ Cardinality(Me(t).socks) < DescMax)
    <2>1. Unlock(t, [S(t) EXCEPT !.desc = thr[t].local], RealLines(S(t)), Returned(t)) /\ SameData
      <3>1. Unlock(t, [S(t) EXCEPT !.desc = thr[t].local], RealLines(S(t)), Returned(t)) /\ Update(t, Flagged(t))
        BY <1>4 DEF Open
      <3>2. QED
        BY <3>1, UpdatesData DEF Inv, Shape
    <2>2. thr[t].local \in Nat
      BY <1>1 DEF ThreadType
    <2>3. QED
      BY <1>1, <2>1, <2>2, WasteEnds
  <1>5. QED
    BY <1>2, <1>3, <1>4

-----------------------------------------------------------------------------
(* One test.  Who makes the segment is alone; until it has written the key *)
(* nobody finds one, and from then on everybody finds the same.            *)
Peace == past \cap {"overlap", "destroyed", "failed"} = {}
Fresh == \E t \in Thread : thr[t].pc \in {"truncate", "write"}

Single ==
    Peace =>
        /\ \A t, u \in Thread : thr[t].pc \in Creating /\ thr[u].pc \in Creating => t = u
        /\ \A t \in Thread : /\ thr[t].pc # "remove"
                             /\ thr[t].pc = "create" => Len(seg) = 0
                             /\ thr[t].pc \in {"truncate", "write", "setkey"} => table[thr[t].local] = 1
        /\ Len(seg) <= 1
        /\ keyFile \in Key => table[keyFile] = 1
        /\ \A p \in Proc : st[p].gKey # 0 => table[st[p].gKey] = 1
        /\ Len(seg) # 0 => keyFile \in Key \/ Fresh
        /\ Fresh => /\ keyFile \notin Key
                    /\ \A p \in Proc : st[p].gKey = 0
                    /\ \A t \in Thread : thr[t].pc \notin {"lock", "waste", "open"}

(* A step that touches neither the table nor the file. *)
Frame ==
    /\ UNCHANGED <<keyFile, table>> /\ Len(seg') = Len(seg) /\ past \subseteq past'
    /\ \A u \in Thread : \/ thr'[u] = thr[u]
                         \/ thr'[u].pc \notin Creating \cup {"remove", "lock", "waste", "open"}
                         \/ thr[u].pc \in {"lock", "waste", "open"} /\ thr'[u].pc \notin Creating \cup {"remove"}

LEMMA SameLength ==
    ASSUME Inv, Inv', DOMAIN seg' = DOMAIN seg
    PROVE  Len(seg') = Len(seg)
  <1>1. Len(seg) \in Nat /\ DOMAIN seg = 1 .. Len(seg) /\ Len(seg') \in Nat /\ DOMAIN seg' = 1 .. Len(seg')
    BY DEF Inv, Shape, TypeOK
  <1>2. \A a, b \in Nat : 1 .. a = 1 .. b => a = b
    <2>1. SUFFICES ASSUME NEW a \in Nat, NEW b \in Nat, 1 .. a = 1 .. b, a < b PROVE FALSE
      OBVIOUS
    <2>2. b \in 1 .. b /\ b \notin 1 .. a
      BY <2>1
    <2>3. QED
      BY <2>1, <2>2
  <1>3. QED
    BY <1>1, <1>2

LEMMA Frames ==
    ASSUME Inv, Inv', NEW t \in Thread
    PROVE  /\ \A s : Ends(t, s) => Frame
           /\ \A c, k : c \in {"waste", "open"} /\ thr[t].pc = "lock" /\ Starts(t, c, k) => Frame
           /\ thr[t].pc \in {"waste", "open"} /\ GoesOn(t) => Frame
           /\ \A p, L : p \in Proc /\ Dies(p, L) /\ UNCHANGED <<keyFile, table>> /\ past \subseteq past' => Frame
  <1>1. thr \in [Thread -> ThreadType]
    BY DEF Inv, Shape, TypeOK
  <1>2. \A c \in {"idle", "attach", "leave", "hung"} : c \notin Creating \cup {"remove", "lock", "waste", "open"}
    BY DEF Creating
  <1>3. \A c \in {"lock", "waste", "open"} : c \notin Creating \cup {"remove"}
    BY DEF Creating
  <1>4. ASSUME NEW s, Ends(t, s)
        PROVE  Frame
    <2>1. PICK u, r : seg' = [seg EXCEPT ![thr[t].at] = u] /\ thr' = [thr EXCEPT ![t] = r] /\ r.pc \in Quits \cup {"hung"}
      BY <1>4 DEF Ends
    <2>2. Len(seg') = Len(seg)
      BY <2>1, SameLength
    <2>3. QED
      BY <1>1, <1>2, <1>4, <2>1, <2>2 DEF Frame, Ends, Quits
  <1>5. ASSUME NEW c \in {"waste", "open"}, NEW k, thr[t].pc = "lock", Starts(t, c, k)
        PROVE  Frame
    <2>1. PICK u, r : seg' = [seg EXCEPT ![thr[t].at] = u] /\ thr' = [thr EXCEPT ![t] = r] /\ r.pc = c
      BY <1>5 DEF Starts
    <2>2. Len(seg') = Len(seg)
      BY <2>1, SameLength
    <2>3. QED
      BY <1>1, <1>3, <1>5, <2>1, <2>2 DEF Frame, Starts
  <1>6. ASSUME thr[t].pc \in {"waste", "open"}, GoesOn(t)
        PROVE  Frame
    <2>1. PICK r : thr' = [thr EXCEPT ![t] = r] /\ r.pc \in {thr[t].pc, "hung"}
      BY <1>6 DEF GoesOn
    <2>2. QED
      BY <1>1, <1>2, <1>3, <1>6, <2>1 DEF Frame, GoesOn, shared
  <1>7. ASSUME NEW p \in Proc, NEW L, Dies(p, L), UNCHANGED <<keyFile, table>>, past \subseteq past'
        PROVE  Frame
    <2>1. Len(seg') = Len(seg)
      BY <1>7, SameLength DEF Dies
    <2>2. \A u \in Thread : thr'[u] = thr[u] \/ thr'[u].pc = "idle"
      BY <1>7 DEF Dies, Idle
    <2>3. QED
      BY <1>2, <1>7, <2>1, <2>2 DEF Frame
  <1>8. QED
    BY <1>4, <1>5, <1>6, <1>7

WorkStep(t) ==
    \/ PointPass(t) \/ StackRecurses(t) \/ PointDone(t) \/ PointChange(t) \/ Logging(t) \/ AddLog(t)
    \/ SetWaste(t) \/ Memory(t) \/ Waste(t) \/ Desc(t) \/ Open(t)

LEMMA WorkFrames ==
    ASSUME Inv, Inv', NEW t \in Thread, WorkStep(t)
    PROVE  /\ Frame /\ thr[t].pc \in {"lock", "waste", "open"}
           /\ \A p \in Proc : st'[p].gKey \in {st[p].gKey, 0}
  <1>1. st \in [Proc -> ProcessType] /\ ProcOf[t] \in Proc
    BY OldTypes
  <1>2. ASSUME NEW s, Ends(t, s), st' = st \/ SameData
        PROVE  /\ Frame /\ thr[t].pc \in {"lock", "waste", "open"}
               /\ \A p \in Proc : st'[p].gKey \in {st[p].gKey, 0}
    BY <1>2, Frames DEF Ends, SameData
  <1>3. CASE PointPass(t)
    BY <1>2, <1>3, PointPassEnds
  <1>4. CASE StackRecurses(t) \/ Logging(t) \/ AddLog(t) \/ SetWaste(t)
    BY <1>2, <1>4, StackEnds, LoggingEnds, AddLogEnds, SetWasteEnds
  <1>5. CASE PointDone(t) \/ PointChange(t)
    BY <1>2, <1>5, PointDoneEnds, PointChangeEnds
  <1>6. \A x : /\ st' = [st EXCEPT ![ProcOf[t]].chunks = x] => \A p \in Proc : st'[p].gKey = st[p].gKey
               /\ st' = [st EXCEPT ![ProcOf[t]].socks = x] => \A p \in Proc : st'[p].gKey = st[p].gKey
    BY <1>1 DEF ProcessType
  <1>7. \A p, L : p \in Proc /\ Dies(p, L) => \A q \in Proc : st'[q].gKey \in {st[q].gKey, 0}
    BY <1>1 DEF Dies, NewProcess
  <1>8. GoesOn(t) => \A p \in Proc : st'[p].gKey = st[p].gKey
    BY <1>6 DEF GoesOn, SameData
  <1>9. ASSUME NEW c \in {"waste", "open"}, NEW k, thr[t].pc = "lock", Starts(t, c, k)
         PROVE  Frame /\ st' = st
    <2>1. Frame
      BY <1>9, Frames
    <2>2. QED
      BY <1>9, <2>1 DEF Starts
  <1>10. ASSUME NEW s, Ends(t, s), NEW c, NEW d, Data(t, c, d)
         PROVE  /\ Frame /\ thr[t].pc \in {"lock", "waste", "open"}
                /\ \A p \in Proc : st'[p].gKey \in {st[p].gKey, 0}
    BY <1>10, Frames DEF Ends, Data
  <1>11. CASE Memory(t)
    <2>1. thr[t].pc = "lock"
      BY <1>11, MemorySteps
    <2>2. CASE \E s : Ends(t, s) /\ (st' = st \/ SameData)
      BY <1>2, <2>2
    <2>3. CASE Starts(t, "waste", S(t).memory)
      BY <1>9, <2>1, <2>3
    <2>4. CASE \E s : Ends(t, s) /\ Data(t, Me(t).chunks - (S(t).memory - S(t).destMemory), Me(t).socks)
      BY <1>10, <2>4
    <2>5. CASE /\ Dies(ProcOf[t], Held(ProcOf[t]) \cup {thr[t].at}) /\ past \subseteq past' /\ UNCHANGED <<keyFile, table>>
      BY <1>1, <1>7, <2>1, <2>5, Frames
    <2>6. QED
      BY <1>11, <2>2, <2>3, <2>4, <2>5, MemorySteps
  <1>12. CASE Desc(t)
    <2>1. thr[t].pc = "lock"
      BY <1>12, DescSteps
    <2>2. CASE \E s : Ends(t, s) /\ (st' = st \/ SameData)
      BY <1>2, <2>2
    <2>3. CASE Starts(t, "open", S(t).desc)
      BY <1>9, <2>1, <2>3
    <2>4. CASE \E s : Ends(t, s) /\ Data(t, Me(t).chunks, Me(t).socks \ ((S(t).destDesc + 1) .. S(t).desc))
      BY <1>10, <2>4
    <2>5. QED
      BY <1>12, <2>2, <2>3, <2>4, DescSteps
  <1>13. CASE Waste(t)
    BY <1>1, <1>2, <1>8, <1>13, Frames, WasteSteps
  <1>14. CASE Open(t)
    BY <1>1, <1>2, <1>8, <1>14, Frames, OpenSteps
  <1>15. QED
    BY <1>3, <1>4, <1>5, <1>11, <1>12, <1>13, <1>14 DEF WorkStep

(* Steps that neither make nor remove the segment. *)
LEMMA SingleKept ==
    ASSUME Inv, Single, UNCHANGED <<keyFile, table>>, Len(seg') = Len(seg), past \subseteq past',
           \A p \in Proc : st'[p].gKey \in {st[p].gKey, 0, KeySeen(p)},
           \A u \in Thread : \/ thr'[u] = thr[u]
                             \/ thr'[u].pc \notin Creating \cup {"remove", "lock", "waste", "open"}
                             \/ thr'[u].pc \notin Creating \cup {"remove"} /\ (Peace => ~Fresh),
           Peace' => \A u \in Thread : thr[u].pc \in {"truncate", "write"} => thr'[u] = thr[u]
    PROVE  Single'
  <1>1. SUFFICES ASSUME Peace' PROVE Single'
    BY DEF Single
  <1>2. Peace
    BY <1>1 DEF Peace
  <1>3. \A u \in Thread : thr'[u].pc \in Creating \cup {"remove"} => thr'[u] = thr[u]
    OBVIOUS
  <1>4. Fresh' <=> Fresh
    BY <1>1, <1>3 DEF Fresh, Creating
  <1>5. \A p \in Proc : st'[p].gKey # 0 => st'[p].gKey \in {st[p].gKey, keyFile} /\ (st'[p].gKey # st[p].gKey => keyFile \in Key)
    BY DEF KeySeen
  <1>6. /\ \A t, u \in Thread : thr'[t].pc \in Creating /\ thr'[u].pc \in Creating => t = u
        /\ \A t \in Thread : /\ thr'[t].pc # "remove"
                             /\ thr'[t].pc = "create" => Len(seg') = 0
                             /\ thr'[t].pc \in {"truncate", "write", "setkey"} => table'[thr'[t].local] = 1
    BY <1>2, <1>3 DEF Single, Creating
  <1>7. /\ Len(seg') <= 1 /\ (keyFile' \in Key => table'[keyFile'] = 1)
        /\ \A p \in Proc : st'[p].gKey # 0 => table'[st'[p].gKey] = 1
        /\ Len(seg') # 0 => keyFile' \in Key \/ Fresh'
    BY <1>2, <1>4, <1>5 DEF Single
  <1>8. Fresh' => /\ keyFile' \notin Key
                  /\ \A p \in Proc : st'[p].gKey = 0
                  /\ \A t \in Thread : thr'[t].pc \notin {"lock", "waste", "open"}
    BY <1>2, <1>4, <1>5 DEF Single
  <1>9. QED
    BY <1>6, <1>7, <1>8 DEF Single

LEMMA SingleAtWork == ASSUME Inv, Inv', Single, NEW t \in Thread, WorkStep(t) PROVE Single'
  <1>1. /\ Frame /\ thr[t].pc \in {"lock", "waste", "open"}
        /\ \A p \in Proc : st'[p].gKey \in {st[p].gKey, 0}
    BY WorkFrames
  <1>2. Peace => ~Fresh
    BY <1>1 DEF Single
  <1>3. Peace' => Peace
    BY <1>1 DEF Frame, Peace
  <1>4. Peace' => \A u \in Thread : thr[u].pc \in {"truncate", "write"} => thr'[u] = thr[u]
    BY <1>2, <1>3 DEF Fresh
  <1>5. QED
    BY <1>1, <1>2, <1>4, SingleKept DEF Frame

LEMMA SingleAtDeath == ASSUME Inv, Inv', Single, NEW p \in Server, Die(p) PROVE Single'
  <1>1. /\ UNCHANGED <<keyFile, table>> /\ Dies(p, Held(p)) /\ past \subseteq past' /\ p \in Proc /\ st \in [Proc -> ProcessType]
        /\ (\E t \in Thread : ProcOf[t] = p /\ thr[t].pc \in Creating) => "failed" \in past'
    BY OldTypes DEF Die, Proc
  <1>2. Len(seg') = Len(seg)
    BY <1>1, SameLength DEF Dies
  <1>3. \A u \in Thread : \/ ProcOf[u] # p /\ thr'[u] = thr[u]
                          \/ ProcOf[u] = p /\ thr'[u].pc = "idle"
    BY <1>1 DEF Dies, Idle
  <1>4. "idle" \notin Creating \cup {"remove", "lock", "waste", "open"} /\ {"truncate", "write"} \subseteq Creating
    BY DEF Creating
  <1>5. \A q \in Proc : st'[q].gKey \in {st[q].gKey, 0}
    BY <1>1 DEF Dies, NewProcess
  <1>6. Peace' => \A u \in Thread : thr[u].pc \in {"truncate", "write"} => thr'[u] = thr[u]
    BY <1>1, <1>3, <1>4 DEF Peace
  <1>7. QED
    BY <1>1, <1>2, <1>3, <1>4, <1>5, <1>6, SingleKept

LEMMA SingleByThread ==
    ASSUME Inv, Single, NEW t \in Thread, NEW r, thr' = [thr EXCEPT ![t] = r],
           r.pc \notin Creating \cup {"remove", "lock", "waste", "open"}, thr[t].pc \notin {"truncate", "write"},
           UNCHANGED <<keyFile, table, seg>>, past \subseteq past',
           \A p \in Proc : st'[p].gKey \in {st[p].gKey, 0, KeySeen(p)}
    PROVE  Single'
  <1>1. thr \in [Thread -> ThreadType]
    BY DEF Inv, Shape, TypeOK
  <1>2. \A u \in Thread : thr'[u] = IF u = t THEN r ELSE thr[u]
    BY <1>1
  <1>3. QED
    BY <1>2, SingleKept

(* The calls, the hooks, and what does not reach the segment. *)
LEMMA SingleElsewhere ==
    ASSUME Inv, Single, NEW t \in Thread,
           \/ LimitPoint(t) \/ LimitPointDone(t) \/ Hook(t) \/ Command(t) \/ Enter(t) \/ Leave(t) \/ WasteDisk(t)
    PROVE  Single'
  <1>1. /\ st \in [Proc -> ProcessType] /\ ProcOf[t] \in Proc /\ thr[t] \in ThreadType
    BY OldTypes
  <1>2. \A c \in {"proceed", "enter", "idle", "destroy", "attach", "leave"} :
           c \notin Creating \cup {"remove", "lock", "waste", "open"} /\ c \notin {"truncate", "write"}
    BY DEF Creating
  <1>3. ASSUME NEW r, thr' = [thr EXCEPT ![t] = r],
               r.pc \in {"proceed", "enter", "idle", "destroy", "attach", "leave"},
               thr[t].pc \in {"proceed", "enter", "idle", "destroy", "attach", "leave"},
               UNCHANGED <<keyFile, table, seg>>, past \subseteq past', \A p \in Proc : st'[p].gKey \in {st[p].gKey, 0}
        PROVE  Single'
    BY <1>2, <1>3, SingleByThread
  <1>4. \A c, w : Beginning(c, w).pc = c
    BY DEF Beginning, Idle
  <1>5. CASE LimitPoint(t) \/ LimitPointDone(t)
    <2>1. PICK w : thr' = [thr EXCEPT ![t] = Beginning("proceed", w)]
      BY <1>5 DEF LimitPoint, LimitPointDone, Go, Beginning
    <2>2. UNCHANGED <<keyFile, table, seg, st, past>> /\ thr[t].pc = "idle"
      BY <1>5 DEF LimitPoint, LimitPointDone, Call, At, shared, ghosts
    <2>3. QED
      BY <1>3, <1>4, <2>1, <2>2
  <1>6. CASE Hook(t)
    <2>1. PICK r : thr' = [thr EXCEPT ![t] = r] /\ r.pc \in {"idle", "enter"}
      <3>1. PICK w : thr' = [thr EXCEPT ![t] = IF Me(t).gInsideHook THEN Idle ELSE Beginning("enter", w)]
        BY <1>6 DEF Hook, Go, Beginning
      <3>2. Idle.pc = "idle"
        BY DEF Idle
      <3>3. QED
        BY <1>4, <3>1, <3>2
    <2>2. UNCHANGED <<keyFile, table, seg, st, past>> /\ thr[t].pc = "idle"
      BY <1>6 DEF Hook, Call, At, shared, ghosts
    <2>3. QED
      BY <1>3, <2>1, <2>2
  <1>7. CASE Command(t)
    <2>1. PICK w : thr' = [thr EXCEPT ![t] = Beginning(FirstStep(Asked(t)), w)]
      BY <1>7 DEF Command, Go, Beginning
    <2>2. FirstStep(Asked(t)) \in {"proceed", "destroy", "attach"}
      BY DEF FirstStep
    <2>3. UNCHANGED <<keyFile, table, seg, past>> /\ thr[t].pc = "idle"
      BY <1>7 DEF Command, Call, At, shared, ghosts
    <2>4. \A p \in Proc : st'[p].gKey \in {st[p].gKey, 0}
      BY <1>1, <1>7 DEF Command, NewProcess
    <2>5. QED
      BY <1>3, <1>4, <2>1, <2>2, <2>3, <2>4
  <1>8. \A b : st' = [st EXCEPT ![ProcOf[t]].gInsideHook = b] => \A p \in Proc : st'[p].gKey = st[p].gKey
    BY <1>1 DEF ProcessType
  <1>9. CASE Enter(t)
    <2>1. PICK r : thr' = [thr EXCEPT ![t] = r] /\ r.pc \in {"attach", "leave"}
      <3>1. \A c : [thr[t] EXCEPT !.hook = TRUE, !.pc = c].pc = c
        BY <1>1 DEF ThreadType
      <3>2. QED
        BY <1>9, <3>1 DEF Enter, EnterWith, Go
    <2>2. UNCHANGED <<keyFile, table, seg>> /\ thr[t].pc = "enter" /\ past \subseteq past'
          /\ st' = [st EXCEPT ![ProcOf[t]].gInsideHook = TRUE]
      BY <1>9 DEF Enter, EnterWith, At, shared
    <2>3. QED
      BY <1>3, <1>8, <2>1, <2>2
  <1>10. CASE Leave(t)
    <2>1. thr' = [thr EXCEPT ![t] = Idle] /\ Idle.pc = "idle"
      BY <1>10 DEF Leave, Go, Idle
    <2>2. UNCHANGED <<keyFile, table, seg, past>> /\ thr[t].pc = "leave" /\ st' = [st EXCEPT ![ProcOf[t]].gInsideHook = FALSE]
      BY <1>10 DEF Leave, At, shared, ghosts
    <2>3. QED
      BY <1>3, <1>8, <2>1, <2>2
  <1>11. CASE WasteDisk(t)
    <2>1. PICK w : thr' = [thr EXCEPT ![t] = [thr[t] EXCEPT !.todo = w]]
      BY <1>11 DEF WasteDisk, Go
    <2>2. UNCHANGED <<keyFile, table, seg, st, past>> /\ thr[t].pc = "attach"
      BY <1>11 DEF WasteDisk, At, ghosts
    <2>3. [thr[t] EXCEPT !.todo = w].pc = thr[t].pc
      BY <1>1 DEF ThreadType
    <2>4. QED
      BY <1>3, <2>1, <2>2, <2>3
  <1>12. QED
    BY <1>5, <1>6, <1>7, <1>9, <1>10, <1>11

LEMMA KeepsKey ==
    ASSUME Inv, NEW q \in Proc, KeepKey(q)
    PROVE  \A p \in Proc : st'[p].gKey \in {st[p].gKey, 0, KeySeen(p)}
  <1>1. st \in [Proc -> ProcessType]
    BY OldTypes
  <1>2. \A p \in Proc : st'[p] = IF p = q THEN [st[p] EXCEPT !.gKey = KeySeen(p)] ELSE st[p]
    BY <1>1 DEF KeepKey
  <1>3. [st[q] EXCEPT !.gKey = KeySeen(q)].gKey = KeySeen(q)
    BY <1>1 DEF ProcessType
  <1>4. QED
    BY <1>2, <1>3

(* What a process finds, where there is one segment. *)
LEMMA KeyFound ==
    ASSUME Inv, Single, Peace, NEW p \in Proc
    PROVE  /\ Fresh => Segment(p) = 0
           /\ Len(seg) # 0 /\ ~Fresh => Segment(p) # 0
           /\ Len(seg) = 0 => KeySeen(p) = 0
  <1>1. /\ table \in [Key -> 0 .. Len(seg)] /\ st[p].gKey \in Key \cup {0} /\ Key \subseteq Nat \ {0} /\ Len(seg) \in Nat
    BY ProcAssumption, OldTypes DEF Inv, Shape, TypeOK, ProcessType, ProcAssumption
  <1>2. Fresh => KeySeen(p) = 0
    BY DEF Single, KeySeen
  <1>3. KeySeen(p) # 0 => table[KeySeen(p)] = 1
    BY DEF Single, KeySeen
  <1>4. Len(seg) # 0 /\ ~Fresh => KeySeen(p) # 0
    BY <1>1 DEF Single, KeySeen
  <1>5. KeySeen(p) # 0 => KeySeen(p) \in Key
    BY <1>1 DEF KeySeen
  <1>6. Len(seg) = 0 => KeySeen(p) = 0
    BY <1>1, <1>3, <1>5
  <1>7. QED
    BY <1>2, <1>3, <1>4, <1>6 DEF Segment

LEMMA SingleAtAttach == ASSUME Inv, Single, NEW t \in Thread, Attach(t) PROVE Single'
  <1>1. /\ thr[t].pc = "attach" /\ thr[t] \in ThreadType /\ ProcOf[t] \in Proc /\ thr \in [Thread -> ThreadType]
        /\ UNCHANGED <<keyFile, table, seg, past>> /\ TypeOK
    BY OldTypes DEF Attach, At, shared, ghosts, Inv, Shape, TypeOK
  <1>2. \A p \in Proc : st'[p].gKey \in {st[p].gKey, 0, KeySeen(p)}
    BY <1>1, KeepsKey DEF Attach
  <1>3. CASE Segment(ProcOf[t]) = 0
    <2>1. thr' = [thr EXCEPT ![t] = Failed(t)] /\ Failed(t).pc \in {"idle", "leave", "attach"}
      BY <1>1, <1>3, ReturnPlaced DEF Attach, Go, Back
    <2>2. QED
      BY <1>1, <1>2, <2>1, SingleByThread DEF Creating
  <1>4. CASE Segment(ProcOf[t]) # 0
    <2>1. PICK r : thr' = [thr EXCEPT ![t] = r] /\ r.pc = "lock"
      <3>1. [thr[t] EXCEPT !.pc = "lock", !.at = Segment(ProcOf[t])].pc = "lock"
        BY <1>1 DEF ThreadType
      <3>2. QED
        BY <1>4, <3>1 DEF Attach, Go
    <2>2. Peace => ~Fresh
      BY <1>1, <1>4, KeyFound
    <2>3. \A u \in Thread : thr'[u] = IF u = t THEN r ELSE thr[u]
      BY <1>1, <2>1
    <2>4. "lock" \notin Creating \cup {"remove"}
      BY DEF Creating
    <2>5. QED
      BY <1>1, <1>2, <2>1, <2>2, <2>3, <2>4, SingleKept
  <1>5. QED
    BY <1>3, <1>4

LEMMA SingleAtProceed == ASSUME Inv, Single, NEW t \in Thread, IsProceeding(t) PROVE Single'
  <1>1. /\ thr[t].pc = "proceed" /\ thr[t] \in ThreadType /\ ProcOf[t] \in Proc /\ thr \in [Thread -> ThreadType]
        /\ UNCHANGED <<keyFile, table, seg>> /\ past \subseteq past'
    BY OldTypes DEF IsProceeding, At, shared, Inv, Shape, TypeOK
  <1>2. \A p \in Proc : st'[p].gKey \in {st[p].gKey, 0, KeySeen(p)}
    <2>1. PICK o : st' = [st EXCEPT ![ProcOf[t]] = [[st[ProcOf[t]] EXCEPT !.gKey = KeySeen(ProcOf[t])] EXCEPT !.sOpened = o]]
      BY DEF IsProceeding
    <2>2. st \in [Proc -> ProcessType]
      BY OldTypes
    <2>3. QED
      BY <1>1, <2>1, <2>2 DEF ProcessType
  <1>3. CASE Segment(ProcOf[t]) # 0
    <2>1. PICK r : thr' = [thr EXCEPT ![t] = r] /\ r.pc \in {"idle", "attach"}
      <3>1. [thr[t] EXCEPT !.pc = "attach"].pc = "attach" /\ Idle.pc = "idle"
        BY <1>1 DEF ThreadType, Idle
      <3>2. QED
        BY <1>3, <3>1 DEF IsProceeding, Go
    <2>2. QED
      BY <1>1, <1>2, <2>1, SingleByThread DEF Creating
  <1>4. CASE Segment(ProcOf[t]) = 0
    <2>1. SUFFICES ASSUME Peace' PROVE Single'
      BY DEF Single
    <2>2. PICK r : thr' = [thr EXCEPT ![t] = r] /\ r.pc = "create"
      <3>1. [thr[t] EXCEPT !.pc = "create"].pc = "create"
        BY <1>1 DEF ThreadType
      <3>2. QED
        BY <1>4, <3>1 DEF IsProceeding, Go
    <2>3. Peace /\ \A u \in Thread : thr[u].pc \notin Creating
      BY <1>1, <1>4, <2>1 DEF IsProceeding, Peace
    <2>4. ~Fresh
      BY <2>3 DEF Fresh, Creating
    <2>5. Len(seg) = 0
      BY <1>1, <1>4, <2>3, <2>4, KeyFound
    <2>6. \A p \in Proc : st'[p].gKey = 0
      <3>1. \A p \in Proc : KeySeen(p) = 0 /\ st[p].gKey = 0
        BY <2>3, <2>5, KeyFound DEF KeySeen
      <3>2. QED
        BY <1>2, <3>1
    <2>7. \A u \in Thread : thr'[u] = IF u = t THEN r ELSE thr[u]
      BY <1>1, <2>2
    <2>8. ~Fresh'
      BY <2>2, <2>3, <2>7 DEF Fresh, Creating
    <2>9. QED
      BY <1>1, <2>2, <2>3, <2>5, <2>6, <2>7, <2>8 DEF Single, Creating
  <1>5. QED
    BY <1>3, <1>4

LEMMA SingleAtCreate == ASSUME Inv, Inv', Single, NEW t \in Thread, Create(t) PROVE Single'
  <1>1. SUFFICES ASSUME Peace' PROVE Single'
    BY DEF Single
  <1>2. /\ thr[t].pc = "create" /\ thr[t] \in ThreadType /\ thr \in [Thread -> ThreadType] /\ Len(seg) \in Nat
        /\ table \in [Key -> 0 .. Len(seg)] /\ seg \in Seq(SegmentType) /\ Key \subseteq Nat \ {0}
        /\ keyFile' = keyFile /\ st \in [Proc -> ProcessType] /\ ProcOf[t] \in Proc
    BY ProcAssumption, OldTypes DEF Create, At, Inv, Shape, TypeOK, ProcAssumption
  <1>3. Peace
    BY <1>1 DEF Create, Peace
  <1>4. Len(seg) = 0 /\ \A u \in Thread : thr[u].pc \in Creating => u = t
    BY <1>2, <1>3 DEF Single, Creating
  <1>5. PICK k \in Key : /\ table' = [table EXCEPT ![k] = Len(seg) + 1]
                         /\ thr' = [thr EXCEPT ![t] = [thr[t] EXCEPT !.pc = "truncate", !.local = k]]
    <2>1. FreeKeys(ProcOf[t]) # {} /\ FreeKeys(ProcOf[t]) \subseteq Key /\ Key \subseteq Nat
      BY <1>2 DEF Create, FreeKeys
    <2>2. Min(FreeKeys(ProcOf[t])) \in Key
      BY <2>1, LeastOfSet
    <2>3. QED
      BY <1>1, <2>2 DEF Create, Go, Peace
  <1>6. table'[k] = 1
    BY <1>2, <1>4, <1>5
  <1>7. Len(seg') = 1
    BY <1>2, <1>4 DEF Create
  <1>8. PICK r : r = [thr[t] EXCEPT !.pc = "truncate", !.local = k] /\ r.pc = "truncate" /\ r.local = k
    <2>1. LET r == [thr[t] EXCEPT !.pc = "truncate", !.local = k] IN r.pc = "truncate" /\ r.local = k
      BY <1>2 DEF ThreadType
    <2>2. QED
      BY <2>1
  <1>9. \A u \in Thread : thr'[u] = IF u = t THEN r ELSE thr[u]
    BY <1>2, <1>5, <1>8
  <1>10. keyFile \notin Key /\ \A p \in Proc : st[p].gKey = 0
    <2>1. \A p \in Proc : KeySeen(p) = 0
      BY <1>3, <1>4, KeyFound
    <2>2. \A p \in Proc : st[p].gKey = 0
      BY <2>1 DEF KeySeen
    <2>3. keyFile \in Key => table[keyFile] = 1 /\ table[keyFile] \in 0 .. Len(seg)
      BY <1>2, <1>3 DEF Single
    <2>4. QED
      BY <1>4, <2>2, <2>3
  <1>11. \A u \in Thread : thr'[u].pc \notin {"lock", "waste", "open"}
    <2>1. \A u \in Thread : thr[u].pc \notin {"lock", "waste", "open"}
      BY <1>4, OldTypes DEF Placed
    <2>2. QED
      BY <1>8, <1>9, <2>1
  <1>12. Fresh'
    BY <1>8, <1>9 DEF Fresh
  <1>13. \A u \in Thread : thr'[u].pc # "remove" /\ (thr'[u].pc \in Creating => u = t)
    BY <1>3, <1>4, <1>8, <1>9 DEF Single
  <1>14. /\ \A u, v \in Thread : thr'[u].pc \in Creating /\ thr'[v].pc \in Creating => u = v
         /\ \A u \in Thread : /\ thr'[u].pc # "create"
                              /\ thr'[u].pc \in {"truncate", "write", "setkey"} => table'[thr'[u].local] = 1
    BY <1>6, <1>8, <1>9, <1>13 DEF Creating
  <1>15. keyFile' \notin Key /\ \A p \in Proc : st'[p].gKey = 0
    <2>1. st' = st \/ st' = [st EXCEPT ![ProcOf[t]] = [st[ProcOf[t]] EXCEPT !.sOpened = TRUE]]
      BY DEF Create
    <2>2. st[ProcOf[t]] \in ProcessType
      BY <1>2
    <2>3. [st[ProcOf[t]] EXCEPT !.sOpened = TRUE].gKey = st[ProcOf[t]].gKey
      BY <2>2 DEF ProcessType
    <2>4. \A p \in Proc : st'[p].gKey = st[p].gKey
      BY <1>2, <2>1, <2>3
    <2>5. QED
      BY <1>2, <1>10, <2>4
  <1>16. QED
    BY <1>7, <1>11, <1>12, <1>13, <1>14, <1>15 DEF Single

LEMMA SingleAtKeyFile ==
    ASSUME Inv, Single, NEW t \in Thread, Truncate(t) \/ WriteKey(t) \/ SetKey(t) \/ Destroy(t) \/ RemoveKeyFile(t)
    PROVE  Single'
  <1>1. SUFFICES ASSUME Peace' PROVE Single'
    BY DEF Single
  <1>2. /\ thr[t] \in ThreadType /\ thr \in [Thread -> ThreadType] /\ Key \subseteq Nat \ {0}
        /\ st \in [Proc -> ProcessType] /\ ProcOf[t] \in Proc /\ Placed(thr[t], ProcOf[t], Len(seg))
    BY ProcAssumption, OldTypes DEF Inv, Shape, TypeOK, ProcAssumption
  <1>3. Peace /\ ~Destroy(t) /\ ~RemoveKeyFile(t)
    <2>1. Peace /\ ~Destroy(t)
      BY <1>1 DEF Truncate, WriteKey, SetKey, RemoveKeyFile, Destroy, Peace, ghosts
    <2>2. QED
      BY <2>1 DEF RemoveKeyFile, At, Single
  <1>4. CASE Truncate(t)
    <2>1. thr[t].pc = "truncate" /\ keyFile' = 0 /\ UNCHANGED <<table, seg, st>>
      BY <1>4 DEF Truncate, At
    <2>2. PICK r : thr' = [thr EXCEPT ![t] = r] /\ r.pc = "write" /\ r.local = thr[t].local
      <3>1. LET r == [thr[t] EXCEPT !.pc = "write"] IN r.pc = "write" /\ r.local = thr[t].local
        BY <1>2 DEF ThreadType
      <3>2. QED
        BY <1>4, <3>1 DEF Truncate, Go
    <2>3. \A u \in Thread : thr'[u] = IF u = t THEN r ELSE thr[u]
      BY <1>2, <2>2
    <2>4. Fresh /\ Fresh'
      BY <2>1, <2>2, <2>3 DEF Fresh
    <2>5. QED
      BY <1>1, <1>2, <1>3, <2>1, <2>2, <2>3, <2>4 DEF Single, Creating
  <1>5. CASE WriteKey(t)
    <2>1. thr[t].pc = "write" /\ keyFile' = thr[t].local /\ UNCHANGED <<table, seg, st>> /\ thr[t].local \in Key
      BY <1>2, <1>5 DEF WriteKey, At, Placed
    <2>2. PICK r : thr' = [thr EXCEPT ![t] = r] /\ r.pc = "setkey" /\ r.local = thr[t].local
      <3>1. LET r == [thr[t] EXCEPT !.pc = "setkey"] IN r.pc = "setkey" /\ r.local = thr[t].local
        BY <1>2 DEF ThreadType
      <3>2. QED
        BY <1>5, <3>1 DEF WriteKey, Go
    <2>3. \A u \in Thread : thr'[u] = IF u = t THEN r ELSE thr[u]
      BY <1>2, <2>2
    <2>4. \A u \in Thread : thr[u].pc \in Creating => u = t
      BY <1>3, <2>1 DEF Single, Creating
    <2>5. ~Fresh'
      BY <2>2, <2>3, <2>4 DEF Fresh, Creating
    <2>6. QED
      BY <1>1, <1>2, <1>3, <2>1, <2>2, <2>3, <2>4, <2>5 DEF Single, Creating
  <1>6. CASE SetKey(t)
    <2>1. thr[t].pc = "setkey" /\ UNCHANGED <<keyFile, table, seg>> /\ table[thr[t].local] = 1
          /\ st' = [st EXCEPT ![ProcOf[t]] = [st[ProcOf[t]] EXCEPT !.gKey = thr[t].local]]
      BY <1>3, <1>6 DEF SetKey, At, shared, Single
    <2>2. PICK r : thr' = [thr EXCEPT ![t] = r] /\ r.pc \in {"idle", "attach"}
      <3>1. [thr[t] EXCEPT !.pc = "attach", !.local = 0].pc = "attach" /\ Idle.pc = "idle"
        BY <1>2 DEF ThreadType, Idle
      <3>2. QED
        BY <1>6, <3>1 DEF SetKey, Go
    <2>3. \A u \in Thread : thr'[u] = IF u = t THEN r ELSE thr[u]
      BY <1>2, <2>2
    <2>4. \A u \in Thread : thr[u].pc \in Creating => u = t
      BY <1>3, <2>1 DEF Single, Creating
    <2>5. ~Fresh' /\ ~Fresh
      BY <2>1, <2>2, <2>3, <2>4 DEF Fresh, Creating
    <2>6. \A p \in Proc : st'[p].gKey \in {st[p].gKey, thr[t].local}
      <3>1. [st[ProcOf[t]] EXCEPT !.gKey = thr[t].local].gKey = thr[t].local
        BY <1>2 DEF ProcessType
      <3>2. QED
        BY <1>2, <2>1, <3>1
    <2>7. QED
      BY <1>1, <1>2, <1>3, <2>1, <2>2, <2>3, <2>4, <2>5, <2>6 DEF Single, Creating
  <1>7. QED
    BY <1>3, <1>4, <1>5, <1>6

LEMMA InitSingle == Init => Single
  <1> SUFFICES ASSUME Init PROVE Single
    OBVIOUS
  <1>1. Len(seg) = 0 /\ keyFile = None /\ \A t \in Thread : thr[t].pc = "idle"
    BY DEF Init, Idle
  <1>2. \A p \in Proc : st[p].gKey = 0
    BY DEF Init, NewProcess
  <1>3. keyFile \notin Key
    BY <1>1, ProcAssumption DEF None, ProcAssumption
  <1>4. QED
    BY <1>1, <1>2, <1>3 DEF Single, Creating, Fresh

LEMMA NextSingle == Inv /\ Inv' /\ Single /\ [Next]_vars => Single'
  <1> SUFFICES ASSUME Inv, Inv', Single, [Next]_vars PROVE Single'
    OBVIOUS
  <1>1. CASE UNCHANGED vars
    BY <1>1 DEF Single, Peace, Fresh, Creating, vars, shared, ghosts
  <1>2. ASSUME NEW t \in Thread, ThreadStep(t)
        PROVE  Single'
    BY <1>2, SingleAtWork, SingleElsewhere, SingleAtAttach, SingleAtProceed, SingleAtCreate, SingleAtKeyFile
    DEF ThreadStep, WorkStep
  <1>3. ASSUME NEW p \in Server, Die(p)
        PROVE  Single'
    BY <1>3, SingleAtDeath
  <1>4. CASE Onward
    BY <1>4 DEF Single, Peace, Fresh, Creating, Onward, shared, ghosts
  <1>5. QED
    BY <1>1, <1>2, <1>3, <1>4 DEF Next

LEMMA SpecSingle == Spec => []Single
  BY InitSingle, NextSingle, SpecInv, PTL DEF Spec

(* Servers and tools that run at the same time use one segment, the one    *)
(* the key file names, whoever made it and whenever a process looked it    *)
(* up, unless two were made at once, one was destroyed or one was half     *)
(* made.                                                                   *)
THEOREM OneTestOnly == Spec => []OneTest
  <1>1. Inv /\ Single => OneTest
    <2>1. SUFFICES ASSUME Inv, Single, Peace
                   PROVE  /\ Len(seg) <= 1
                          /\ \A k \in Key : (k = keyFile \/ \E p \in Proc : st[p].gKey = k) => table[k] = 1
      BY DEF OneTest, Peace
    <2>2. Key \subseteq Nat \ {0}
      BY ProcAssumption DEF ProcAssumption
    <2>3. QED
      BY <2>1, <2>2 DEF Single
  <1>2. QED
    BY <1>1, SpecInv, SpecSingle, PTL

-----------------------------------------------------------------------------
(* Counting.  The slots are taken in order, one for each thread, and each  *)
(* is down from the count c by what its thread has passed since.           *)
Counts(s, c, m) ==
    /\ s.file # "" => s.count = c
    /\ \A i, j \in Slot : i < j /\ s.ids[i] = Nobody => s.ids[j] = Nobody
    /\ \A i, j \in Slot : s.ids[i] = s.ids[j] /\ s.ids[i] # Nobody => i = j
    /\ \A i \in Slot : s.hits[i] = IF s.ids[i] = Nobody THEN c ELSE c - m[s.ids[i]]
    /\ \A t \in Thread : (\A i \in Slot : s.ids[i] # t) => m[t] = 0

Quiet == past \cap {"overlap", "destroyed", "failed", "done"} = {}

Counting ==
    Quiet =>
        /\ Len(seg) = 0 => \A t \in Thread : n[t] = 0
        /\ Len(seg) = 1 => \E c \in Int : Counts(seg[1], c, n)
        /\ last.hit <=> last.n = last.count

LEMMA CountsAlike ==
    ASSUME NEW s, NEW u, SamePoint(s, u), NEW c, NEW m, Counts(s, c, m)
    PROVE  Counts(u, c, m)
  BY DEF SamePoint, Counts

(* A thread that passes takes its own slot, or the first that is free when *)
(* it has none.                                                            *)
LEMMA CountsPass ==
    ASSUME NEW s \in SegmentType, NEW t \in Thread, NEW p \in Point, NEW i \in MySlots(s, t),
           NEW m \in [Thread -> Nat], NEW c \in Int, Counts(s, c, m)
    PROVE  /\ ~Counted(s, p) => Counts(Passed(s, t, p, i), c, m)
           /\ Counted(s, p) =>
                /\ Counts(Passed(s, t, p, i), c, [m EXCEPT ![t] = IF Activates(s, p, i) THEN 0 ELSE m[t] + 1])
                /\ Activates(s, p, i) <=> m[t] + 1 = s.count
  <1>1. /\ i \in Slot /\ s.ids[i] \in {t, Nobody} /\ \A j \in 1 .. (i - 1) : s.ids[j] \notin {t, Nobody}
        /\ t # Nobody /\ s.ids \in [Slot -> Thread \cup {Nobody}] /\ s.hits \in [Slot -> Int] /\ s.count \in Nat
        /\ Slot \subseteq Nat /\ Nobody \notin Thread
    <2>1. i \in Slot /\ s.ids[i] \in {t, Nobody} /\ \A j \in 1 .. (i - 1) : s.ids[j] \notin {t, Nobody}
      BY DEF MySlots
    <2>2. s.ids \in [Slot -> Thread \cup {Nobody}] /\ s.hits \in [Slot -> Int] /\ s.count \in Nat
      BY DEF SegmentType
    <2>3. t # Nobody /\ Nobody \notin Thread
      BY NamesAssumption DEF NamesAssumption
    <2>4. Slot \subseteq Nat
      BY BoundsAssumption DEF Slot, BoundsAssumption
    <2>5. QED
      BY <2>1, <2>2, <2>3, <2>4
  <1>2. \A j \in Slot : j < i => j \in 1 .. (i - 1)
    BY <1>1, BoundsAssumption DEF Slot, BoundsAssumption
  <1>3. \A j \in Slot : j # i => s.ids[j] # t
    <2>1. SUFFICES ASSUME NEW j \in Slot, j # i, s.ids[j] = t PROVE FALSE
      OBVIOUS
    <2>2. i \in Nat /\ j \in Nat
      BY <1>1
    <2>3. ~(j < i)
      BY <1>1, <1>2, <2>1
    <2>4. i < j
      BY <2>1, <2>2, <2>3
    <2>5. s.ids[i] # Nobody
      BY <1>1, <2>1, <2>4 DEF Counts
    <2>6. s.ids[i] = s.ids[j]
      BY <1>1, <2>1, <2>5
    <2>7. QED
      BY <1>1, <2>1, <2>5, <2>6 DEF Counts
  <1>4. s.hits[i] = c - m[t]
    <2>1. CASE s.ids[i] = Nobody
      <3>1. m[t] = 0
        BY <1>1, <1>3, <2>1 DEF Counts
      <3>2. s.hits[i] = c
        BY <1>1, <2>1 DEF Counts
      <3>3. QED
        BY <3>1, <3>2
    <2>2. CASE s.ids[i] = t
      BY <1>1, <2>2 DEF Counts
    <2>3. QED
      BY <1>1, <2>1, <2>2
  <1>5. PICK h : h = IF ~Counted(s, p) THEN s.hits[i] ELSE IF s.hits[i] = 1 THEN s.count ELSE s.hits[i] - 1
    OBVIOUS
  <1>6. PICK u : u = Passed(s, t, p, i)
    OBVIOUS
  <1>7. /\ u.file = s.file /\ u.count = s.count
        /\ u.ids = [s.ids EXCEPT ![i] = t] /\ u.hits = [s.hits EXCEPT ![i] = h]
    BY <1>1, <1>5, <1>6 DEF Passed, SegmentType
  <1>8. \A j \in Slot : /\ u.ids[j] = IF j = i THEN t ELSE s.ids[j]
                        /\ u.hits[j] = IF j = i THEN h ELSE s.hits[j]
    BY <1>1, <1>7
  <1>9. \A j, k \in Slot : j < k /\ u.ids[j] = Nobody => u.ids[k] = Nobody
    <2>1. SUFFICES ASSUME NEW j \in Slot, NEW k \in Slot, j < k, u.ids[j] = Nobody PROVE u.ids[k] = Nobody
      OBVIOUS
    <2>2. j # i /\ s.ids[j] = Nobody
      BY <1>1, <1>8, <2>1
    <2>3. k # i
      BY <1>1, <1>2, <2>1, <2>2
    <2>4. QED
      BY <1>8, <2>1, <2>2, <2>3 DEF Counts
  <1>10. \A j, k \in Slot : u.ids[j] = u.ids[k] /\ u.ids[j] # Nobody => j = k
    <2>1. \A j, k \in Slot : s.ids[j] = s.ids[k] /\ s.ids[j] # Nobody => j = k
      BY DEF Counts
    <2>2. SUFFICES ASSUME NEW j \in Slot, NEW k \in Slot, u.ids[j] = u.ids[k], u.ids[j] # Nobody PROVE j = k
      OBVIOUS
    <2>3. /\ u.ids[j] = IF j = i THEN t ELSE s.ids[j]
          /\ u.ids[k] = IF k = i THEN t ELSE s.ids[k]
      BY <1>8
    <2>4. QED
      BY <1>3, <2>1, <2>2, <2>3
  <1>11. ASSUME NEW m2 \in [Thread -> Nat], \A v \in Thread : v # t => m2[v] = m[v], h = c - m2[t]
         PROVE  Counts(u, c, m2)
    <2>1. \A j \in Slot : u.hits[j] = IF u.ids[j] = Nobody THEN c ELSE c - m2[u.ids[j]]
      <3>1. SUFFICES ASSUME NEW j \in Slot PROVE u.hits[j] = IF u.ids[j] = Nobody THEN c ELSE c - m2[u.ids[j]]
        OBVIOUS
      <3>2. CASE j = i
        BY <1>1, <1>8, <1>11, <3>2
      <3>3. CASE j # i
        <4>1. u.ids[j] = s.ids[j] /\ u.hits[j] = s.hits[j] /\ s.ids[j] # t /\ s.ids[j] \in Thread \cup {Nobody}
          BY <1>1, <1>3, <1>8, <3>3
        <4>2. s.hits[j] = IF s.ids[j] = Nobody THEN c ELSE c - m[s.ids[j]]
          BY DEF Counts
        <4>3. s.ids[j] # Nobody => m2[s.ids[j]] = m[s.ids[j]]
          BY <1>11, <4>1
        <4>4. QED
          BY <4>1, <4>2, <4>3
      <3>4. QED
        BY <3>2, <3>3
    <2>2. \A v \in Thread : (\A j \in Slot : u.ids[j] # v) => m2[v] = 0
      <3>1. SUFFICES ASSUME NEW v \in Thread, \A j \in Slot : u.ids[j] # v PROVE m2[v] = 0
        OBVIOUS
      <3>2. v # t
        BY <1>1, <1>8, <3>1
      <3>3. \A j \in Slot : s.ids[j] # v
        BY <1>1, <1>8, <3>1, <3>2
      <3>4. QED
        BY <1>11, <3>2, <3>3 DEF Counts
    <2>3. u.file # "" => u.count = c
      BY <1>7 DEF Counts
    <2>4. QED
      BY <1>9, <1>10, <2>1, <2>2, <2>3 DEF Counts
  <1>12. CASE ~Counted(s, p)
    BY <1>4, <1>5, <1>6, <1>11, <1>12
  <1>13. CASE Counted(s, p)
    <2>1. s.count = c
      BY <1>13 DEF Counted, Point, Counts
    <2>2. Activates(s, p, i) <=> m[t] + 1 = s.count
      BY <1>4, <1>13, <2>1 DEF Activates
    <2>3. PICK m2 : m2 = [m EXCEPT ![t] = IF Activates(s, p, i) THEN 0 ELSE m[t] + 1]
      OBVIOUS
    <2>4. m2 \in [Thread -> Nat] /\ (\A v \in Thread : v # t => m2[v] = m[v])
          /\ m2[t] = IF Activates(s, p, i) THEN 0 ELSE m[t] + 1
      BY <2>3
    <2>5. h = c - m2[t]
      BY <1>4, <1>5, <1>13, <2>1, <2>4 DEF Activates
    <2>6. QED
      BY <1>6, <1>11, <1>13, <2>2, <2>3, <2>4, <2>5
  <1>14. QED
    BY <1>12, <1>13

LEMMA CountsSet ==
    ASSUME NEW s \in SegmentType, NEW c \in Int, NEW m, Counts(s, c, m)
    PROVE  /\ Counts(PointClear(s), c, m)
           /\ \A v \in PointCall : Counts(PointSet(s, v), v.count, [u \in Thread |-> 0])
  <1>1. s.ids \in [Slot -> Thread \cup {Nobody}] /\ Nobody \notin Thread
    BY NamesAssumption DEF SegmentType, NamesAssumption
  <1>2. Counts(PointClear(s), c, m)
    <2>1. PICK u : u = PointClear(s)
      OBVIOUS
    <2>2. u.file = "" /\ u.hits = s.hits /\ u.ids = s.ids
      BY <2>1 DEF PointClear, SegmentType
    <2>3. QED
      BY <2>1, <2>2 DEF Counts
  <1>3. ASSUME NEW v \in PointCall
        PROVE  Counts(PointSet(s, v), v.count, [u \in Thread |-> 0])
    <2>1. PICK u : u = PointSet(s, v)
      OBVIOUS
    <2>2. u.count = v.count /\ u.hits = [i \in Slot |-> v.count] /\ u.ids = s.ids /\ v.count \in Nat
      BY <2>1 DEF PointSet, SegmentType, PointCall
    <2>3. PICK z : z = [w \in Thread |-> 0] /\ \A w \in Thread : z[w] = 0
      <3>1. \A w \in Thread : [x \in Thread |-> 0][w] = 0
        OBVIOUS
      <3>2. QED
        BY <3>1
    <2>4. \A i \in Slot : u.hits[i] = IF u.ids[i] = Nobody THEN v.count ELSE v.count - z[u.ids[i]]
      <3>1. SUFFICES ASSUME NEW i \in Slot
                     PROVE  u.hits[i] = IF u.ids[i] = Nobody THEN v.count ELSE v.count - z[u.ids[i]]
        OBVIOUS
      <3>2. u.hits[i] = v.count /\ u.ids[i] \in Thread \cup {Nobody}
        BY <1>1, <2>2
      <3>3. u.ids[i] # Nobody => z[u.ids[i]] = 0
        BY <2>3, <3>2
      <3>4. QED
        BY <2>2, <3>2, <3>3
    <2>5. /\ \A i, j \in Slot : i < j /\ u.ids[i] = Nobody => u.ids[j] = Nobody
          /\ \A i, j \in Slot : u.ids[i] = u.ids[j] /\ u.ids[i] # Nobody => i = j
      <3>1. /\ \A i, j \in Slot : i < j /\ s.ids[i] = Nobody => s.ids[j] = Nobody
            /\ \A i, j \in Slot : s.ids[i] = s.ids[j] /\ s.ids[i] # Nobody => i = j
        BY DEF Counts
      <3>2. QED
        BY <2>2, <3>1
    <2>6. \A t \in Thread : (\A i \in Slot : u.ids[i] # t) => z[t] = 0
      BY <2>3
    <2>7. Counts(u, v.count, z)
      BY <2>2, <2>4, <2>5, <2>6 DEF Counts
    <2>8. QED
      BY <2>1, <2>3, <2>7
  <1>4. QED
    BY <1>2, <1>3

LEMMA CountingKept ==
    ASSUME Inv, Counting, past \subseteq past', UNCHANGED <<n, last>>, Len(seg') = Len(seg),
           \A i \in 1 .. Len(seg) : SamePoint(seg[i], seg'[i])
    PROVE  Counting'
  <1>1. SUFFICES ASSUME Quiet' PROVE Counting'
    BY DEF Counting
  <1>2. Quiet
    BY <1>1 DEF Quiet
  <1>3. Len(seg) = 1 => \E c \in Int : Counts(seg'[1], c, n)
    <2>1. Len(seg) = 1 => SamePoint(seg[1], seg'[1])
      OBVIOUS
    <2>2. QED
      BY <1>2, <2>1, CountsAlike DEF Counting
  <1>4. QED
    BY <1>2, <1>3 DEF Counting

LEMMA EndsPoint ==
    ASSUME Inv, Inv', NEW t \in Thread, NEW s, Ends(t, s)
    PROVE  /\ Len(seg') = Len(seg) /\ SamePoint(s, seg'[thr[t].at]) /\ past \subseteq past' /\ thr[t].at \in 1 .. Len(seg)
           /\ \A i \in 1 .. Len(seg) : i # thr[t].at => seg'[i] = seg[i]
  <1>1. PICK u : seg' = [seg EXCEPT ![thr[t].at] = u] /\ Alike(s, u)
    BY DEF Ends
  <1>2. Len(seg') = Len(seg)
    BY <1>1, SameLength
  <1>3. DOMAIN seg = 1 .. Len(seg)
    BY DEF Inv, Shape, TypeOK
  <1>4. QED
    BY <1>1, <1>2, <1>3 DEF Ends, Alike, SamePoint

LEMMA CountingEnds ==
    ASSUME Inv, Inv', Counting, NEW t \in Thread, NEW s, Ends(t, s), SamePoint(S(t), s), UNCHANGED <<n, last>>
    PROVE  Counting'
  <1>1. /\ Len(seg') = Len(seg) /\ SamePoint(s, seg'[thr[t].at]) /\ past \subseteq past' /\ thr[t].at \in 1 .. Len(seg)
        /\ \A i \in 1 .. Len(seg) : i # thr[t].at => seg'[i] = seg[i]
    BY EndsPoint
  <1>2. \A i \in 1 .. Len(seg) : SamePoint(seg[i], seg'[i])
    BY <1>1 DEF SamePoint, S
  <1>3. QED
    BY <1>1, <1>2, CountingKept

LEMMA CountingStarts ==
    ASSUME Inv, Inv', Counting, NEW t \in Thread, thr[t].pc = "lock", NEW c, NEW k, Starts(t, c, k), UNCHANGED <<n, last>>
    PROVE  Counting'
  <1>1. PICK u : seg' = [seg EXCEPT ![thr[t].at] = u] /\ Alike(S(t), u)
    BY DEF Starts
  <1>2. Len(seg') = Len(seg) /\ DOMAIN seg = 1 .. Len(seg) /\ past' = past
    BY <1>1, SameLength DEF Starts, Inv, Shape, TypeOK
  <1>3. \A i \in 1 .. Len(seg) : SamePoint(seg[i], seg'[i])
    BY <1>1, <1>2 DEF SamePoint, S, Alike
  <1>4. QED
    BY <1>2, <1>3, CountingKept

LEMMA CountingDies ==
    ASSUME Inv, Inv', Counting, NEW p, NEW L, Dies(p, L), past \subseteq past', UNCHANGED <<n, last>>
    PROVE  Counting'
  <1>1. Len(seg') = Len(seg) /\ DOMAIN seg = 1 .. Len(seg)
    BY SameLength DEF Dies, Inv, Shape, TypeOK
  <1>2. \A i \in 1 .. Len(seg) : seg[i] \in SegmentType
    BY DEF Inv, Shape, TypeOK
  <1>3. \A s \in SegmentType : SamePoint(s, s) /\ SamePoint(s, [s EXCEPT !.mLock = Dead])
    BY DEF SegmentType, SamePoint
  <1>4. \A i \in 1 .. Len(seg) : SamePoint(seg[i], seg'[i])
    BY <1>1, <1>2, <1>3 DEF Dies
  <1>5. QED
    BY <1>1, <1>4, CountingKept

(* A step under the lock of the only segment. *)
LEMMA OnlySegment ==
    ASSUME Inv, Inv', Single, Quiet', NEW t \in Thread, NEW s, Ends(t, s)
    PROVE  Quiet /\ Len(seg) = 1 /\ Len(seg') = 1 /\ S(t) = seg[1] /\ SamePoint(s, seg'[1]) /\ S(t) \in SegmentType
  <1>1. /\ Len(seg') = Len(seg) /\ SamePoint(s, seg'[thr[t].at]) /\ past \subseteq past' /\ thr[t].at \in 1 .. Len(seg)
        /\ Len(seg) \in Nat
    BY EndsPoint, OldTypes
  <1>2. Quiet
    BY <1>1 DEF Quiet
  <1>3. Len(seg) <= 1
    BY <1>2 DEF Single, Quiet, Peace
  <1>4. Len(seg) = 1 /\ thr[t].at = 1
    BY <1>1, <1>3
  <1>5. S(t) = seg[1] /\ S(t) \in SegmentType
    <2>1. S(t) = seg[1]
      BY <1>4 DEF S
    <2>2. seg \in Seq(SegmentType) /\ 1 \in 1 .. Len(seg)
      BY <1>4 DEF Inv, Shape, TypeOK
    <2>3. QED
      BY <2>1, <2>2
  <1>6. QED
    BY <1>1, <1>2, <1>4, <1>5

LEMMA CountingAtPoint == ASSUME Inv, Inv', Single, Counting, NEW t \in Thread, PointPass(t) PROVE Counting'
  <1>1. F(t).v \in Point /\ n \in [Thread -> Nat]
    BY PointPassEnds, OldTypes
  <1>2. CASE Ends(t, S(t)) /\ UNCHANGED <<n, last>>
    BY <1>2, CountingEnds DEF SamePoint
  <1>3. ASSUME NEW i \in MySlots(S(t), t), Ends(t, Passed(S(t), t, F(t).v, i)),
               IF Counted(S(t), F(t).v)
               THEN /\ n' = [n EXCEPT ![t] = IF Activates(S(t), F(t).v, i) THEN 0 ELSE n[t] + 1]
                    /\ last' = [hit |-> Activates(S(t), F(t).v, i), n |-> n[t] + 1, count |-> S(t).count]
               ELSE UNCHANGED <<n, last>>
        PROVE  Counting'
    <2>1. SUFFICES ASSUME Quiet' PROVE Counting'
      BY DEF Counting
    <2>2. /\ Quiet /\ Len(seg) = 1 /\ Len(seg') = 1 /\ S(t) = seg[1] /\ S(t) \in SegmentType
          /\ SamePoint(Passed(S(t), t, F(t).v, i), seg'[1])
      BY <1>3, <2>1, OnlySegment
    <2>3. PICK c \in Int : Counts(S(t), c, n)
      BY <2>2 DEF Counting
    <2>4. CASE Counted(S(t), F(t).v)
      <3>1. /\ Counts(Passed(S(t), t, F(t).v, i), c, n')
            /\ Activates(S(t), F(t).v, i) <=> n[t] + 1 = S(t).count
        BY <1>1, <1>3, <2>2, <2>3, <2>4, CountsPass
      <3>2. last'.hit <=> last'.n = last'.count
        BY <1>3, <2>4, <3>1
      <3>3. Counts(seg'[1], c, n')
        BY <2>2, <3>1, CountsAlike
      <3>4. QED
        BY <2>2, <3>2, <3>3 DEF Counting
    <2>5. CASE ~Counted(S(t), F(t).v)
      <3>1. Counts(Passed(S(t), t, F(t).v, i), c, n) /\ UNCHANGED <<n, last>>
        BY <1>1, <1>3, <2>2, <2>3, <2>5, CountsPass
      <3>2. Counts(seg'[1], c, n')
        BY <2>2, <3>1, CountsAlike
      <3>3. QED
        BY <2>2, <3>1, <3>2 DEF Counting
    <2>6. QED
      BY <2>4, <2>5
  <1>4. QED
    BY <1>2, <1>3, PointPassEnds

LEMMA CountingAtChange == ASSUME Inv, Inv', Single, Counting, NEW t \in Thread, PointChange(t) PROVE Counting'
  <1>1. SUFFICES ASSUME Quiet' PROVE Counting'
    BY DEF Counting
  <1>2. last' = last
    BY PointChangeEnds
  <1>3. CASE Ends(t, PointClear(S(t))) /\ n' = n
    <2>1. /\ Quiet /\ Len(seg) = 1 /\ Len(seg') = 1 /\ S(t) = seg[1] /\ S(t) \in SegmentType
          /\ SamePoint(PointClear(S(t)), seg'[1])
      BY <1>1, <1>3, OnlySegment
    <2>2. PICK c \in Int : Counts(S(t), c, n)
      BY <2>1 DEF Counting
    <2>3. Counts(seg'[1], c, n')
      BY <1>3, <2>1, <2>2, CountsSet, CountsAlike
    <2>4. QED
      BY <1>2, <2>1, <2>3 DEF Counting
  <1>4. ASSUME NEW v \in PointCall, Ends(t, PointSet(S(t), v)), n' = [u \in Thread |-> 0]
        PROVE  Counting'
    <2>1. /\ Quiet /\ Len(seg) = 1 /\ Len(seg') = 1 /\ S(t) = seg[1] /\ S(t) \in SegmentType
          /\ SamePoint(PointSet(S(t), v), seg'[1])
      BY <1>1, <1>4, OnlySegment
    <2>2. PICK c \in Int : Counts(S(t), c, n)
      BY <2>1 DEF Counting
    <2>3. Counts(PointSet(S(t), v), v.count, n')
      BY <1>4, <2>1, <2>2, CountsSet
    <2>6. v.count \in Int
      BY DEF PointCall, Count, None
    <2>4. Counts(seg'[1], v.count, n')
      BY <2>1, <2>3, CountsAlike
    <2>5. QED
      BY <1>2, <2>1, <2>6, <2>4 DEF Counting
  <1>5. QED
    BY <1>3, <1>4, PointChangeEnds

LEMMA CountingAtWork == ASSUME Inv, Inv', Single, Counting, NEW t \in Thread, WorkStep(t) PROVE Counting'
  <1>1. CASE PointPass(t) \/ PointChange(t)
    BY <1>1, CountingAtPoint, CountingAtChange
  <1>2. CASE PointDone(t)
    BY <1>2, PointDoneEnds DEF Counting, Quiet
  <1>3. CASE StackRecurses(t) \/ Logging(t) \/ AddLog(t) \/ SetWaste(t)
    <2>1. Ends(t, S(t)) /\ UNCHANGED <<n, last>>
      BY <1>3, StackEnds, LoggingEnds, AddLogEnds, SetWasteEnds
    <2>2. QED
      BY <2>1, CountingEnds DEF SamePoint
  <1>4. GoesOn(t) /\ UNCHANGED <<n, last>> => Counting'
    BY CountingKept DEF GoesOn, shared, SamePoint
  <1>5. SamePoint(S(t), S(t))
    BY DEF SamePoint
  <1>6. CASE Waste(t) \/ Open(t)
    BY <1>4, <1>6, WasteSteps, OpenSteps, CountingEnds
  <1>7. CASE Memory(t)
    <2>1. thr[t].pc = "lock" /\ UNCHANGED <<n, last>>
      BY <1>7, MemorySteps
    <2>2. CASE \E s : Ends(t, s) /\ SamePoint(S(t), s)
      BY <2>1, <2>2, CountingEnds
    <2>3. CASE Starts(t, "waste", S(t).memory)
      BY <2>1, <2>3, CountingStarts
    <2>4. CASE Dies(ProcOf[t], Held(ProcOf[t]) \cup {thr[t].at}) /\ past \subseteq past'
      BY <2>1, <2>4, CountingDies
    <2>5. QED
      BY <1>5, <1>7, <2>2, <2>3, <2>4, MemorySteps
  <1>8. CASE Desc(t)
    <2>1. thr[t].pc = "lock" /\ UNCHANGED <<n, last>>
      BY <1>8, DescSteps
    <2>2. CASE \E s : Ends(t, s) /\ SamePoint(S(t), s)
      BY <2>1, <2>2, CountingEnds
    <2>3. CASE Starts(t, "open", S(t).desc)
      BY <2>1, <2>3, CountingStarts
    <2>4. QED
      BY <1>5, <1>8, <2>2, <2>3, DescSteps
  <1>9. QED
    BY <1>1, <1>2, <1>3, <1>6, <1>7, <1>8 DEF WorkStep

(* A segment is new: nobody has passed its point yet.                      *)
LEMMA CountingAtCreate == ASSUME Inv, Inv', Single, Counting, NEW t \in Thread, Create(t) PROVE Counting'
  <1>1. SUFFICES ASSUME Quiet' PROVE Counting'
    BY DEF Counting
  <1>2. past \subseteq past' /\ UNCHANGED <<n, last>> /\ seg' = Append(seg, NewSegment) /\ At(t, "create")
    BY DEF Create, moves
  <1>3. Quiet
    BY <1>1, <1>2 DEF Quiet
  <1>4. Len(seg) = 0
    BY <1>2, <1>3 DEF Single, Quiet, Peace, At, Fresh, Creating
  <1>5. \A u \in Thread : n[u] = 0
    BY <1>3, <1>4 DEF Counting
  <1>6. seg' = <<NewSegment>> /\ Len(seg') = 1 /\ seg'[1] = NewSegment
    <2>1. seg \in Seq(SegmentType)
      BY DEF Inv, Shape, TypeOK
    <2>2. QED
      BY <1>2, <1>4, <2>1
  <1>7. Counts(NewSegment, 0, n)
    <2>1. /\ NewSegment.file = "" /\ NewSegment.hits = [i \in Slot |-> 0] /\ NewSegment.ids = [i \in Slot |-> Nobody]
      BY DEF NewSegment
    <2>2. \A i \in Slot : NewSegment.hits[i] = 0 /\ NewSegment.ids[i] = Nobody
      BY <2>1
    <2>3. QED
      BY <1>5, <2>1, <2>2 DEF Counts
  <1>8. QED
    BY <1>2, <1>3, <1>6, <1>7 DEF Counting

LEMMA InitCounting == Init => Counting
  BY DEF Init, Counting

(* The points count also in the steps that leave the segments alone.       *)
LEMMA CountingElsewhere ==
    ASSUME Inv, Counting, seg' = seg, UNCHANGED <<n, last>>, past \subseteq past'
    PROVE  Counting'
  BY CountingKept DEF SamePoint

LEMMA NextCounting == ASSUME Inv, Inv', Single, Counting, [Next]_vars PROVE Counting'
  <1>1. ASSUME NEW t \in Thread, ThreadStep(t) PROVE Counting'
    <2>1. CASE LimitPoint(t) \/ LimitPointDone(t) \/ Hook(t) \/ Leave(t) \/ Command(t)
      BY <2>1, CountingElsewhere DEF LimitPoint, LimitPointDone, Hook, Leave, Command, Call, shared, ghosts
    <2>2. CASE Enter(t)
      BY <2>2, CountingElsewhere DEF Enter, EnterWith, shared, ghosts
    <2>3. CASE Destroy(t) \/ RemoveKeyFile(t) \/ WasteDisk(t)
      BY <2>3, CountingElsewhere DEF Destroy, RemoveKeyFile, WasteDisk, shared, ghosts
    <2>4. CASE IsProceeding(t)
      BY <2>4, CountingElsewhere DEF IsProceeding, shared, ghosts
    <2>5. CASE Create(t)
      BY <2>5, CountingAtCreate
    <2>6. CASE Truncate(t) \/ WriteKey(t) \/ SetKey(t) \/ Attach(t)
      BY <2>6, CountingElsewhere DEF Truncate, WriteKey, SetKey, Attach, shared, ghosts
    <2>7. CASE WorkStep(t)
      BY <2>7, CountingAtWork
    <2>8. QED
      BY <1>1, <2>1, <2>2, <2>3, <2>4, <2>5, <2>6, <2>7 DEF ThreadStep, WorkStep
  <1>2. ASSUME NEW p \in Server, Die(p) PROVE Counting'
    BY <1>2, CountingDies DEF Die
  <1>3. CASE Onward
    BY <1>3, CountingElsewhere DEF Onward, shared, ghosts
  <1>4. CASE UNCHANGED vars
    BY <1>4, CountingElsewhere DEF vars, shared, ghosts
  <1>5. QED
    BY <1>1, <1>2, <1>3, <1>4 DEF Next

(* A limit point fails in a thread on each "count"-th of its own passes    *)
(* (allimPointPass), whatever the others pass.                             *)
THEOREM HitsOnCount == Spec => []HitOnCount
  <1>1. Init => Counting
    BY InitCounting
  <1>2. Inv /\ Inv' /\ Single /\ Counting /\ [Next]_vars => Counting'
    BY NextCounting
  <1>3. Counting => HitOnCount
    BY DEF Counting, HitOnCount, Quiet
  <1>4. QED
    BY <1>1, <1>2, <1>3, SpecInv, SpecSingle, PTL DEF Spec

-----------------------------------------------------------------------------
(* What is wasted.  While only one process, in one life, has wasted for    *)
(* one segment, that process holds what the segment says when the lock is  *)
(* free, or what its thread has counted up to while it wastes; the others  *)
(* hold nothing.                                                           *)
Alone    == \A l, m \in movers : l = m
Mover(t) == <<ProcOf[t], Me(t).run, thr[t].at>>
Holds(p, memory, desc) == st[p].chunks = memory /\ st[p].socks = 1 .. desc

Known ==
    /\ IsFiniteSet(movers)
    /\ \A m \in movers : /\ m[1] \in Server /\ m[2] \in Nat /\ m[2] <= st[m[1]].run
                         /\ m[3] \in 1 .. Len(seg)
    /\ \A t \in Thread : thr[t].pc \in {"waste", "open"} => Mover(t) \in movers

HeldAlone ==
    /\ harm = {}
    /\ \A i \in 1 .. Len(seg) : (\A m \in movers : m[3] # i) => seg[i].memory = 0 /\ seg[i].desc = 0
    /\ \A p \in Proc : (\A m \in movers : m[1] = p => m[2] # st[p].run) => Holds(p, 0, 0)
    /\ \A m \in movers : (st[m[1]].run = m[2] /\ seg[m[3]].mLock = Nobody) =>
                            Holds(m[1], seg[m[3]].memory, seg[m[3]].desc)
    /\ \A t \in Thread : /\ thr[t].pc = "waste" => Holds(ProcOf[t], thr[t].local, S(t).desc)
                         /\ thr[t].pc = "open" => Holds(ProcOf[t], S(t).memory, thr[t].local)

Wasted == Known /\ (Alone => HeldAlone)

LEMMA InitWasted == Init => Wasted
  <1>1. SUFFICES ASSUME Init PROVE Wasted
    OBVIOUS
  <1>2. movers = {} /\ harm = {} /\ Len(seg) = 0 /\ \A t \in Thread : thr[t].pc = "idle"
    BY <1>1 DEF Init, Idle
  <1>3. \A p \in Proc : Holds(p, 0, 0)
    <2>1. \A p \in Proc : st[p].chunks = 0 /\ st[p].socks = {}
      BY <1>1 DEF Init, NewProcess
    <2>2. 1 .. 0 = {}
      OBVIOUS
    <2>3. QED
      BY <2>1, <2>2 DEF Holds
  <1>4. Known
    BY <1>2, FS_EmptySet DEF Known
  <1>5. HeldAlone
    BY <1>2, <1>3 DEF HeldAlone
  <1>6. QED
    BY <1>4, <1>5 DEF Wasted

LEMMA WastedShown == Wasted => WasteIsHeld
  <1>1. SUFFICES ASSUME Wasted, Cardinality(movers) <= 1
                 PROVE  /\ harm = {}
                        /\ \A m \in movers : (st[m[1]].run = m[2] /\ seg[m[3]].mLock = Nobody) =>
                              seg[m[3]].memory = st[m[1]].chunks /\ 1 .. seg[m[3]].desc = st[m[1]].socks
    BY DEF WasteIsHeld
  <1>2. IsFiniteSet(movers)
    BY <1>1 DEF Wasted, Known
  <1>3. Cardinality(movers) = 0 \/ Cardinality(movers) = 1
    BY <1>1, <1>2, FS_CardinalityType
  <1>4. movers = {} \/ \E x : movers = {x}
    BY <1>2, <1>3, FS_EmptySet, FS_Singleton
  <1>5. Alone
    BY <1>4 DEF Alone
  <1>6. QED
    BY <1>1, <1>5 DEF Wasted, HeldAlone, Holds

(* What a step leaves alone, or loses, of what the processes hold. *)
Same(p) == st'[p].chunks = st[p].chunks /\ st'[p].socks = st[p].socks /\ st'[p].run = st[p].run
Renewed(p) == st'[p].chunks = 0 /\ st'[p].socks = {} /\ (p \in Tool \/ (st'[p].run \in Nat /\ st'[p].run > st[p].run))

LEMMA WastedKept ==
    ASSUME Inv, Inv', Wasted, UNCHANGED moves, Len(seg) <= Len(seg'),
           \A i \in 1 .. Len(seg') :
              IF i \in 1 .. Len(seg)
              THEN /\ seg'[i].memory = seg[i].memory /\ seg'[i].desc = seg[i].desc
                   /\ seg'[i].mLock = Nobody => seg[i].mLock = Nobody
              ELSE seg'[i].memory = 0 /\ seg'[i].desc = 0,
           \A p \in Proc : Same(p) \/ Renewed(p),
           \A u \in Thread : thr'[u].pc \in {"waste", "open"} => thr'[u] = thr[u] /\ Same(ProcOf[u])
    PROVE  Wasted'
  <1>1. /\ movers' = movers /\ harm' = harm /\ Len(seg) \in Nat /\ Len(seg') \in Nat
        /\ \A p \in Proc : st[p].run \in Nat
        /\ Server \subseteq Proc /\ Server \cap Tool = {}
        /\ \A u \in Thread : ProcOf[u] \in Proc
    <2>1. \A p \in Proc : st[p].run \in Nat
      BY OldTypes DEF ProcessType
    <2>2. Len(seg') \in Nat
      BY DEF Inv, Shape, TypeOK
    <2>3. QED
      BY <2>1, <2>2, OldTypes, ProcAssumption DEF moves, Proc, ProcAssumption
  <1>2. \A m \in movers : /\ m[1] \in Server /\ m[2] \in Nat /\ m[2] <= st[m[1]].run
                          /\ m[3] \in 1 .. Len(seg) /\ m[3] \in 1 .. Len(seg') /\ m[1] \in Proc
    BY <1>1 DEF Wasted, Known
  <1>3. \A m \in movers : \/ Same(m[1])
                          \/ st'[m[1]].run \in Nat /\ st'[m[1]].run > st[m[1]].run
    BY <1>1, <1>2 DEF Renewed
  <1>4. \A m \in movers : m[2] <= st'[m[1]].run
    <2>1. \A a, b, c \in Nat : a <= b /\ (c = b \/ c > b) => a <= c
      OBVIOUS
    <2>2. SUFFICES ASSUME NEW m \in movers PROVE m[2] <= st'[m[1]].run
      OBVIOUS
    <2>3. m[2] \in Nat /\ m[2] <= st[m[1]].run /\ st[m[1]].run \in Nat
      BY <1>1, <1>2
    <2>4. st'[m[1]].run \in Nat /\ (st'[m[1]].run = st[m[1]].run \/ st'[m[1]].run > st[m[1]].run)
      BY <1>3, <2>3 DEF Same
    <2>5. QED
      BY <2>1, <2>3, <2>4
  <1>5. \A u \in Thread : thr'[u].pc \in {"waste", "open"} => Mover(u)' = Mover(u)
    BY DEF Mover, Me, Same
  <1>6. Known'
    BY <1>1, <1>2, <1>4, <1>5 DEF Wasted, Known
  <1>7. SUFFICES ASSUME Alone' PROVE HeldAlone'
    BY <1>6 DEF Wasted
  <1>8. HeldAlone
    BY <1>1, <1>7 DEF Wasted, Alone
  <1>9. \A i \in 1 .. Len(seg') : (\A m \in movers' : m[3] # i) => seg'[i].memory = 0 /\ seg'[i].desc = 0
    BY <1>1, <1>8 DEF HeldAlone
  <1>10. \A p \in Proc : (\A m \in movers' : m[1] = p => m[2] # st'[p].run) => Holds(p, 0, 0)'
    <2>1. SUFFICES ASSUME NEW p \in Proc, \A m \in movers' : m[1] = p => m[2] # st'[p].run PROVE Holds(p, 0, 0)'
      OBVIOUS
    <2>2. CASE Same(p)
      <3>1. Holds(p, 0, 0)
        BY <1>1, <1>8, <2>1, <2>2 DEF HeldAlone, Same
      <3>2. QED
        BY <2>2, <3>1 DEF Holds, Same
    <2>3. CASE Renewed(p)
      BY <2>3 DEF Renewed, Holds
    <2>4. QED
      BY <2>2, <2>3
  <1>11. \A m \in movers' : (st'[m[1]].run = m[2] /\ seg'[m[3]].mLock = Nobody) =>
                               Holds(m[1], seg[m[3]].memory, seg[m[3]].desc)' 
    <2>1. SUFFICES ASSUME NEW m \in movers, st'[m[1]].run = m[2], seg'[m[3]].mLock = Nobody
                   PROVE  Holds(m[1], seg[m[3]].memory, seg[m[3]].desc)'
      BY <1>1
    <2>2. Same(m[1])
      BY <1>1, <1>2, <1>3, <2>1
    <2>3. seg'[m[3]].memory = seg[m[3]].memory /\ seg'[m[3]].desc = seg[m[3]].desc /\ seg[m[3]].mLock = Nobody
      BY <1>2, <2>1
    <2>4. Holds(m[1], seg[m[3]].memory, seg[m[3]].desc)
      BY <1>8, <2>1, <2>2, <2>3 DEF HeldAlone, Same
    <2>5. QED
      BY <2>2, <2>3, <2>4 DEF Holds, Same
  <1>12. \A u \in Thread : /\ thr'[u].pc = "waste" => Holds(ProcOf[u], thr[u].local, S(u).desc)'
                           /\ thr'[u].pc = "open" => Holds(ProcOf[u], S(u).memory, thr[u].local)'
    <2>1. SUFFICES ASSUME NEW u \in Thread, thr'[u].pc \in {"waste", "open"}
                   PROVE  /\ thr'[u].pc = "waste" => Holds(ProcOf[u], thr[u].local, S(u).desc)'
                          /\ thr'[u].pc = "open" => Holds(ProcOf[u], S(u).memory, thr[u].local)'
      OBVIOUS
    <2>2. thr'[u] = thr[u] /\ Same(ProcOf[u])
      BY <2>1
    <2>3. thr[u].at \in 1 .. Len(seg) /\ thr[u].at \in 1 .. Len(seg')
      BY <1>1, <2>1, <2>2, AtLock
    <2>4. S(u)'.memory = S(u).memory /\ S(u)'.desc = S(u).desc
      BY <2>2, <2>3 DEF S
    <2>5. /\ thr[u].pc = "waste" => Holds(ProcOf[u], thr[u].local, S(u).desc)
          /\ thr[u].pc = "open" => Holds(ProcOf[u], S(u).memory, thr[u].local)
      BY <1>8 DEF HeldAlone
    <2>6. QED
      BY <2>2, <2>4, <2>5 DEF Holds, Same
  <1>13. QED
    BY <1>1, <1>8, <1>9, <1>10, <1>11, <1>12 DEF HeldAlone

(* A thread of a server that wastes or frees is the only one there is.     *)
LEMMA AloneBefore ==
    ASSUME Inv, Wasted, NEW t \in Thread, movers' = movers \cup {Mover(t)}, Alone',
           thr[t].pc \in {"lock", "waste", "open"}, S(t).mLock \in {Nobody, t}
    PROVE  /\ HeldAlone /\ \A m \in movers' : m = Mover(t)
           /\ \A u \in Thread : thr[u].pc \in {"waste", "open"} => u = t
           /\ \A i \in 1 .. Len(seg) : i # thr[t].at => seg[i].memory = 0 /\ seg[i].desc = 0
           /\ \A p \in Proc : p # ProcOf[t] => Holds(p, 0, 0)
           /\ S(t).mLock = Nobody => Holds(ProcOf[t], S(t).memory, S(t).desc)
  <1>1. \A m \in movers' : m = Mover(t)
    BY DEF Alone
  <1>2. \A m \in movers : m = Mover(t) /\ m[1] = ProcOf[t] /\ m[2] = Me(t).run /\ m[3] = thr[t].at
    BY <1>1 DEF Mover
  <1>3. HeldAlone
    BY <1>2 DEF Wasted, Alone
  <1>4. ASSUME NEW u \in Thread, thr[u].pc \in {"waste", "open"}, u # t
        PROVE  FALSE
    <2>1. Mover(u) = Mover(t)
      BY <1>2, <1>4 DEF Wasted, Known
    <2>2. thr[u].at = thr[t].at
      BY <2>1 DEF Mover
    <2>3. S(t).mLock = u
      BY <1>4, <2>2, AtLock DEF S
    <2>4. QED
      BY <1>4, <2>3, NamesAssumption DEF NamesAssumption
  <1>5. /\ \A i \in 1 .. Len(seg) : i # thr[t].at => seg[i].memory = 0 /\ seg[i].desc = 0
        /\ \A p \in Proc : p # ProcOf[t] => Holds(p, 0, 0)
    BY <1>2, <1>3 DEF HeldAlone
  <1>6. ASSUME S(t).mLock = Nobody
        PROVE  Holds(ProcOf[t], S(t).memory, S(t).desc)
    <2>1. thr[t].at \in 1 .. Len(seg) /\ ProcOf[t] \in Proc
      BY AtLock, OldTypes
    <2>2. CASE Mover(t) \in movers
      <3>1. \A m \in movers : (st[m[1]].run = m[2] /\ seg[m[3]].mLock = Nobody) =>
                              Holds(m[1], seg[m[3]].memory, seg[m[3]].desc)
        BY <1>3 DEF HeldAlone
      <3>2. Mover(t)[1] = ProcOf[t] /\ Mover(t)[2] = Me(t).run /\ Mover(t)[3] = thr[t].at
        BY DEF Mover
      <3>3. QED
        BY <1>6, <2>2, <3>1, <3>2 DEF Me, S
    <2>3. CASE Mover(t) \notin movers
      <3>1. movers = {}
        BY <1>2, <2>3
      <3>2. S(t).memory = 0 /\ S(t).desc = 0 /\ Holds(ProcOf[t], 0, 0)
        BY <1>3, <2>1, <3>1 DEF HeldAlone, S
      <3>3. QED
        BY <3>2
    <2>4. QED
      BY <2>2, <2>3
  <1>7. QED
    BY <1>1, <1>3, <1>4, <1>5, <1>6

(* The thread records what it has had, or counts up.                       *)
LEMMA WastedMoved ==
    ASSUME Inv, Inv', Wasted, NEW t \in Thread, ProcOf[t] \in Server, movers' = movers \cup {Mover(t)},
           thr[t].pc \in {"lock", "waste", "open"}, S(t).mLock \in {Nobody, t},
           NEW u, seg' = [seg EXCEPT ![thr[t].at] = u], NEW r, thr' = [thr EXCEPT ![t] = r], 
           r.pc \in {"waste", "open"} => r.at = thr[t].at,
           \A p \in Proc : st'[p].run = st[p].run, \A p \in Proc : p # ProcOf[t] => Same(p),
           Alone' => /\ harm' = {}
                     /\ u.mLock = Nobody => Holds(ProcOf[t], u.memory, u.desc)'
                     /\ r.pc = "waste" => Holds(ProcOf[t], r.local, u.desc)'
                     /\ r.pc = "open" => Holds(ProcOf[t], u.memory, r.local)'
    PROVE  Wasted'
  <1>1. /\ thr[t].at \in 1 .. Len(seg) /\ ProcOf[t] \in Proc /\ Me(t).run \in Nat /\ Len(seg) \in Nat
        /\ thr \in [Thread -> ThreadType] /\ seg \in Seq(SegmentType)
    BY AtLock, OldTypes DEF Inv, Shape, TypeOK, Me, ProcessType
  <1>2. /\ Len(seg') = Len(seg) /\ seg'[thr[t].at] = u
        /\ \A i \in 1 .. Len(seg) : i # thr[t].at => seg'[i] = seg[i]
        /\ thr'[t] = r /\ \A v \in Thread : v # t => thr'[v] = thr[v]
    BY <1>1
  <1>3. Mover(t)[1] = ProcOf[t] /\ Mover(t)[2] = Me(t).run /\ Mover(t)[3] = thr[t].at
    BY DEF Mover
  <1>4. IsFiniteSet(movers')
    BY FS_AddElement DEF Wasted, Known
  <1>5. \A m \in movers' : /\ m[1] \in Server /\ m[2] \in Nat /\ m[2] <= st'[m[1]].run
                           /\ m[3] \in 1 .. Len(seg')
    <2>1. SUFFICES ASSUME NEW m \in movers'
                   PROVE  m[1] \in Server /\ m[2] \in Nat /\ m[2] <= st'[m[1]].run /\ m[3] \in 1 .. Len(seg')
      OBVIOUS
    <2>2. CASE m = Mover(t)
      BY <1>1, <1>2, <1>3, <2>2 DEF Me
    <2>3. CASE m \in movers
      BY <1>2, <2>3 DEF Wasted, Known, Proc
    <2>4. QED
      BY <2>1, <2>2, <2>3
  <1>6. \A v \in Thread : thr'[v].pc \in {"waste", "open"} => Mover(v)' \in movers'
    <2>1. SUFFICES ASSUME NEW v \in Thread, thr'[v].pc \in {"waste", "open"} PROVE Mover(v)' \in movers'
      OBVIOUS
    <2>2. thr'[v].at = thr[v].at /\ (v = t \/ thr[v].pc \in {"waste", "open"})
      BY <1>2, <2>1
    <2>3. Mover(v)' = Mover(v)
      BY <2>2, OldTypes DEF Mover, Me
    <2>4. QED
      BY <2>2, <2>3 DEF Wasted, Known
  <1>7. Known'
    BY <1>4, <1>5, <1>6 DEF Known
  <1>8. SUFFICES ASSUME Alone' PROVE HeldAlone'
    BY <1>7 DEF Wasted
  <1>9. /\ \A m \in movers' : m = Mover(t) /\ Mover(t) \in movers'
        /\ \A v \in Thread : thr[v].pc \in {"waste", "open"} => v = t
        /\ \A i \in 1 .. Len(seg) : i # thr[t].at => seg[i].memory = 0 /\ seg[i].desc = 0
        /\ \A p \in Proc : p # ProcOf[t] => Holds(p, 0, 0)
    BY <1>8, AloneBefore
  <1>10. \A i \in 1 .. Len(seg') : (\A m \in movers' : m[3] # i) => seg'[i].memory = 0 /\ seg'[i].desc = 0
    BY <1>2, <1>3, <1>9
  <1>11. \A p \in Proc : (\A m \in movers' : m[1] = p => m[2] # st'[p].run) => Holds(p, 0, 0)'
    <2>1. \A p \in Proc : p # ProcOf[t] => Holds(p, 0, 0)'
      BY <1>9 DEF Holds, Same
    <2>2. st'[ProcOf[t]].run = Me(t).run
      BY <1>1 DEF Me
    <2>3. QED
      BY <1>3, <1>9, <2>1, <2>2
  <1>12. \A m \in movers' : (st'[m[1]].run = m[2] /\ seg'[m[3]].mLock = Nobody) =>
                               Holds(m[1], seg[m[3]].memory, seg[m[3]].desc)'
    BY <1>2, <1>3, <1>8, <1>9
  <1>13. \A v \in Thread : /\ thr'[v].pc = "waste" => Holds(ProcOf[v], thr[v].local, S(v).desc)'
                           /\ thr'[v].pc = "open" => Holds(ProcOf[v], S(v).memory, thr[v].local)'
    <2>1. SUFFICES ASSUME NEW v \in Thread, thr'[v].pc \in {"waste", "open"}
                   PROVE  /\ thr'[v].pc = "waste" => Holds(ProcOf[v], thr[v].local, S(v).desc)'
                          /\ thr'[v].pc = "open" => Holds(ProcOf[v], S(v).memory, thr[v].local)'
      OBVIOUS
    <2>2. v = t
      BY <1>2, <1>9, <2>1
    <2>3. S(t)' = u
      BY <1>2, <2>1, <2>2 DEF S
    <2>4. QED
      BY <1>2, <1>8, <2>2, <2>3
  <1>14. QED
    BY <1>8, <1>10, <1>11, <1>12, <1>13 DEF HeldAlone

LEMMA WastedEnds ==
    ASSUME Inv, Inv', Wasted, NEW t \in Thread, NEW s, Ends(t, s), ProcOf[t] \in Server,
           movers' = movers \cup {Mover(t)}, S(t).mLock \in {Nobody, t},
           \A p \in Proc : st'[p].run = st[p].run, \A p \in Proc : p # ProcOf[t] => Same(p),
           Alone' => harm' = {} /\ Holds(ProcOf[t], s.memory, s.desc)'
    PROVE  Wasted'
  <1>1. PICK u, r : /\ seg' = [seg EXCEPT ![thr[t].at] = u] /\ thr' = [thr EXCEPT ![t] = r] /\ Alike(s, u)
                    /\ r.pc \in Quits \cup {"hung"}
    BY DEF Ends
  <1>2. /\ r.pc \notin {"waste", "open"} /\ thr[t].pc \in {"lock", "waste", "open"}
    BY <1>1 DEF Quits, Alike, Ends
  <1>3. Alone' => /\ harm' = {}
                  /\ u.mLock = Nobody => Holds(ProcOf[t], u.memory, u.desc)'
    BY <1>1 DEF Alike
  <1>4. QED
    BY <1>1, <1>2, <1>3, WastedMoved

(* What a function leaves alone of what is wasted. *)
LEMMA WastedStays ==
    ASSUME Inv, Inv', Wasted, NEW t \in Thread, NEW s, Ends(t, s), s.memory = S(t).memory, s.desc = S(t).desc,
           S(t).mLock = Nobody \/ seg'[thr[t].at].mLock = S(t).mLock, SameData, UNCHANGED moves
    PROVE  Wasted'
  <1>1. PICK u, r : /\ seg' = [seg EXCEPT ![thr[t].at] = u] /\ thr' = [thr EXCEPT ![t] = r] /\ Alike(s, u)
                    /\ r.pc \in Quits \cup {"hung"}
    BY DEF Ends
  <1>2. Len(seg') = Len(seg) /\ DOMAIN seg = 1 .. Len(seg) /\ thr \in [Thread -> ThreadType] /\ Len(seg) \in Nat
    BY <1>1, SameLength, OldTypes DEF Inv, Shape, TypeOK
  <1>3. \A i \in 1 .. Len(seg') : /\ i \in 1 .. Len(seg)
                                  /\ seg'[i].memory = seg[i].memory /\ seg'[i].desc = seg[i].desc
                                  /\ seg'[i].mLock = Nobody => seg[i].mLock = Nobody
    BY <1>1, <1>2 DEF Alike, S
  <1>4. \A p \in Proc : Same(p)
    BY DEF Same, SameData
  <1>5. \A v \in Thread : thr'[v].pc \in {"waste", "open"} => thr'[v] = thr[v] /\ Same(ProcOf[v])
    BY <1>1, <1>2, <1>4, OldTypes DEF Quits
  <1>6. QED
    BY <1>2, <1>3, <1>4, <1>5, WastedKept

(* Only a hook wastes. *)
LEMMA HookWastes ==
    ASSUME Inv, NEW t \in Thread, Locks(t, {"memory"}) \/ Locks(t, {"desc"})
    PROVE  ProcOf[t] \in Server /\ S(t).mLock = Nobody /\ thr[t].pc = "lock"
  <1>1. thr[t].pc = "lock" /\ S(t).mLock = Nobody /\ thr[t].todo # <<>> /\ F(t).fn \in {"memory", "desc"}
    BY DEF Locks, At, Calling
  <1>2. thr[t].todo \in OwnWork => F(t) \in Function
    BY <1>1, HeadTailProperties DEF OwnWork, F
  <1>3. F(t) \notin Function
    BY <1>1 DEF Function
  <1>4. QED
    BY <1>1, <1>2, <1>3, OldTypes DEF Placed

LEMMA WastedStarts ==
    ASSUME Inv, Inv', Wasted, NEW t \in Thread, thr[t].pc = "lock", S(t).mLock = Nobody, ProcOf[t] \in Server,
           Moves(t), \/ Starts(t, "waste", S(t).memory)
                     \/ Starts(t, "open", S(t).desc)
    PROVE  Wasted'
  <1>1. PICK u, r : /\ seg' = [seg EXCEPT ![thr[t].at] = u] /\ thr' = [thr EXCEPT ![t] = r] /\ Alike(S(t), u)
                    /\ u.mLock = t /\ r.at = thr[t].at /\ st' = st /\ harm' = harm
                    /\ \/ r.pc = "waste" /\ r.local = S(t).memory
                       \/ r.pc = "open" /\ r.local = S(t).desc
    BY DEF Starts
  <1>2. movers' = movers \cup {Mover(t)} /\ \A p \in Proc : Same(p) /\ st'[p].run = st[p].run
    BY <1>1 DEF Moves, Mover, Same
  <1>3. Alone' => Holds(ProcOf[t], S(t).memory, S(t).desc) /\ harm' = {}
    BY <1>1, <1>2, AloneBefore DEF HeldAlone
  <1>4. Alone' => Holds(ProcOf[t], u.memory, u.desc)'
    BY <1>1, <1>3 DEF Holds, Alike
  <1>5. Alone' => /\ harm' = {}
                  /\ u.mLock = Nobody => Holds(ProcOf[t], u.memory, u.desc)'
                  /\ r.pc = "waste" => Holds(ProcOf[t], r.local, u.desc)'
                  /\ r.pc = "open" => Holds(ProcOf[t], u.memory, r.local)'
    BY <1>1, <1>3, <1>4 DEF Alike
  <1>6. QED
    BY <1>1, <1>2, <1>5, WastedMoved

(* The process of a thread gains or loses chunks or sockets.               *)
LEMMA Changes ==
    ASSUME Inv, NEW t \in Thread
    PROVE  /\ st' = st \/ SameData => \A p \in Proc : st'[p].run = st[p].run /\ Same(p)
           /\ \A c, d : Data(t, c, d) =>
                /\ \A p \in Proc : st'[p].run = st[p].run /\ (p # ProcOf[t] => Same(p))
                /\ st'[ProcOf[t]].chunks = c /\ st'[ProcOf[t]].socks = d
           /\ \A x : st' = [st EXCEPT ![ProcOf[t]].chunks = x] => Data(t, x, Me(t).socks)
           /\ \A x : st' = [st EXCEPT ![ProcOf[t]].socks = x] => Data(t, Me(t).chunks, x)
  <1>1. st \in [Proc -> ProcessType] /\ ProcOf[t] \in Proc
    BY OldTypes
  <1>2. st' = st \/ SameData => \A p \in Proc : st'[p].run = st[p].run /\ Same(p)
    BY DEF Same, SameData
  <1>3. ASSUME NEW c, NEW d, Data(t, c, d)
        PROVE  /\ \A p \in Proc : st'[p].run = st[p].run /\ (p # ProcOf[t] => Same(p))
               /\ st'[ProcOf[t]].chunks = c /\ st'[ProcOf[t]].socks = d
    BY <1>1, <1>3 DEF Data, Same
  <1>4. ASSUME NEW x, st' = [st EXCEPT ![ProcOf[t]].chunks = x]
        PROVE  Data(t, x, Me(t).socks)
    BY <1>1, <1>4 DEF ProcessType, Data, Me
  <1>5. ASSUME NEW x, st' = [st EXCEPT ![ProcOf[t]].socks = x]
        PROVE  Data(t, Me(t).chunks, x)
    BY <1>1, <1>5 DEF ProcessType, Data, Me
  <1>6. QED
    BY <1>2, <1>3, <1>4, <1>5

LEMMA WastedAtMemory == ASSUME Inv, Inv', Wasted, NEW t \in Thread, Memory(t) PROVE Wasted'
  <1>1. ProcOf[t] \in Server /\ S(t).mLock = Nobody /\ thr[t].pc = "lock"
    BY HookWastes DEF Memory
  <1>2. /\ S(t).memory \in Nat /\ S(t).destMemory \in Nat /\ Me(t).chunks \in Nat
        /\ \A p \in Proc : st[p].run \in Nat
    BY <1>1, AtLock, OldTypes DEF SegmentType, ProcessType, Me
  <1>3. Moves(t) => movers' = movers \cup {Mover(t)}
    BY DEF Moves, Mover
  <1>4. Moves(t) /\ Alone' => /\ harm = {} /\ Me(t).chunks = S(t).memory /\ Me(t).socks = 1 .. S(t).desc
    BY <1>1, <1>3, AloneBefore DEF HeldAlone, Holds, Me
  <1>5. CASE Ends(t, S(t)) /\ UNCHANGED <<st, moves>>
    BY <1>1, <1>5, WastedStays DEF SameData
  <1>6. CASE Starts(t, "waste", S(t).memory) /\ Moves(t)
    BY <1>1, <1>6, WastedStarts
  <1>7. CASE /\ S(t).memory > S(t).destMemory /\ Moves(t) /\ Me(t).chunks = 0 /\ SameData /\ harm' = harm
             /\ \E s : Ends(t, s) /\ SamePoint(S(t), s) /\ s.memory = 0 /\ s.desc = S(t).desc
    <2>1. ~Alone'
      BY <1>2, <1>4, <1>7
    <2>2. \A p \in Proc : st'[p].run = st[p].run /\ Same(p)
      BY <1>7, Changes
    <2>3. QED
      BY <1>1, <1>3, <1>7, <2>1, <2>2, WastedEnds
  <1>8. CASE /\ S(t).memory > S(t).destMemory /\ Moves(t) /\ harm' = harm
             /\ S(t).memory - S(t).destMemory <= Me(t).chunks
             /\ Data(t, Me(t).chunks - (S(t).memory - S(t).destMemory), Me(t).socks)
             /\ \E s : Ends(t, s) /\ SamePoint(S(t), s) /\ s.memory = S(t).destMemory /\ s.desc = S(t).desc
    <2>1. PICK x : x = Me(t).chunks - (S(t).memory - S(t).destMemory)
      OBVIOUS
    <2>2. Data(t, x, Me(t).socks)
      BY <1>8, <2>1
    <2>3. PICK s : Ends(t, s) /\ s.memory = S(t).destMemory /\ s.desc = S(t).desc
      BY <1>8
    <2>4. /\ \A p \in Proc : st'[p].run = st[p].run /\ (p # ProcOf[t] => Same(p))
          /\ st'[ProcOf[t]].chunks = x /\ st'[ProcOf[t]].socks = Me(t).socks
      BY <2>2, Changes
    <2>5. Alone' => harm' = {} /\ x = S(t).destMemory /\ Me(t).socks = 1 .. S(t).desc
      BY <1>2, <1>4, <1>8, <2>1
    <2>6. Alone' => harm' = {} /\ Holds(ProcOf[t], s.memory, s.desc)'
      BY <2>3, <2>4, <2>5 DEF Holds
    <2>7. movers' = movers \cup {Mover(t)}
      BY <1>3, <1>8
    <2>8. QED
      BY <1>1, <2>3, <2>4, <2>6, <2>7, WastedEnds
  <1>9. CASE /\ S(t).memory > S(t).destMemory /\ Moves(t)
             /\ S(t).memory - S(t).destMemory > Me(t).chunks
             /\ Dies(ProcOf[t], Held(ProcOf[t]) \cup {thr[t].at})
    <2>1. ~Alone'
      BY <1>2, <1>4, <1>9
    <2>2. movers' = movers \cup {Mover(t)} /\ IsFiniteSet(movers')
      BY <1>3, <1>9, FS_AddElement DEF Wasted, Known
    <2>3. /\ Len(seg') = Len(seg) /\ thr[t].at \in 1 .. Len(seg) /\ ProcOf[t] \in Proc /\ Server \subseteq Proc
          /\ st \in [Proc -> ProcessType]
      BY <1>1, <1>9, SameLength, AtLock, OldTypes DEF Dies, Proc
    <2>4. \A p \in Proc : st'[p].run \in Nat /\ st'[p].run >= st[p].run /\ (p # ProcOf[t] => st'[p] = st[p])
      BY <1>2, <1>9, <2>3 DEF Dies, NewProcess
    <2>5. \A m \in movers' : /\ m[1] \in Server /\ m[2] \in Nat /\ m[2] <= st'[m[1]].run
                             /\ m[3] \in 1 .. Len(seg')
      <3>1. SUFFICES ASSUME NEW m \in movers'
                     PROVE  m[1] \in Server /\ m[2] \in Nat /\ m[2] <= st'[m[1]].run /\ m[3] \in 1 .. Len(seg')
        OBVIOUS
      <3>2. CASE m = Mover(t)
        <4>1. m[1] = ProcOf[t] /\ m[2] = st[ProcOf[t]].run /\ m[3] = thr[t].at
          BY <3>2 DEF Mover, Me
        <4>2. QED
          BY <1>1, <1>2, <2>3, <2>4, <4>1
      <3>3. CASE m \in movers
        <4>1. m[1] \in Server /\ m[2] \in Nat /\ m[2] <= st[m[1]].run /\ m[3] \in 1 .. Len(seg)
          BY <3>3 DEF Wasted, Known
        <4>2. QED
          BY <1>2, <2>3, <2>4, <4>1
      <3>4. QED
        BY <2>2, <3>2, <3>3
    <2>6. \A v \in Thread : thr'[v].pc \in {"waste", "open"} => Mover(v)' \in movers'
      <3>1. SUFFICES ASSUME NEW v \in Thread, thr'[v].pc \in {"waste", "open"} PROVE Mover(v)' \in movers'
        OBVIOUS
      <3>2. ProcOf[v] # ProcOf[t] /\ thr'[v] = thr[v] /\ ProcOf[v] \in Proc
        BY <1>9, <3>1, OldTypes DEF Dies, Idle
      <3>3. Mover(v)' = Mover(v)
        BY <2>4, <3>2 DEF Mover, Me
      <3>4. QED
        BY <2>2, <3>1, <3>2, <3>3 DEF Wasted, Known
    <2>7. QED
      BY <2>1, <2>2, <2>5, <2>6 DEF Wasted, Known
  <1>10. QED
    BY <1>5, <1>6, <1>7, <1>8, <1>9, MemorySteps

LEMMA WastedAtDesc == ASSUME Inv, Inv', Wasted, NEW t \in Thread, Desc(t) PROVE Wasted'
  <1>1. ProcOf[t] \in Server /\ S(t).mLock = Nobody /\ thr[t].pc = "lock"
    BY HookWastes DEF Desc
  <1>2. S(t).desc \in Nat /\ S(t).destDesc \in Nat
    BY <1>1, AtLock DEF SegmentType
  <1>3. Moves(t) => movers' = movers \cup {Mover(t)}
    BY DEF Moves, Mover
  <1>4. Moves(t) /\ Alone' => /\ harm = {} /\ Me(t).chunks = S(t).memory /\ Me(t).socks = 1 .. S(t).desc
    BY <1>1, <1>3, AloneBefore DEF HeldAlone, Holds, Me
  <1>5. CASE Ends(t, S(t)) /\ UNCHANGED <<st, moves>>
    BY <1>1, <1>5, WastedStays DEF SameData
  <1>6. CASE Starts(t, "open", S(t).desc) /\ Moves(t)
    BY <1>1, <1>6, WastedStarts
  <1>7. CASE /\ S(t).desc > S(t).destDesc /\ Moves(t)
             /\ harm' = harm \cup (IF (S(t).destDesc + 1) .. S(t).desc \subseteq Me(t).socks THEN {} ELSE {"stray"})
             /\ Data(t, Me(t).chunks, Me(t).socks \ ((S(t).destDesc + 1) .. S(t).desc))
             /\ \E s : Ends(t, s) /\ SamePoint(S(t), s) /\ s.memory = S(t).memory /\ s.desc = S(t).destDesc
    <2>1. PICK x : x = Me(t).socks \ ((S(t).destDesc + 1) .. S(t).desc)
      OBVIOUS
    <2>2. Data(t, Me(t).chunks, x)
      BY <1>7, <2>1
    <2>3. PICK s : Ends(t, s) /\ s.memory = S(t).memory /\ s.desc = S(t).destDesc
      BY <1>7
    <2>4. /\ \A p \in Proc : st'[p].run = st[p].run /\ (p # ProcOf[t] => Same(p))
          /\ st'[ProcOf[t]].chunks = Me(t).chunks /\ st'[ProcOf[t]].socks = x
      BY <2>2, Changes
    <2>5. \A a, b \in Nat : b > a => (a + 1) .. b \subseteq 1 .. b /\ (1 .. b) \ ((a + 1) .. b) = 1 .. a
      OBVIOUS
    <2>6. Alone' => x = 1 .. S(t).destDesc
      BY <1>2, <1>4, <1>7, <2>1, <2>5
    <2>7. Alone' => harm' = {}
      BY <1>2, <1>4, <1>7, <2>5
    <2>8. Alone' => harm' = {} /\ Holds(ProcOf[t], s.memory, s.desc)'
      BY <1>4, <1>7, <2>3, <2>4, <2>6, <2>7 DEF Holds
    <2>9. movers' = movers \cup {Mover(t)}
      BY <1>3, <1>7
    <2>10. QED
      BY <1>1, <2>3, <2>4, <2>8, <2>9, WastedEnds
  <1>8. QED
    BY <1>5, <1>6, <1>7, DescSteps

(* One chunk or socket more, and one more counted; and the end.            *)
LEMMA WastedCountsUp ==
    ASSUME Inv, Inv', Wasted, NEW t \in Thread, thr[t].pc \in {"waste", "open"}, UNCHANGED moves,
           \/ GoesOn(t)
           \/ /\ SameData
              /\ \E s : /\ Ends(t, s)
                        /\ thr[t].pc = "waste" => s.memory = thr[t].local /\ s.desc = S(t).desc
                        /\ thr[t].pc = "open" => s.memory = S(t).memory /\ s.desc = thr[t].local
    PROVE  Wasted'
  <1>1. /\ ProcOf[t] \in Server /\ S(t).mLock = t /\ Mover(t) \in movers /\ thr[t].local \in Nat
        /\ thr[t].at \in 1 .. Len(seg) /\ seg \in Seq(SegmentType)
    BY AtLock, OldTypes DEF Placed, Wasted, Known, ThreadType, Inv, Shape, TypeOK
  <1>2. movers' = movers \cup {Mover(t)} /\ harm' = harm
    BY <1>1 DEF moves
  <1>3. Alone' => HeldAlone
    BY <1>1, <1>2, AloneBefore
  <1>4. Alone' => /\ harm' = {}
                  /\ thr[t].pc = "waste" => Me(t).chunks = thr[t].local /\ Me(t).socks = 1 .. S(t).desc
                  /\ thr[t].pc = "open" => Me(t).chunks = S(t).memory /\ Me(t).socks = 1 .. thr[t].local
    BY <1>2, <1>3 DEF HeldAlone, Holds, Me
  <1>5. CASE GoesOn(t)
    <2>1. PICK r : thr' = [thr EXCEPT ![t] = r] /\ r.at = thr[t].at
              /\ \/ r.pc = thr[t].pc /\ r.local = thr[t].local + 1
                    /\ IF thr[t].pc = "waste" THEN st' = [st EXCEPT ![ProcOf[t]].chunks = @ + 1]
                       ELSE st' = [st EXCEPT ![ProcOf[t]].socks = @ \cup {thr[t].local + 1}]
                 \/ r.pc = "hung" /\ SameData
      BY <1>5 DEF GoesOn
    <2>2. PICK u : /\ u = S(t) /\ seg' = [seg EXCEPT ![thr[t].at] = u] /\ u.mLock # Nobody
      <3>1. seg = [seg EXCEPT ![thr[t].at] = seg[thr[t].at]] /\ seg' = seg
        BY <1>1, <1>5 DEF GoesOn, shared
      <3>2. S(t).mLock # Nobody
        BY <1>1, NamesAssumption DEF NamesAssumption
      <3>3. QED
        BY <3>1, <3>2 DEF S
    <2>3. CASE r.pc = "hung" /\ SameData
      <3>1. \A p \in Proc : st'[p].run = st[p].run /\ Same(p)
        BY <2>3, Changes
      <3>2. QED
        BY <1>1, <1>2, <1>4, <2>1, <2>2, <2>3, <3>1, WastedMoved
    <2>4. CASE r.pc = "waste" /\ thr[t].pc = "waste" /\ r.local = thr[t].local + 1
               /\ st' = [st EXCEPT ![ProcOf[t]].chunks = @ + 1]
      <3>1. PICK x : x = Me(t).chunks + 1
        OBVIOUS
      <3>2. st' = [st EXCEPT ![ProcOf[t]].chunks = x]
        BY <2>4, <3>1 DEF Me
      <3>3. /\ \A p \in Proc : st'[p].run = st[p].run /\ (p # ProcOf[t] => Same(p))
            /\ st'[ProcOf[t]].chunks = x /\ st'[ProcOf[t]].socks = Me(t).socks
        <4>1. Data(t, x, Me(t).socks)
          BY <3>2, Changes
        <4>2. QED
          BY <4>1, Changes
      <3>4. Alone' => harm' = {} /\ Holds(ProcOf[t], r.local, u.desc)'
        BY <1>4, <2>2, <2>4, <3>1, <3>3 DEF Holds
      <3>5. QED
        BY <1>1, <1>2, <2>1, <2>2, <2>4, <3>3, <3>4, WastedMoved
    <2>5. CASE r.pc = "open" /\ thr[t].pc = "open" /\ r.local = thr[t].local + 1
               /\ st' = [st EXCEPT ![ProcOf[t]].socks = @ \cup {thr[t].local + 1}]
      <3>1. PICK x : x = Me(t).socks \cup {thr[t].local + 1}
        OBVIOUS
      <3>2. st' = [st EXCEPT ![ProcOf[t]].socks = x]
        BY <2>5, <3>1 DEF Me
      <3>3. /\ \A p \in Proc : st'[p].run = st[p].run /\ (p # ProcOf[t] => Same(p))
            /\ st'[ProcOf[t]].chunks = Me(t).chunks /\ st'[ProcOf[t]].socks = x
        <4>1. Data(t, Me(t).chunks, x)
          BY <3>2, Changes
        <4>2. QED
          BY <4>1, Changes
      <3>4. \A a \in Nat : 1 .. a \cup {a + 1} = 1 .. (a + 1)
        OBVIOUS
      <3>5. Alone' => harm' = {} /\ Holds(ProcOf[t], u.memory, r.local)'
        BY <1>1, <1>4, <2>2, <2>5, <3>1, <3>3, <3>4 DEF Holds
      <3>6. QED
        BY <1>1, <1>2, <2>1, <2>2, <2>5, <3>3, <3>5, WastedMoved
    <2>6. QED
      BY <2>1, <2>3, <2>4, <2>5
  <1>6. ASSUME SameData, NEW s, Ends(t, s), thr[t].pc = "waste" => s.memory = thr[t].local /\ s.desc = S(t).desc,
               thr[t].pc = "open" => s.memory = S(t).memory /\ s.desc = thr[t].local
        PROVE  Wasted'
    <2>1. \A p \in Proc : st'[p].run = st[p].run /\ Same(p)
      BY <1>6, Changes
    <2>2. Alone' => harm' = {} /\ Holds(ProcOf[t], s.memory, s.desc)'
      BY <1>1, <1>4, <1>6, <2>1, OldTypes DEF Holds, Me, Same
    <2>3. QED
      BY <1>1, <1>2, <1>6, <2>1, <2>2, WastedEnds
  <1>7. QED
    BY <1>5, <1>6

LEMMA WastedCounted == ASSUME Inv, Inv', Wasted, NEW t \in Thread, Waste(t) \/ Open(t) PROVE Wasted'
  <1>1. CASE Waste(t)
    BY <1>1, WasteSteps, WastedCountsUp
  <1>2. CASE Open(t)
    BY <1>2, OpenSteps, WastedCountsUp
  <1>3. QED
    BY <1>1, <1>2

LEMMA WastedAtWork == ASSUME Inv, Inv', Wasted, NEW t \in Thread, WorkStep(t) PROVE Wasted'
  <1>1. st' = st => SameData
    BY DEF SameData
  <1>2. CASE PointPass(t)
    <2>1. S(t).mLock = Nobody /\ S(t) \in SegmentType
      BY <1>2, AtLock DEF PointPass, Locks, At
    <2>2. \A p, i : Passed(S(t), t, p, i).memory = S(t).memory /\ Passed(S(t), t, p, i).desc = S(t).desc
      BY <2>1 DEF Passed, SegmentType
    <2>3. PICK s : Ends(t, s) /\ s.memory = S(t).memory /\ s.desc = S(t).desc
      BY <1>2, <2>2, PointPassEnds
    <2>4. QED
      BY <1>2, <2>1, <2>3, PointPassEnds, WastedStays
  <1>3. CASE StackRecurses(t) \/ Logging(t) \/ SetWaste(t)
    <2>1. S(t).mLock = Nobody
      BY <1>3 DEF StackRecurses, Logging, SetWaste, Locks
    <2>2. Ends(t, S(t)) /\ SameData /\ UNCHANGED moves
      BY <1>1, <1>3, StackEnds, LoggingEnds, SetWasteEnds
    <2>3. QED
      BY <2>1, <2>2, WastedStays
  <1>4. CASE AddLog(t)
    <2>1. Ends(t, S(t)) /\ UNCHANGED <<st, moves>>
      BY <1>4, AddLogEnds
    <2>2. S(t) \in SegmentType /\ thr[t].at \in 1 .. Len(seg) /\ seg \in Seq(SegmentType)
      BY <1>4, AtLock DEF AddLog, At, Inv, Shape, TypeOK
    <2>3. PICK u : u = [S(t) EXCEPT !.mLogLock = TRUE] /\ u.mLock = S(t).mLock
      <3>1. [S(t) EXCEPT !.mLogLock = TRUE].mLock = S(t).mLock
        BY <2>2 DEF SegmentType
      <3>2. QED
        BY <3>1
    <2>4. seg' = seg \/ seg' = [seg EXCEPT ![thr[t].at] = u]
      BY <1>4, <2>3 DEF AddLog, Put
    <2>5. seg'[thr[t].at].mLock = S(t).mLock
      <3>1. CASE seg' = seg
        BY <3>1 DEF S
      <3>2. CASE seg' = [seg EXCEPT ![thr[t].at] = u]
        <4>1. seg'[thr[t].at] = u
          BY <2>2, <3>2
        <4>2. QED
          BY <2>3, <4>1
      <3>3. QED
        BY <2>4, <3>1, <3>2
    <2>6. QED
      BY <1>1, <2>1, <2>5, WastedStays
  <1>5. CASE PointDone(t)
    <2>1. S(t).mLock = Nobody
      BY <1>5 DEF PointDone, Locks
    <2>2. PICK s : Ends(t, s) /\ s.memory = S(t).memory /\ s.desc = S(t).desc
      BY <1>5, PointDoneEnds
    <2>3. QED
      BY <1>1, <1>5, <2>1, <2>2, PointDoneEnds, WastedStays
  <1>6. CASE PointChange(t)
    <2>1. S(t).mLock = Nobody /\ S(t) \in SegmentType
      BY <1>6, AtLock DEF PointChange, Locks, At
    <2>2. /\ PointClear(S(t)).memory = S(t).memory /\ PointClear(S(t)).desc = S(t).desc
          /\ \A v : PointSet(S(t), v).memory = S(t).memory /\ PointSet(S(t), v).desc = S(t).desc
      BY <2>1 DEF PointClear, PointSet, SegmentType
    <2>3. PICK s : Ends(t, s) /\ s.memory = S(t).memory /\ s.desc = S(t).desc
      BY <1>6, <2>2, PointChangeEnds
    <2>4. QED
      BY <1>1, <1>6, <2>1, <2>3, PointChangeEnds, WastedStays
  <1>7. QED
    BY <1>2, <1>3, <1>4, <1>5, <1>6, WastedAtMemory, WastedAtDesc, WastedCounted DEF WorkStep

(* The steps that change neither the segments nor what is held. *)
LEMMA WastedElsewhere ==
    ASSUME Inv, Inv', Wasted, seg' = seg, UNCHANGED moves, \A p \in Proc : Same(p),
           \A u \in Thread : thr'[u].pc \in {"waste", "open"} => thr'[u] = thr[u]
    PROVE  Wasted'
  <1>1. Len(seg') = Len(seg) /\ Len(seg) \in Nat /\ \A u \in Thread : ProcOf[u] \in Proc
    BY OldTypes
  <1>2. QED
    BY <1>1, WastedKept

LEMMA WastedByThread ==
    ASSUME Inv, Inv', Wasted, NEW t \in Thread, seg' = seg, UNCHANGED moves, \A p \in Proc : Same(p),
           NEW r, thr' = [thr EXCEPT ![t] = r], r.pc \notin {"waste", "open"}
    PROVE  Wasted'
  <1>1. \A u \in Thread : thr'[u] = IF u = t THEN r ELSE thr[u]
    BY DEF Inv, Shape, TypeOK
  <1>2. QED
    BY <1>1, WastedElsewhere

LEMMA WastedAtCommand == ASSUME Inv, Inv', Wasted, NEW t \in Thread, Command(t) PROVE Wasted'
  <1>1. /\ ProcOf[t] \in Tool /\ ProcOf[t] \in Proc /\ st \in [Proc -> ProcessType] /\ thr \in [Thread -> ThreadType]
        /\ Len(seg) \in Nat /\ Server \cap Tool = {} /\ UNCHANGED <<seg, moves>>
    <2>1. Asked(t) \in CallsOf(t) /\ Asked(t).op \in {"create", "destroy", "point", "log", "line", "real", "free"}
          /\ UNCHANGED <<shared, faults, ghosts>>
      BY CallTypes DEF Command, Inv, Shape
    <2>2. ProcOf[t] \in Tool
      BY <2>1, ServersAsk
    <2>3. QED
      BY <2>1, <2>2, OldTypes, ProcAssumption DEF ProcAssumption, shared, ghosts, Inv, Shape, TypeOK
  <1>2. \A p \in Proc : IF p = ProcOf[t] THEN Renewed(p) ELSE Same(p)
    BY <1>1 DEF Command, NewProcess, Renewed, Same
  <1>3. \A u \in Thread : thr'[u].pc \in {"waste", "open"} => ProcOf[u] \in Server
    BY DEF Inv, Shape, TypeOK, Placed
  <1>4. \A u \in Thread : thr'[u].pc \in {"waste", "open"} => u # t /\ ProcOf[u] # ProcOf[t] /\ ProcOf[u] \in Proc
    BY <1>1, <1>3, OldTypes
  <1>5. \A u \in Thread : u # t => thr'[u] = thr[u]
    BY DEF Command, Go
  <1>6. \A u \in Thread : thr'[u].pc \in {"waste", "open"} => thr'[u] = thr[u] /\ Same(ProcOf[u])
    BY <1>2, <1>4, <1>5
  <1>7. QED
    BY <1>1, <1>2, <1>6, WastedKept

LEMMA WastedAtDeath == ASSUME Inv, Inv', Wasted, NEW p \in Server, Die(p) PROVE Wasted'
  <1>1. /\ p \in Proc /\ st \in [Proc -> ProcessType] /\ \A q \in Proc : st[q].run \in Nat
        /\ Dies(p, Held(p)) /\ UNCHANGED moves /\ \A u \in Thread : ProcOf[u] \in Proc
    BY OldTypes DEF Die, Proc, ProcessType
  <1>2. Len(seg') = Len(seg) /\ Len(seg) \in Nat /\ DOMAIN seg = 1 .. Len(seg) /\ seg \in Seq(SegmentType)
    BY <1>1, SameLength DEF Dies, Inv, Shape, TypeOK
  <1>3. \A s \in SegmentType : LET d == [s EXCEPT !.mLock = Dead]
                               IN  d.memory = s.memory /\ d.desc = s.desc /\ d.mLock = Dead
    BY DEF SegmentType
  <1>4. \A i \in 1 .. Len(seg) : seg'[i] = seg[i] \/ seg'[i] = [seg[i] EXCEPT !.mLock = Dead]
    BY <1>1, <1>2 DEF Dies
  <1>5. \A i \in 1 .. Len(seg) : seg[i] \in SegmentType
    BY <1>2
  <1>6. \A i \in 1 .. Len(seg) : /\ seg'[i].memory = seg[i].memory /\ seg'[i].desc = seg[i].desc
                                 /\ seg'[i].mLock = Nobody => seg[i].mLock = Nobody
    BY <1>3, <1>4, <1>5 DEF Dead, Nobody
  <1>7. \A q \in Proc : IF q = p THEN Renewed(q) ELSE Same(q)
    BY <1>1 DEF Dies, NewProcess, Renewed, Same
  <1>8. \A u \in Thread : thr'[u].pc \in {"waste", "open"} => thr'[u] = thr[u] /\ ProcOf[u] # p
    BY <1>1 DEF Dies, Idle
  <1>9. QED
    BY <1>1, <1>2, <1>6, <1>7, <1>8, WastedKept

LEMMA WastedAtCreate == ASSUME Inv, Inv', Wasted, NEW t \in Thread, Create(t) PROVE Wasted'
  <1>1. seg \in Seq(SegmentType) /\ Len(seg) \in Nat /\ seg' = Append(seg, NewSegment) /\ UNCHANGED moves
        /\ thr \in [Thread -> ThreadType] /\ thr[t] \in ThreadType
    BY OldTypes DEF Create, Inv, Shape, TypeOK, moves
  <1>2. NewSegment.memory = 0 /\ NewSegment.desc = 0
    BY DEF NewSegment
  <1>3. /\ Len(seg') = Len(seg) + 1 /\ seg'[Len(seg) + 1] = NewSegment
        /\ \A i \in 1 .. Len(seg) : seg'[i] = seg[i]
    BY <1>1
  <1>4. \A i \in 1 .. Len(seg') : IF i \in 1 .. Len(seg) THEN seg'[i] = seg[i] ELSE seg'[i] = NewSegment
    <2>1. \A k \in Nat : \A i \in 1 .. (k + 1) : i \in 1 .. k \/ i = k + 1
      OBVIOUS
    <2>2. \A i \in 1 .. Len(seg') : i \in 1 .. Len(seg) \/ i = Len(seg) + 1
      BY <1>1, <1>3, <2>1
    <2>3. QED
      BY <1>3, <2>2, Zenon
  <1>5. PICK r : thr' = [thr EXCEPT ![t] = r] /\ r.pc \in {"truncate", "idle"}
    <2>1. \A k : [thr[t] EXCEPT !.pc = "truncate", !.local = k].pc = "truncate"
      BY <1>1 DEF ThreadType
    <2>2. \/ thr' = [thr EXCEPT ![t] = Idle]
          \/ thr' = [thr EXCEPT ![t] = [thr[t] EXCEPT !.pc = "truncate", !.local = Min(FreeKeys(ProcOf[t]))]]
      BY DEF Create, Go
    <2>3. Idle.pc = "idle"
      BY DEF Idle
    <2>4. QED
      BY <2>1, <2>2, <2>3
  <1>6. \A u \in Thread : thr'[u].pc \in {"waste", "open"} => thr'[u] = thr[u]
    BY <1>1, <1>5
  <1>7. \A p \in Proc : Same(p)
    <2>1. st' = st \/ st' = [st EXCEPT ![ProcOf[t]] = [st[ProcOf[t]] EXCEPT !.sOpened = TRUE]]
      BY DEF Create
    <2>2. st \in [Proc -> ProcessType] /\ ProcOf[t] \in Proc
      BY OldTypes
    <2>3. \A p \in Proc : st'[p] = st[p] \/ st'[p] = [st[p] EXCEPT !.sOpened = TRUE]
      BY <2>1, <2>2
    <2>4. \A r1 \in ProcessType : LET r2 == [r1 EXCEPT !.sOpened = TRUE]
                                  IN  r2.chunks = r1.chunks /\ r2.socks = r1.socks /\ r2.run = r1.run
      BY DEF ProcessType
    <2>5. \A p \in Proc : st[p] \in ProcessType
      BY <2>2
    <2>6. QED
      BY <2>3, <2>4, <2>5, Zenon DEF Same
  <1>8. QED
    BY <1>1, <1>2, <1>3, <1>4, <1>6, <1>7, OldTypes, WastedKept

(* The calls, the hooks, the key and its file. *)
LEMMA WastedInThread ==
    ASSUME Inv, Inv', Wasted, NEW t \in Thread,
           \/ LimitPoint(t) \/ LimitPointDone(t) \/ Hook(t) \/ Enter(t) \/ Leave(t) \/ Destroy(t) \/ RemoveKeyFile(t)
           \/ WasteDisk(t) \/ IsProceeding(t) \/ Truncate(t) \/ WriteKey(t) \/ SetKey(t) \/ Attach(t)
    PROVE  Wasted'
  <1>1. /\ st \in [Proc -> ProcessType] /\ ProcOf[t] \in Proc /\ thr[t] \in ThreadType
    BY OldTypes
  <1>2. /\ st' = st => \A p \in Proc : Same(p)
        /\ \A b : st' = [st EXCEPT ![ProcOf[t]].gInsideHook = b] => \A p \in Proc : Same(p)
        /\ \A k : st' = [st EXCEPT ![ProcOf[t]].gKey = k] => \A p \in Proc : Same(p)
    BY <1>1 DEF ProcessType, Same
  <1>3. \A c, w : Beginning(c, w).pc = c
    BY DEF Beginning, Idle
  <1>4. Idle.pc = "idle" /\ \A c : [thr[t] EXCEPT !.pc = c].pc = c
    BY <1>1 DEF Idle, ThreadType
  <1>5. ASSUME NEW r, thr' = [thr EXCEPT ![t] = r], r.pc \notin {"waste", "open"}, UNCHANGED <<seg, moves>>,
               \A p \in Proc : Same(p)
        PROVE  Wasted'
    BY <1>5, WastedByThread
  <1>6. CASE LimitPoint(t) \/ LimitPointDone(t)
    <2>1. PICK w : thr' = [thr EXCEPT ![t] = Beginning("proceed", w)]
      BY <1>6 DEF LimitPoint, LimitPointDone, Go, Beginning
    <2>2. UNCHANGED <<seg, st, moves>>
      BY <1>6 DEF LimitPoint, LimitPointDone, Call, shared, ghosts
    <2>3. PICK r : r = Beginning("proceed", w) /\ r.pc = "proceed"
      BY <1>3
    <2>4. QED
      BY <1>2, <1>5, <2>1, <2>2, <2>3
  <1>7. CASE Hook(t)
    <2>1. PICK w : thr' = [thr EXCEPT ![t] = IF Me(t).gInsideHook THEN Idle ELSE Beginning("enter", w)]
      BY <1>7 DEF Hook, Go, Beginning
    <2>2. PICK r : thr' = [thr EXCEPT ![t] = r] /\ r.pc \in {"idle", "enter"}
      BY <1>3, <1>4, <2>1
    <2>3. UNCHANGED <<seg, st, moves>>
      BY <1>7 DEF Hook, Call, shared, ghosts
    <2>4. QED
      BY <1>2, <1>5, <2>2, <2>3
  <1>8. CASE Enter(t)
    <2>1. PICK r : thr' = [thr EXCEPT ![t] = r] /\ r.pc \in {"attach", "leave"}
      <3>1. \A c : [thr[t] EXCEPT !.hook = TRUE, !.pc = c].pc = c
        BY <1>1 DEF ThreadType
      <3>2. QED
        BY <1>8, <3>1 DEF Enter, EnterWith, Go
    <2>2. UNCHANGED <<seg, moves>> /\ st' = [st EXCEPT ![ProcOf[t]].gInsideHook = TRUE]
      BY <1>8 DEF Enter, EnterWith, shared
    <2>3. QED
      BY <1>2, <1>5, <2>1, <2>2
  <1>9. CASE Leave(t)
    <2>1. thr' = [thr EXCEPT ![t] = Idle] /\ UNCHANGED <<seg, moves>> /\ st' = [st EXCEPT ![ProcOf[t]].gInsideHook = FALSE]
      BY <1>9 DEF Leave, Go, shared, ghosts
    <2>2. QED
      BY <1>2, <1>5, <1>4, <2>1
  <1>10. CASE Destroy(t) \/ Truncate(t) \/ WriteKey(t) \/ RemoveKeyFile(t)
    <2>1. PICK r : thr' = [thr EXCEPT ![t] = r] /\ r.pc \in {"remove", "write", "setkey", "idle"}
      BY <1>10, <1>4 DEF Destroy, Truncate, WriteKey, RemoveKeyFile, Go
    <2>2. UNCHANGED <<seg, st, moves>>
      BY <1>10 DEF Destroy, Truncate, WriteKey, RemoveKeyFile, ghosts
    <2>3. QED
      BY <1>2, <1>5, <2>1, <2>2
  <1>11. CASE WasteDisk(t)
    <2>1. PICK w : thr' = [thr EXCEPT ![t] = [thr[t] EXCEPT !.todo = w]]
      BY <1>11 DEF WasteDisk, Go
    <2>2. UNCHANGED <<seg, st, moves>> /\ thr[t].pc = "attach"
      BY <1>11 DEF WasteDisk, At, ghosts
    <2>3. PICK r : r = [thr[t] EXCEPT !.todo = w] /\ r.pc = "attach"
      BY <1>1, <2>2 DEF ThreadType
    <2>4. QED
      BY <1>2, <1>5, <2>1, <2>2, <2>3
  <1>12. CASE IsProceeding(t)
    <2>1. PICK r : thr' = [thr EXCEPT ![t] = r] /\ r.pc \in {"idle", "attach", "create"}
      BY <1>12, <1>4 DEF IsProceeding, Go
    <2>2. UNCHANGED <<seg, moves>>
      BY <1>12 DEF IsProceeding, shared
    <2>3. \A p \in Proc : Same(p)
      <3>1. PICK o : st' = [st EXCEPT ![ProcOf[t]] = [[st[ProcOf[t]] EXCEPT !.gKey = KeySeen(ProcOf[t])] EXCEPT !.sOpened = o]]
        BY <1>12 DEF IsProceeding
      <3>2. QED
        BY <1>1, <3>1 DEF Same, ProcessType
    <2>4. QED
      BY <1>5, <2>1, <2>2, <2>3
  <1>13. CASE SetKey(t)
    <2>1. PICK r : thr' = [thr EXCEPT ![t] = r] /\ r.pc \in {"idle", "attach"}
      <3>1. [thr[t] EXCEPT !.pc = "attach", !.local = 0].pc = "attach"
        BY <1>1 DEF ThreadType
      <3>2. QED
        BY <1>13, <1>4, <3>1 DEF SetKey, Go
    <2>2. UNCHANGED <<seg, moves>> /\ st' = [st EXCEPT ![ProcOf[t]].gKey = thr[t].local]
      BY <1>13 DEF SetKey, shared, ghosts
    <2>3. QED
      BY <1>2, <1>5, <2>1, <2>2
  <1>14. CASE Attach(t)
    <2>1. Failed(t).pc \in {"idle", "leave", "attach"} \/ Segment(ProcOf[t]) # 0
      BY <1>1, <1>14, ReturnPlaced DEF Attach, At, Back, Inv, Shape
    <2>2. PICK r : thr' = [thr EXCEPT ![t] = r] /\ r.pc \in {"idle", "leave", "attach", "lock"}
      <3>1. [thr[t] EXCEPT !.pc = "lock", !.at = Segment(ProcOf[t])].pc = "lock"
        BY <1>1 DEF ThreadType
      <3>2. QED
        BY <1>14, <2>1, <3>1 DEF Attach, Go
    <2>3. UNCHANGED <<seg, moves>> /\ st' = [st EXCEPT ![ProcOf[t]].gKey = KeySeen(ProcOf[t])]
      BY <1>14 DEF Attach, KeepKey, shared, ghosts
    <2>4. QED
      BY <1>2, <1>5, <2>2, <2>3
  <1>15. QED
    BY <1>6, <1>7, <1>8, <1>9, <1>10, <1>11, <1>12, <1>13, <1>14

LEMMA NextWasted == ASSUME Inv, Inv', Wasted, [Next]_vars PROVE Wasted'
  <1>1. ASSUME NEW t \in Thread, ThreadStep(t) PROVE Wasted'
    BY <1>1, WastedAtWork, WastedAtCommand, WastedAtCreate, WastedInThread DEF ThreadStep, WorkStep
  <1>2. ASSUME NEW p \in Server, Die(p) PROVE Wasted'
    BY <1>2, WastedAtDeath
  <1>3. st' = st => \A p \in Proc : Same(p)
    BY DEF Same
  <1>4. CASE Onward
    BY <1>3, <1>4, WastedElsewhere DEF Onward, shared, ghosts
  <1>5. CASE UNCHANGED vars
    BY <1>3, <1>5, WastedElsewhere DEF vars, shared, ghosts
  <1>6. QED
    BY <1>1, <1>2, <1>4, <1>5 DEF Next

(* While only one process has wasted, the segment says what that process   *)
(* holds, and nothing else is ever freed or closed (allimMemory,           *)
(* allimDesc).                                                             *)
THEOREM WastedIsHeld == Spec => []WasteIsHeld
  <1>1. Inv /\ Inv' /\ Wasted /\ [Next]_vars => Wasted'
    BY NextWasted
  <1>2. QED
    BY <1>1, InitWasted, WastedShown, SpecInv, PTL DEF Spec
=============================================================================
