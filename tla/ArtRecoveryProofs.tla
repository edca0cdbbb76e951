-------------------------- MODULE ArtRecoveryProofs --------------------------
(***************************************************************************)
(* What the verdict of a recovery test says of the kills: theorems about   *)
(* ArtRecovery for every test case, any number of processes and kills.     *)
(***************************************************************************)
EXTENDS ArtRecovery, SequenceTheorems, TLAPS

(* The queues: what is in them after a command has been moved. *)
LEMMA Taking ==
    ASSUME NEW S, NEW q \in Seq(S), q # <<>>
    PROVE  /\ Head(q) \in S /\ Tail(q) \in Seq(S)
           /\ NeverSystem(q) => Head(q) # "system" /\ NeverSystem(Tail(q))
  <1>1. Head(q) \in S /\ Tail(q) \in Seq(S) /\ Len(q) \in Nat /\ Len(q) > 0
    OBVIOUS
  <1>2. Len(Tail(q)) = Len(q) - 1 /\ \A i \in 1..(Len(q) - 1) : Tail(q)[i] = q[i + 1]
    OBVIOUS
  <1>3. DOMAIN q = 1..Len(q) /\ DOMAIN Tail(q) = 1..(Len(q) - 1) /\ Head(q) = q[1] /\ 1 \in 1..Len(q)
    BY <1>1, <1>2
  <1>4. \A i \in 1..(Len(q) - 1) : i + 1 \in 1..Len(q)
    BY <1>1
  <1>5. QED
    BY <1>1, <1>2, <1>3, <1>4 DEF NeverSystem

LEMMA Adding ==
    ASSUME NEW S, NEW q \in Seq(S), NEW e \in S
    PROVE  Append(q, e) \in Seq(S) /\ (NeverSystem(q) /\ e # "system" => NeverSystem(Append(q, e)))
  <1>1. /\ Append(q, e) \in Seq(S) /\ Len(q) \in Nat /\ Len(Append(q, e)) = Len(q) + 1
        /\ \A i \in 1..(Len(q) + 1) : Append(q, e)[i] = IF i <= Len(q) THEN q[i] ELSE e
    OBVIOUS
  <1>2. DOMAIN q = 1..Len(q) /\ DOMAIN Append(q, e) = 1..(Len(q) + 1)
    BY <1>1
  <1>3. \A i \in 1..(Len(q) + 1) : i <= Len(q) => i \in 1..Len(q)
    BY <1>1
  <1>4. QED
    BY <1>1, <1>2, <1>3 DEF NeverSystem

LEMMA Joining ==
    ASSUME NEW S, NEW q \in Seq(S), NEW e \in S
    PROVE  <<e>> \o q \in Seq(S) /\ (NeverSystem(q) /\ e # "system" => NeverSystem(<<e>> \o q))
  <1>1. <<e>> \in Seq(S) /\ Len(<<e>>) = 1 /\ <<e>>[1] = e /\ Len(q) \in Nat /\ DOMAIN q = 1..Len(q)
    OBVIOUS
  <1>2. /\ <<e>> \o q \in Seq(S) /\ Len(<<e>> \o q) = 1 + Len(q)
        /\ \A i \in 1..(1 + Len(q)) : (<<e>> \o q)[i] = IF i <= 1 THEN <<e>>[i] ELSE q[i - 1]
    BY <1>1, ConcatProperties
  <1>3. DOMAIN (<<e>> \o q) = 1..(1 + Len(q))
    BY <1>2
  <1>4. \A i \in 1..(1 + Len(q)) : i = 1 \/ (~(i <= 1) /\ i - 1 \in 1..Len(q))
    BY <1>1
  <1>5. QED
    BY <1>1, <1>2, <1>3, <1>4 DEF NeverSystem

-----------------------------------------------------------------------------
(* The types. *)
Places == {"idle", "pop", "logon", "execute", "lost", "retry", "check", "start", "report", "dead",
           "aborted"}

LEMMA Moved ==
    ASSUME TypeOK, NEW p \in Proc, NEW place \in Places, Go(p, place)
    PROVE  apc' \in [Proc -> Places] /\ apc'[p] = place /\ \A q \in Proc \ {p} : apc'[q] = apc[q]
  BY DEF Go, TypeOK, Places

LEMMA InitTyped == Init => TypeOK
  <1> SUFFICES ASSUME Init PROVE TypeOK
    OBVIOUS
  <1>1. test \in Tests /\ Script \in [Proc -> Seq(Command)]
    BY TestsAssumption DEF Init, Script, Command
  <1>2. ASSUME NEW p \in Proc
        PROVE  Enable \o Script[p] \in Seq(Command)
    <2>1. Script[p] \in Seq(Command) /\ "recpt" \in Command
      BY <1>1 DEF Command
    <2>2. <<"recpt">> \o Script[p] \in Seq(Command) /\ <<>> \o Script[p] = Script[p]
      BY <2>1, Joining, ConcatEmptySeq
    <2>3. QED
      BY <2>1, <2>2 DEF Enable
  <1>3. todo \in [Proc -> Seq(Command)]
    BY <1>1, <1>2 DEF Init
  <1>4. mQuery \in [Proc -> Seq(Command \cup {"junk"})]
    <2>1. <<>> \in Seq(Command \cup {"junk"})
      OBVIOUS
    <2>2. QED
      BY <2>1 DEF Init
  <1>5. QED
    BY <1>1, <1>3, <1>4 DEF Init, TypeOK

LEMMA QueueTyped ==
    ASSUME TypeOK, NEW p \in Proc,
           PushBack(p) \/ RunReal(p) \/ Leave(p) \/ Pop(p) \/ System(p)
    PROVE  TypeOK'
  <1>1. /\ todo[p] \in Seq(Command) /\ mQuery[p] \in Seq(Command \cup {"junk"})
        /\ todo \in [Proc -> Seq(Command)] /\ mQuery \in [Proc -> Seq(Command \cup {"junk"})]
    BY DEF TypeOK
  <1>2. CASE PushBack(p)
    <2>1. Head(todo[p]) \in Command /\ Tail(todo[p]) \in Seq(Command)
      BY <1>1, <1>2, Taking DEF PushBack
    <2>2. Append(mQuery[p], Head(todo[p])) \in Seq(Command \cup {"junk"})
      BY <1>1, <2>1, Adding
    <2>3. /\ todo' \in [Proc -> Seq(Command)] /\ mQuery' \in [Proc -> Seq(Command \cup {"junk"})]
      BY <1>1, <1>2, <2>1, <2>2 DEF PushBack
    <2>4. QED
      BY <1>2, <2>3 DEF PushBack, TypeOK, flags, world
  <1>3. CASE RunReal(p) \/ Leave(p)
    <2>1. apc' \in [Proc -> Places] /\ recptr' \in [Proc -> {"junk", "recpt"}]
      <3>1. CASE RunReal(p)
        BY <3>1, Moved DEF RunReal, TypeOK, Places
      <3>2. CASE Leave(p)
        BY <3>2, Moved DEF Leave, TypeOK, Places
      <3>3. QED
        BY <1>3, <3>1, <3>2
    <2>2. UNCHANGED <<todo, mQuery, cur, seen, mLogon, session, flags, test, verdict, world>>
      BY <1>3 DEF RunReal, Leave
    <2>3. QED
      BY <2>1, <2>2 DEF TypeOK, Places, flags, world
  <1>4. CASE Pop(p)
    <2>1. Head(mQuery[p]) \in Command \cup {"junk"} /\ Tail(mQuery[p]) \in Seq(Command \cup {"junk"})
      BY <1>1, <1>4, Taking DEF Pop
    <2>2. mQuery' \in [Proc -> Seq(Command \cup {"junk"})] /\ cur' \in [Proc -> Command \cup {"none", "junk"}]
      BY <1>1, <1>4, <2>1 DEF Pop, TypeOK
    <2>3. QED
      BY <1>4, <2>2 DEF Pop, Go, TypeOK, flags, world
  <1>5. CASE System(p)
    <2>1. Tail(mQuery[p]) \in Seq(Command \cup {"junk"})
      BY <1>1, <1>5, Taking DEF System
    <2>2. mQuery' \in [Proc -> Seq(Command \cup {"junk"})]
      BY <1>1, <1>5, <2>1 DEF System
    <2>3. QED
      BY <1>5, <2>2 DEF System, TypeOK, flags
  <1>6. QED
    BY <1>2, <1>3, <1>4, <1>5

LEMMA LogonTyped ==
    ASSUME TypeOK, NEW p \in Proc,
           Logon(p) \/ LogonFails(p) \/ CleanServer(p) \/ LogonLate(p)
    PROVE  TypeOK'
  <1>1. Connect(p) => mLogon' \in [Proc -> BOOLEAN] /\ session' \in [Proc -> BOOLEAN]
    BY DEF Connect, TypeOK
  <1>2. CASE Logon(p)
    <2>1. mIsArtRestart' \in BOOLEAN
      BY <1>2 DEF Logon
    <2>2. QED
      BY <1>1, <1>2, <2>1 DEF Logon, Go, TypeOK, world
  <1>3. CASE LogonFails(p) \/ LogonLate(p)
    <2>1. apc' \in [Proc -> Places]
      <3>1. Go(p, "execute") \/ Go(p, "dead")
        BY <1>3 DEF LogonFails, LogonLate, Die
      <3>2. QED
        BY <3>1, Moved DEF Places
    <2>2. Connect(p) /\ UNCHANGED <<todo, mQuery, cur, recptr, seen, flags, test, verdict, world>>
      BY <1>3 DEF LogonFails, LogonLate
    <2>3. QED
      BY <1>1, <2>1, <2>2 DEF TypeOK, Places, flags, world
  <1>4. CASE CleanServer(p)
    <2>1. apc' \in [Proc -> Places]
      <3>1. Go(p, "execute") \/ Go(p, "dead")
        BY <1>4 DEF CleanServer, Die
      <3>2. QED
        BY <3>1, Moved DEF Places
    <2>2. /\ mLogon' \in [Proc -> BOOLEAN] /\ session' \in [Proc -> BOOLEAN]
          /\ server' \in {"up", "down"} /\ bootlog' \in {"started", "killed", "failed"}
          /\ armed' \in BOOLEAN /\ mIsArtRestart' \in BOOLEAN /\ mIsCrash' \in BOOLEAN
      BY <1>4 DEF CleanServer, TypeOK
    <2>3. UNCHANGED <<todo, mQuery, cur, recptr, seen, mIsHit, mIsFatal, test, verdict, kills, bugs>>
      BY <1>4 DEF CleanServer
    <2>4. QED
      BY <2>1, <2>2, <2>3 DEF TypeOK, Places
  <1>5. QED
    BY <1>2, <1>3, <1>4

LEMMA ServerTyped ==
    ASSUME TypeOK, NEW p \in Proc, Runs(p) \/ Dies(p)
    PROVE  /\ session' \in [Proc -> BOOLEAN] /\ server' \in {"up", "down"}
           /\ bootlog' \in {"started", "killed", "failed"} /\ armed' \in BOOLEAN
           /\ kills' \in Nat /\ bugs' \in Nat /\ mIsFatal' \in BOOLEAN
  <1>1. kills + 1 \in Nat /\ bugs + 1 \in Nat
    BY DEF TypeOK
  <1>2. CASE Runs(p)
    BY <1>2 DEF Runs, TypeOK
  <1>3. CASE Dies(p)
    BY <1>1, <1>3 DEF Dies, Killed, TypeOK
  <1>4. QED
    BY <1>2, <1>3

LEMMA ExecuteTyped ==
    ASSUME TypeOK, NEW p \in Proc, Execute(p) \/ Retry(p)
    PROVE  TypeOK'
  <1>1. /\ session' \in [Proc -> BOOLEAN] /\ server' \in {"up", "down"}
        /\ bootlog' \in {"started", "killed", "failed"} /\ armed' \in BOOLEAN
        /\ kills' \in Nat /\ bugs' \in Nat /\ mIsFatal' \in BOOLEAN
    <2>1. CASE Runs(p) \/ Dies(p)
      BY <2>1, ServerTyped
    <2>2. CASE Unconnected
      BY <2>2 DEF Unconnected, world, TypeOK
    <2>3. QED
      BY <2>1, <2>2 DEF Execute, Retry
  <1>2. apc' \in [Proc -> {"idle", "pop", "logon", "execute", "lost", "retry", "check", "start",
                         "report", "dead", "aborted"}]
    BY DEF Execute, Retry, Go, TypeOK
  <1>3. QED
    BY <1>1, <1>2 DEF Execute, Retry, TypeOK

LEMMA RecoverTyped ==
    ASSUME TypeOK, NEW p \in Proc,
           Lost(p) \/ Aborts(p) \/ RetryFails(p) \/ Hit(p) \/ Restart(p) \/ NoHit(p) \/ Report(p)
    PROVE  TypeOK'
  <1>1. CASE Lost(p) \/ RetryFails(p) \/ NoHit(p)
    <2>1. apc' \in [Proc -> Places]
      <3>1. Go(p, "retry") \/ Go(p, "check") \/ Go(p, "report") \/ Go(p, "dead")
        BY <1>1 DEF Lost, RetryFails, NoHit, Die
      <3>2. QED
        BY <3>1, Moved DEF Places
    <2>2. session' \in [Proc -> BOOLEAN] /\ seen' \in [Proc -> {"no", "hit", "bug"}]
      BY <1>1 DEF Lost, RetryFails, NoHit, TypeOK
    <2>3. UNCHANGED <<todo, mQuery, cur, recptr, mLogon, flags, test, verdict, world>>
      BY <1>1 DEF Lost, RetryFails, NoHit
    <2>4. QED
      BY <2>1, <2>2, <2>3 DEF TypeOK, Places, flags, world
  <1>2. CASE Hit(p)
    BY <1>2 DEF Hit, Go, TypeOK, world
  <1>3. CASE Report(p)
    BY <1>3 DEF Report, Go, TypeOK, world
  <1>4. CASE Restart(p)
    <2>1. /\ mQuery \in [Proc -> Seq(Command \cup {"junk"})] /\ mQuery[p] \in Seq(Command \cup {"junk"})
          /\ recptr[p] \in Command \cup {"junk"}
      BY DEF TypeOK, Command
    <2>2. <<recptr[p]>> \o mQuery[p] \in Seq(Command \cup {"junk"})
      BY <2>1, Joining
    <2>3. mQuery' \in [Proc -> Seq(Command \cup {"junk"})]
      BY <1>4, <2>1, <2>2 DEF Restart
    <2>4. QED
      BY <1>4, <2>3 DEF Restart, Go, TypeOK
  <1>5. CASE Aborts(p)
    BY <1>5 DEF Aborts, TypeOK, flags, world
  <1>6. QED
    BY <1>1, <1>2, <1>3, <1>4, <1>5

LEMMA JudgeTyped == TypeOK /\ Judge => TypeOK'
  BY DEF Judge, TypeOK, lvars, flags, world

LEMMA NextTyped == TypeOK /\ [Next]_vars => TypeOK'
  <1> SUFFICES ASSUME TypeOK, [Next]_vars PROVE TypeOK'
    OBVIOUS
  <1>1. CASE UNCHANGED vars
    BY <1>1 DEF vars, lvars, flags, world, TypeOK
  <1>2. QED
    BY <1>1, QueueTyped, LogonTyped, ExecuteTyped, RecoverTyped, JudgeTyped DEF Next, LaborerStep

-----------------------------------------------------------------------------
(* The evidence of a kill. *)
LEMMA QuietEvidence ==
    ASSUME TypeOK, Evidence, UNCHANGED <<flags, world>>,
           \A q \in Proc : apc'[q] \in {"start", "aborted"} => apc[q] = apc'[q]
    PROVE  Evidence'
  BY DEF Evidence, flags, world

LEMMA LaborerEvidence ==
    ASSUME TypeOK, Evidence, NEW p \in Proc, PushBack(p) \/ LaborerStep(p)
    PROVE  Evidence'
  <1>1. CASE PushBack(p) \/ RunReal(p) \/ Leave(p) \/ Pop(p)
    BY <1>1, QuietEvidence DEF PushBack, RunReal, Leave, Pop, Go, TypeOK
  <1>2. CASE LogonFails(p) \/ LogonLate(p) \/ Lost(p) \/ RetryFails(p) \/ NoHit(p)
    BY <1>2, QuietEvidence DEF LogonFails, LogonLate, Lost, RetryFails, NoHit, Die, Go, TypeOK
  <1>3. CASE System(p)
    BY <1>3 DEF System, Evidence, flags
  <1>4. CASE Logon(p) \/ Report(p)
    <2>1. UNCHANGED <<mIsHit, mIsCrash, world>> /\ (Go(p, "execute") \/ Go(p, "pop"))
      BY <1>4 DEF Logon, Report
    <2>2. mIsArtRestart' => mIsArtRestart
      BY <1>4, Zenon DEF Logon, Report
    <2>3. \A q \in Proc : apc'[q] \in {"start", "aborted"} => apc[q] = apc'[q]
      BY <2>1 DEF Go, TypeOK
    <2>4. QED
      BY <2>2, <2>1, <2>3 DEF Evidence, world
  <1>5. CASE CleanServer(p)
    <2>1. /\ UNCHANGED <<mIsHit, kills>> /\ mIsArtRestart /\ bootlog' \in {"started", bootlog}
          /\ Go(p, "execute") \/ Go(p, "dead")
      BY <1>5 DEF CleanServer, Die
    <2>2. \A q \in Proc : apc'[q] \in {"start", "aborted"} => apc[q] = apc'[q]
      BY <2>1 DEF Go, TypeOK
    <2>3. QED
      BY <2>1, <2>2 DEF Evidence
  <1>6. CASE Execute(p) \/ Retry(p)
    <2>1. /\ UNCHANGED <<mIsHit, mIsCrash, mIsArtRestart>>
          /\ Go(p, "report") \/ Go(p, "lost")
          /\ Runs(p) \/ Dies(p) \/ Unconnected
      BY <1>6 DEF Execute, Retry
    <2>2. \A q \in Proc : apc'[q] \in {"start", "aborted"} => apc[q] = apc'[q]
      BY <2>1 DEF Go, TypeOK
    <2>3. (kills > 0 => kills' > 0) /\ (bootlog' = "killed" => bootlog = "killed" \/ kills' > 0)
      <3>1. kills \in Nat
        BY DEF TypeOK
      <3>2. CASE Runs(p) \/ Unconnected
        BY <3>2 DEF Runs, Unconnected, world
      <3>3. CASE Dies(p)
        BY <3>1, <3>3 DEF Dies, Killed
      <3>4. QED
        BY <2>1, <3>2, <3>3
    <2>4. QED
      BY <2>1, <2>2, <2>3 DEF Evidence
  <1>7. CASE Hit(p)
    BY <1>7 DEF Hit, Evidence, world
  <1>8. CASE Restart(p)
    <2>1. /\ apc[p] = "start" /\ UNCHANGED <<mIsHit, mIsCrash, kills>> /\ bootlog' \in {"started", bootlog}
          /\ Go(p, "report")
      BY <1>8 DEF Restart
    <2>2. \A q \in Proc : apc'[q] \in {"start", "aborted"} => apc[q] = apc'[q]
      BY <2>1 DEF Go, TypeOK
    <2>3. QED
      BY <2>1, <2>2 DEF Evidence
  <1>9. CASE Aborts(p)
    BY <1>9 DEF Aborts, Evidence, flags, world
  <1>10. QED
    BY <1>1, <1>2, <1>3, <1>4, <1>5, <1>6, <1>7, <1>8, <1>9 DEF LaborerStep

-----------------------------------------------------------------------------
(* A server that is down stays down as long as no kill has been seen. *)
LEMMA QueuesUnseen ==
    ASSUME TypeOK, NEW p \in Proc, PushBack(p) \/ LaborerStep(p),
           \A q \in Proc : NeverSystem(todo[q]) /\ NeverSystem(mQuery[q])
    PROVE  ~System(p) /\ \A q \in Proc : NeverSystem(todo'[q]) /\ NeverSystem(mQuery'[q])
  <1>1. /\ todo[p] \in Seq(Command) /\ mQuery[p] \in Seq(Command \cup {"junk"})
        /\ recptr[p] \in Command \cup {"junk"} /\ recptr[p] # "system"
    BY DEF TypeOK, Command
  <1>2. ~System(p)
    BY <1>1, Taking DEF System
  <1>3. CASE PushBack(p)
    <2>1. /\ todo' = [todo EXCEPT ![p] = Tail(todo[p])]
          /\ mQuery' = [mQuery EXCEPT ![p] = Append(mQuery[p], Head(todo[p]))]
          /\ todo[p] # <<>>
      BY <1>3 DEF PushBack
    <2>2. Head(todo[p]) \in Command /\ Head(todo[p]) # "system" /\ NeverSystem(Tail(todo[p]))
      BY <1>1, <2>1, Taking
    <2>3. NeverSystem(Append(mQuery[p], Head(todo[p])))
      BY <1>1, <2>2, Adding
    <2>4. QED
      BY <1>2, <2>1, <2>2, <2>3 DEF TypeOK
  <1>4. CASE Pop(p)
    <2>1. mQuery' = [mQuery EXCEPT ![p] = Tail(mQuery[p])] /\ mQuery[p] # <<>> /\ UNCHANGED todo
      BY <1>4 DEF Pop
    <2>2. NeverSystem(Tail(mQuery[p]))
      BY <1>1, <2>1, Taking
    <2>3. QED
      BY <1>2, <2>1, <2>2 DEF TypeOK
  <1>5. CASE Restart(p)
    <2>1. /\ UNCHANGED todo
          /\ mQuery' = [mQuery EXCEPT ![p] = <<recptr[p]>> \o mQuery[p]] \/ mQuery' = mQuery
      BY <1>5 DEF Restart
    <2>2. NeverSystem(<<recptr[p]>> \o mQuery[p])
      BY <1>1, Joining
    <2>3. QED
      BY <1>2, <2>1, <2>2 DEF TypeOK
  <1>6. CASE UNCHANGED <<todo, mQuery>>
    BY <1>2, <1>6
  <1>7. QED
    BY <1>2, <1>3, <1>4, <1>5, <1>6 DEF LaborerStep, RunReal, Leave, Logon, LogonFails, CleanServer,
       LogonLate, Execute, Lost, Aborts, Retry, RetryFails, Hit, NoHit, Report

LEMMA LaborerUnseen ==
    ASSUME TypeOK, Evidence, Unseen, NEW p \in Proc, PushBack(p) \/ LaborerStep(p)
    PROVE  Unseen'
  <1>1. UNCHANGED test /\ (mIsHit => mIsHit')
    BY DEF PushBack, LaborerStep, RunReal, Leave, Pop, System, Logon, LogonFails, CleanServer,
       LogonLate, Execute, Lost, Aborts, Retry, RetryFails, Hit, Restart, NoHit, Report, flags
  <1>2. RestartsItself' <=> RestartsItself
    BY <1>1 DEF RestartsItself, Script
  <1>3. CASE RestartsItself
    BY <1>2, <1>3 DEF Unseen
  <1>4. CASE ~RestartsItself
    <2>1. /\ \A q \in Proc : NeverSystem(todo[q]) /\ NeverSystem(mQuery[q])
          /\ ~mIsHit /\ server = "up" =>
                /\ kills = 0
                /\ \A q \in Proc : /\ apc[q] \notin {"lost", "retry", "check"}
                                   /\ mLogon[q] \/ apc[q] = "execute" => session[q]
          /\ ~mIsHit /\ server = "down" => \A q \in Proc : ~session[q]
          /\ ~mIsHit /\ kills > 0 =>
                bootlog = "killed" /\ \E q \in Proc : apc[q] \in {"lost", "retry", "check"}
      BY <1>4 DEF Unseen
    <2>2. ~System(p) /\ \A q \in Proc : NeverSystem(todo'[q]) /\ NeverSystem(mQuery'[q])
      BY <2>1, QueuesUnseen
    <2>3. CASE mIsHit'
      BY <2>2, <2>3 DEF Unseen
    <2>4. CASE ~mIsHit'
      <3> DEFINE Holds == /\ server = "up" =>
                                /\ kills = 0
                                /\ \A q \in Proc : /\ apc[q] \notin {"lost", "retry", "check"}
                                                   /\ mLogon[q] \/ apc[q] = "execute" => session[q]
                          /\ server = "down" => \A q \in Proc : ~session[q]
                          /\ kills > 0 => /\ bootlog = "killed"
                                          /\ \E q \in Proc : apc[q] \in {"lost", "retry", "check"}
      <3>1. ~mIsHit /\ ~mIsArtRestart /\ (\A q \in Proc : apc[q] # "start") /\ Holds
        BY <1>1, <2>1, <2>4 DEF Evidence
      <3>2. server \in {"up", "down"} /\ kills \in Nat
        BY DEF TypeOK
      <3>3. CASE PushBack(p) \/ RunReal(p) \/ Leave(p) \/ Pop(p) \/ Report(p)
        <4>1. /\ UNCHANGED <<mLogon, session, world>>
              /\ UNCHANGED apc \/ (apc[p] \in {"idle", "pop", "report"} /\ apc'[p] \in {"idle", "pop", "logon"})
              /\ \A q \in Proc \ {p} : apc'[q] = apc[q]
          BY <3>3 DEF PushBack, RunReal, Leave, Pop, Report, Go, TypeOK
        <4>2. Holds'
          BY <3>1, <4>1 DEF world
        <4>3. QED
          BY <2>2, <4>2 DEF Unseen
      <3>4. CASE Logon(p) \/ LogonFails(p)
        <4>1. /\ UNCHANGED world /\ apc[p] = "logon" /\ apc'[p] \in {"execute", "dead"}
              /\ \A q \in Proc \ {p} : apc'[q] = apc[q] /\ mLogon'[q] = mLogon[q] /\ session'[q] = session[q]
              /\ session'[p] = IF mLogon[p] THEN session[p] ELSE server = "up"
              /\ server = "up" \/ mLogon[p] \/ server = "down"
          BY <3>2, <3>4 DEF Logon, LogonFails, Connect, Die, Go, TypeOK
        <4>2. Holds'
          BY <3>1, <3>2, <4>1 DEF world
        <4>3. QED
          BY <2>2, <4>2 DEF Unseen
      <3>5. CASE CleanServer(p) \/ LogonLate(p) \/ Restart(p) \/ Hit(p) \/ Aborts(p)
        <4>1. mIsArtRestart \/ apc[p] = "start" \/ mIsHit'
          BY <3>5 DEF CleanServer, LogonLate, Restart, Hit, Aborts
        <4>2. QED
          BY <2>4, <3>1, <4>1
      <3>6. CASE Execute(p)
        <4>1. /\ apc[p] = "execute" /\ mLogon' = mLogon /\ \A q \in Proc \ {p} : apc'[q] = apc[q]
          BY <3>6 DEF Execute, Go, TypeOK
        <4>2. CASE session[p] /\ Runs(p) /\ Go(p, "report")
          <5>1. /\ UNCHANGED <<server, bootlog, kills>> /\ server = "up" /\ apc'[p] = "report"
                /\ \A q \in Proc : session[q] => session'[q]
            BY <3>1, <3>2, <4>2 DEF Runs, Go, TypeOK
          <5>2. Holds'
            BY <3>1, <4>1, <5>1
          <5>3. QED
            BY <2>2, <5>2 DEF Unseen
        <4>3. CASE session[p] /\ Dies(p) /\ Go(p, "lost")
          <5>1. /\ server' = "down" /\ apc'[p] = "lost" /\ \A q \in Proc : ~session'[q]
                /\ (kills' = kills + 1 /\ bootlog' = "killed") \/ kills' = kills
            BY <4>3 DEF Dies, Killed, Go, TypeOK
          <5>2. kills = 0
            BY <3>1, <3>2, <4>3
          <5>3. Holds'
            BY <5>1, <5>2
          <5>4. QED
            BY <2>2, <5>3 DEF Unseen
        <4>4. CASE ~session[p] /\ Unconnected /\ Go(p, "lost")
          <5>1. server = "down" /\ UNCHANGED <<session, world>> /\ apc'[p] = "lost"
            BY <3>1, <3>2, <4>1, <4>4 DEF Unconnected, Go, TypeOK
          <5>2. Holds'
            BY <3>1, <4>1, <5>1 DEF world
          <5>3. QED
            BY <2>2, <5>2 DEF Unseen
        <4>5. QED
          BY <3>6, <4>2, <4>3, <4>4 DEF Execute
      <3>7. CASE Lost(p) \/ RetryFails(p)
        <4>1. /\ UNCHANGED <<mLogon, session, world>>
              /\ apc[p] \in {"lost", "retry"} /\ apc'[p] \in {"retry", "check"}
              /\ \A q \in Proc \ {p} : apc'[q] = apc[q]
          BY <3>7 DEF Lost, RetryFails, Go, TypeOK
        <4>2. Holds'
          BY <3>1, <3>2, <4>1 DEF world
        <4>3. QED
          BY <2>2, <4>2 DEF Unseen
      <3>8. CASE Retry(p)
        BY <3>1, <3>8 DEF Retry
      <3>9. CASE NoHit(p)
        <4>1. server = "down" /\ ~(kills > 0)
          BY <3>1, <3>2, <3>9 DEF NoHit
        <4>2. UNCHANGED <<session, world>>
          BY <3>9, <4>1 DEF NoHit
        <4>3. Holds'
          BY <3>1, <4>1, <4>2 DEF world
        <4>4. QED
          BY <2>2, <4>3 DEF Unseen
      <3>10. QED
        BY <2>2, <3>3, <3>4, <3>5, <3>6, <3>7, <3>8, <3>9 DEF LaborerStep
    <2>5. QED
      BY <2>3, <2>4
  <1>5. QED
    BY <1>3, <1>4

-----------------------------------------------------------------------------
(* The verdict is the last step. *)
LEMMA LastStep ==
    ASSUME TypeOK, NEW p \in Proc, Ended
    PROVE  ~PushBack(p) /\ ~LaborerStep(p)
  <1>1. todo[p] = <<>> /\ (apc[p] = "dead" \/ (apc[p] = "idle" /\ mQuery[p] = <<>>))
    BY DEF Ended
  <1>2. QED
    BY <1>1 DEF PushBack, LaborerStep, RunReal, Leave, Pop, System, Logon, LogonFails, CleanServer,
       LogonLate, Execute, Lost, Aborts, Retry, RetryFails, Hit, Restart, NoHit, Report

LEMMA JudgeStep ==
    ASSUME Evidence, Unseen, Judge
    PROVE  Evidence' /\ Unseen' /\ Judged'
  <1>1. UNCHANGED <<lvars, session, flags, test, world>> /\ Ended
    BY DEF Judge
  <1>2. Evidence' /\ Unseen' /\ Ended'
    BY <1>1 DEF Evidence, Unseen, Ended, RestartsItself, Script, lvars, flags, world
  <1>3. /\ verdict' \in {"MISS", "FATAL"} /\ Kind # "regressive" => ~mIsHit
        /\ verdict' \in {"PASS", "FAIL"} => Kind = "regressive"
    BY DEF Judge
  <1>4. QED
    BY <1>1, <1>2, <1>3 DEF Judged, Kind, flags

-----------------------------------------------------------------------------
(* The inductive invariant. *)
Inv == TypeOK /\ Evidence /\ Unseen /\ Judged

LEMMA InitInv == Init => Inv
  <1> SUFFICES ASSUME Init PROVE Inv
    OBVIOUS
  <1>1. TypeOK
    BY InitTyped
  <1>2. Evidence /\ Judged
    BY DEF Init, Evidence, Judged
  <1>3. ASSUME ~RestartsItself, NEW p \in Proc
        PROVE  NeverSystem(todo[p]) /\ NeverSystem(mQuery[p])
    <2>1. Script[p] \in Seq(Command) /\ "recpt" \in Command
      BY TestsAssumption DEF Init, Script, Command
    <2>2. NeverSystem(Script[p])
      BY <1>3 DEF RestartsItself, NeverSystem
    <2>3. /\ <<"recpt">> \o Script[p] \in Seq(Command) /\ NeverSystem(<<"recpt">> \o Script[p])
          /\ <<>> \o Script[p] = Script[p]
      BY <2>1, <2>2, Joining, ConcatEmptySeq
    <2>4. NeverSystem(todo[p])
      BY <2>2, <2>3 DEF Init, Enable
    <2>5. mQuery[p] = <<>>
      BY DEF Init
    <2>6. QED
      BY <2>4, <2>5 DEF NeverSystem
  <1>4. Unseen
    BY <1>3 DEF Init, Unseen
  <1>5. QED
    BY <1>1, <1>2, <1>4 DEF Inv

LEMMA NextInv == Inv /\ [Next]_vars => Inv'
  <1> SUFFICES ASSUME Inv, [Next]_vars PROVE Inv'
    OBVIOUS
  <1>1. TypeOK /\ Evidence /\ Unseen /\ Judged /\ TypeOK'
    BY NextTyped DEF Inv
  <1>2. ASSUME NEW p \in Proc, PushBack(p) \/ LaborerStep(p)
        PROVE  Inv'
    <2>1. verdict = "none"
      BY <1>1, <1>2, LastStep DEF Judged
    <2>2. verdict' = verdict
      BY <1>2 DEF PushBack, LaborerStep, RunReal, Leave, Pop, System, Logon, LogonFails, CleanServer,
         LogonLate, Execute, Lost, Aborts, Retry, RetryFails, Hit, Restart, NoHit, Report
    <2>3. QED
      BY <1>1, <1>2, <2>1, <2>2, LaborerEvidence, LaborerUnseen DEF Inv, Judged
  <1>3. CASE Judge
    BY <1>1, <1>3, JudgeStep DEF Inv
  <1>4. CASE UNCHANGED vars
    BY <1>1, <1>4 DEF Inv, Evidence, Unseen, Judged, Ended, RestartsItself, Script, Kind, vars, lvars,
       flags, world
  <1>5. QED
    BY <1>2, <1>3, <1>4 DEF Next

LEMMA Invariance == Spec => []Inv
  BY InitInv, NextInv, PTL DEF Spec

(* A reported hit is a kill, and no kill is missed, however the laborers   *)
(* whose sessions broke overtake each other between the logon, the boot    *)
(* log and the restart: HitIsReal for every test case, any number of       *)
(* processes, of kills and of bugs, with the assertion live or not.        *)
THEOREM HitsAreReal == Spec => []HitIsReal
  <1>1. ASSUME Inv PROVE HitIsReal
    <2>1. mIsHit => kills > 0
      BY <1>1 DEF Inv, Evidence
    <2>2. ASSUME kills > 0, Kind # "regressive", ~RestartsItself,
                 verdict \notin {"none", "HIT", "CRASH"}
          PROVE  FALSE
      <3>1. verdict \in {"MISS", "FATAL"}
        BY <1>1, <2>2 DEF Inv, TypeOK, Judged
      <3>2. ~mIsHit /\ Ended
        BY <1>1, <2>2, <3>1 DEF Inv, Judged
      <3>3. PICK p \in Proc : apc[p] \in {"lost", "retry", "check"}
        BY <1>1, <2>2, <3>2 DEF Inv, Unseen
      <3>4. QED
        BY <3>2, <3>3 DEF Ended
    <2>3. Aborted => mIsHit /\ verdict = "none"
      BY <1>1 DEF Inv, Aborted, Evidence, Judged, Ended
    <2>4. QED
      BY <2>1, <2>2, <2>3 DEF HitIsReal
  <1>2. QED
    BY <1>1, Invariance, PTL

(* A crash is reported only after a hit: CrashAfterHit for every test      *)
(* case, any number of processes, of kills and of bugs.                    *)
THEOREM CrashesFollowHits == Spec => []CrashAfterHit
  <1>1. Inv => CrashAfterHit
    BY DEF Inv, Evidence, CrashAfterHit
  <1>2. QED
    BY <1>1, Invariance, PTL
==============================================================================
