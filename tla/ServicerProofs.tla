--------------------------- MODULE ServicerProofs ----------------------------
(***************************************************************************)
(* Theorems about Servicer and its laborers, for every set of processes,   *)
(* every set of scripts and every fault the constants allow: the types, the *)
(* order of the commands, the barriers, the end of the laborers; that a    *)
(* verdict is about the whole script, that a quiet run passes, and that    *)
(* the threads, queues and locks implement the abstract test case.         *)
(***************************************************************************)
EXTENDS Servicer, SequenceTheorems, WellFoundedInduction, TLAPS

-----------------------------------------------------------------------------
(* What an item of a script gives. *)
LEMMA ItemType ==
    ASSUME NEW s \in Scripts, NEW i \in 1..Len(s)
    PROVE  /\ s \in Seq(Item)
           /\ Len(s) \in Nat
           /\ s[i].proc \in Proc
           /\ CommandAt(s, i) \in Command
           /\ CommandAt(s, i).id = i
           /\ Owner(s, i) \in Proc
  <1>1. s \in Seq(Item)
    BY ScriptsAssumption DEF WellFormed
  <1>2. Len(s) \in Nat /\ s[i] \in Item /\ i \in Nat
    BY <1>1
  <1>3. QED
    BY <1>1, <1>2, P0Assumption DEF Item, Command, CommandAt, Owner, Kinds

LEMMA ScriptLength == \A s \in Scripts : s \in Seq(Item) /\ Len(s) \in Nat
  BY ScriptsAssumption DEF WellFormed

LEMMA NextPlace ==
    ASSUME NEW n \in Nat, NEW i \in 1..(n + 1), i # n + 1
    PROVE  /\ i \in 1..n
           /\ i + 1 \in 1..(n + 1)
           /\ 1..(i + 1 - 1) = 1..(i - 1) \cup {i}
  OBVIOUS

(* An element stands behind the node of its section. *)
LEMMA ElementHasNode ==
    ASSUME NEW s \in Scripts, NEW i \in 1..Len(s), s[i].op = "cmd"
    PROVE  \E j \in 1..(i - 1) : s[j].op = "node" /\ s[j].proc = s[i].proc
  <1>1. s \in Seq(Item) /\ DOMAIN s = 1..Len(s) /\ Len(s) \in Nat
    BY ScriptLength
  <1>2. PICK j \in 1..i : s[j].op = "node" /\ s[j].proc = s[i].proc
    BY <1>1, ScriptsAssumption DEF WellFormed
  <1>3. j # i
    BY <1>2
  <1>4. QED
    BY <1>1, <1>2, <1>3

-----------------------------------------------------------------------------
(* A step of a laborer keeps the types of the laborers' variables. *)
LEMMA LaborerTyped ==
    ASSUME LTypeOK, NEW p \in Proc, LaborerStep(p)
    PROVE  LTypeOK'
  <1> USE DEF LTypeOK, Threads
  <1>1. CASE Work(p)
    BY <1>1 DEF Work
  <1>2. CASE Exit(p)
    BY <1>2 DEF Exit
  <1>3. CASE Pop(p)
    BY <1>3 DEF Pop
  <1>4. CASE Drained(p)
    BY <1>4 DEF Drained
  <1>5. ASSUME cur[p] # <<>>, NEW out \in Outputs, Finish(p, out)
        PROVE  /\ mResult' \in [Proc -> Seq(Entry)]
               /\ cur' \in [Proc -> Seq(Command)]
               /\ lpc' \in [Proc -> Threads]
    <2>1. Head(cur[p]) \in Command
      BY <1>5
    <2>2. [cmd |-> Head(cur[p]), out |-> out] \in Entry
      BY <2>1, <1>5 DEF Entry
    <2>3. QED
      BY <2>2, <1>5 DEF Finish
  <1>6. CASE ExecText(p)
    BY <1>6, <1>5 DEF ExecText, Executing, Outputs
  <1>7. CASE ExecSkip(p)
    BY <1>7, <1>5 DEF ExecSkip, Executing, Outputs
  <1>8. CASE ExecRestart(p)
    BY <1>8, <1>5 DEF ExecRestart, Executing, Outputs
  <1>9. ASSUME cur[p] # <<>>, NEW how \in Logons, Die(p, how)
        PROVE  LTypeOK'
    <2>1. [cmd |-> Head(cur[p]), out |-> "dead"] \in Entry
      BY <1>9 DEF Entry, Outputs
    <2>2. QED
      BY <2>1, <1>9 DEF Die
  <1>10. CASE LogonFails(p)
    BY <1>10, <1>9 DEF LogonFails, Executing
  <1>11. ASSUME NEW answer \in Answers \cup {"ok"}
         PROVE  Shown(p, answer) \in Outputs
    BY AnswersAssumption DEF Shown, Outputs
  <1>12. CASE ExecSql(p)
    BY <1>12, <1>5, <1>11 DEF ExecSql, Executing
  <1>13. CASE ExecSqlAgain(p)
    BY <1>13, <1>5, <1>11 DEF ExecSqlAgain, Executing
  <1>14. CASE RelogonFails(p)
    BY <1>14, <1>9 DEF RelogonFails, Executing
  <1>15. QED
    BY <1>1, <1>2, <1>3, <1>4, <1>6, <1>7, <1>8, <1>10, <1>12, <1>13, <1>14 DEF LaborerStep

-----------------------------------------------------------------------------
(* A step of the Servicer keeps every type. *)
LEMMA ServicerTyped ==
    ASSUME TypeOK, ServicerStep
    PROVE  TypeOK'
  <1> USE DEF TypeOK, LTypeOK, Places, Verdicts
  <1>a. script \in Seq(Item) /\ Len(script) \in Nat /\ ip \in Nat
    <2>1. script \in Seq(Item) /\ Len(script) \in Nat
      BY ScriptLength
    <2>2. ip \in 1..(Len(script) + 1)
      OBVIOUS
    <2>3. ip \in Nat
      BY <2>1, <2>2
    <2>4. QED
      BY <2>1, <2>3
  <1>b. ASSUME ~Final
        PROVE  ip \in 1..Len(script) /\ ip + 1 \in 1..(Len(script) + 1)
    <2>1. ip # Len(script) + 1 /\ ip \in 1..(Len(script) + 1)
      BY <1>b DEF Final
    <2>2. QED
      BY <1>a, <2>1, NextPlace
  <1>c. ASSUME ~Final
        PROVE  /\ script[ip].proc \in Proc
               /\ CommandAt(script, ip) \in Command
    BY <1>b, <1>c, ItemType
  <1>d. ASSUME NEW p \in Proc, NEW cs \in Seq(Command), PushBack(p, cs)
        PROVE  LTypeOK'
    BY <1>d DEF PushBack
  <1>1. CASE Load
    BY <1>1 DEF Load, lvars
  <1>2. CASE LoadFails
    BY <1>2 DEF LoadFails, Error, lvars
  <1>3. CASE RunLaborer
    <2>1. script[ip].proc \in Proc /\ ip + 1 \in 1..(Len(script) + 1)
      BY <1>3, <1>b, <1>c DEF RunLaborer, At
    <2>2. LTypeOK'
      BY <1>3, <2>1 DEF RunLaborer, Start, Threads
    <2>3. mQuery' \in [Proc -> Seq(Command)]
      BY <1>3, <2>1 DEF RunLaborer
    <2>4. QED
      BY <1>3, <2>1, <2>2, <2>3 DEF RunLaborer
  <1>4. CASE RunLaborerFails
    BY <1>4 DEF RunLaborerFails, Error, lvars
  <1>5. CASE SameLaborer
    BY <1>5, <1>b DEF SameLaborer, At, lvars
  <1>6. CASE PushP0
    <2>1. ip + 1 \in 1..(Len(script) + 1) /\ <<CommandAt(script, ip)>> \in Seq(Command)
      BY <1>6, <1>b, <1>c DEF PushP0, At
    <2>2. LTypeOK'
      BY <1>6, <2>1, <1>d, P0Assumption DEF PushP0
    <2>3. QED
      BY <1>6, <2>1, <2>2 DEF PushP0
  <1>7. CASE PushBuffer
    <2>1. /\ ip + 1 \in 1..(Len(script) + 1)
          /\ CommandAt(script, ip) \in Command
          /\ script[ip].proc \in Proc
      BY <1>7, <1>b, <1>c DEF PushBuffer, At
    <2>2. mQuery' \in [Proc -> Seq(Command)]
      BY <1>7, <2>1 DEF PushBuffer
    <2>3. QED
      BY <1>7, <2>1, <2>2 DEF PushBuffer, lvars
  <1>8. CASE Ignore
    BY <1>8, <1>b DEF Ignore, At, lvars
  <1>9. CASE Pwait
    BY <1>9 DEF Pwait, lvars
  <1>10. CASE EndOfScript
    BY <1>10 DEF EndOfScript, lvars
  <1>11. CASE Flushed
    BY <1>11 DEF Flushed, lvars
  <1>12. CASE Waited
    <2>1. ip + 1 \in 1..(Len(script) + 1) /\ <<CommandAt(script, ip)>> \in Seq(Command)
      BY <1>12, <1>b, <1>c DEF Waited
    <2>2. LTypeOK'
      BY <1>12, <2>1, <1>d, P0Assumption DEF Waited
    <2>3. QED
      BY <1>12, <2>1, <2>2 DEF Waited
  <1>13. CASE LastWaited
    BY <1>13 DEF LastWaited, lvars
  <1>14. CASE Joined
    BY <1>14 DEF Joined, lvars
  <1>15. CASE Ignored
    BY <1>15 DEF Ignored, lvars
  <1>16. CASE Collected
    BY <1>16 DEF Collected, lvars
  <1>17. CASE Judge
    BY <1>17 DEF Judge, lvars
  <1>18. CASE Destroyed
    BY <1>18 DEF Destroyed, lvars
  <1>19. ASSUME NEW p \in Proc, Flush(p)
         PROVE  TypeOK'
    <2>1. LTypeOK'
      BY <1>19, <1>d DEF Flush
    <2>2. mQuery' \in [Proc -> Seq(Command)]
      BY <1>19 DEF Flush
    <2>3. QED
      BY <1>19, <2>1, <2>2 DEF Flush
  <1>20. ASSUME NEW p \in Proc, Wait(p)
         PROVE  TypeOK'
    BY <1>20 DEF Wait, lvars
  <1>21. ASSUME NEW p \in Proc, EndLaborer(p)
         PROVE  TypeOK'
    BY <1>21 DEF EndLaborer, End
  <1>22. ASSUME NEW p \in Proc, Join(p)
         PROVE  TypeOK'
    BY <1>22 DEF Join, lvars
  <1>23. ASSUME NEW p \in Proc, Collect(p)
         PROVE  TypeOK'
    BY <1>23 DEF Collect, TakeResult
  <1>24. ASSUME NEW p \in Proc, DestroyLaborer(p) \/ DestroyFails(p)
         PROVE  TypeOK'
    BY <1>24 DEF DestroyLaborer, DestroyFails, Destroy, Threads
  <1>25. QED
    BY <1>1, <1>2, <1>3, <1>4, <1>5, <1>6, <1>7, <1>8, <1>9, <1>10, <1>11, <1>12,
       <1>13, <1>14, <1>15, <1>16, <1>17, <1>18, <1>19, <1>20, <1>21, <1>22, <1>23,
       <1>24 DEF ServicerStep

LEMMA InitTyped ==
    ASSUME Init
    PROVE  TypeOK
  <1>1. <<>> \in Seq(Command) /\ <<>> \in Seq(Entry)
    OBVIOUS
  <1>2. LTypeOK
    BY <1>1 DEF Init, LInit, LTypeOK, Threads
  <1>3. Len(script) \in Nat
    BY ScriptLength DEF Init
  <1>4. ip \in 1..(Len(script) + 1)
    BY <1>3 DEF Init
  <1>5. mQuery \in [Proc -> Seq(Command)] /\ mReData \in [Proc -> Seq(Entry)]
    BY <1>1 DEF Init
  <1>6. QED
    BY <1>2, <1>4, <1>5 DEF Init, TypeOK, Places, Verdicts

(* Every variable keeps its type in every run: the Servicer's place stays  *)
(* within the script and what it hands over, buffers and collects is made  *)
(* of the script's commands (runParseTable, push_back, saveRESULT).        *)
THEOREM TypeCorrect == Spec => []TypeOK
  <1>1. Init => TypeOK
    BY InitTyped
  <1>2. TypeOK /\ [Next]_vars => TypeOK'
    <2>1. SUFFICES ASSUME TypeOK, [Next]_vars PROVE TypeOK'
      OBVIOUS
    <2>2. CASE ServicerStep
      BY <2>1, <2>2, ServicerTyped
    <2>3. ASSUME NEW p \in Proc, LaborerStep(p), UNCHANGED svars
          PROVE  TypeOK'
      <3>1. LTypeOK'
        BY <2>1, <2>3, LaborerTyped DEF TypeOK
      <3>2. QED
        BY <2>1, <2>3, <3>1 DEF TypeOK, svars
    <2>4. CASE UNCHANGED vars
      BY <2>1, <2>4 DEF TypeOK, LTypeOK, vars, lvars, svars
    <2>5. QED
      BY <2>1, <2>2, <2>3, <2>4 DEF Next
  <1>3. QED
    BY <1>1, <1>2, PTL DEF Spec

-----------------------------------------------------------------------------
(* Where commands can be: the bookkeeping behind CommandsInOrder. *)
LEMMA LaborerPlaced ==
    ASSUME TypeOK, Placed, NEW p \in Proc, LaborerStep(p), UNCHANGED svars
    PROVE  Placed'
  <1> USE DEF Placed, TypeOK, LTypeOK, Threads, svars, Final
  <1>1. CASE Work(p)
    BY <1>1 DEF Work
  <1>2. CASE Exit(p)
    BY <1>2 DEF Exit
  <1>3. CASE Pop(p)
    BY <1>3 DEF Pop
  <1>4. CASE Drained(p)
    BY <1>4 DEF Drained
  <1>5. ASSUME lpc[p] = "exec", NEW out, Finish(p, out)
        PROVE  Placed'
    BY <1>5 DEF Finish
  <1>6. CASE ExecText(p)
    BY <1>6, <1>5 DEF ExecText, Executing
  <1>7. CASE ExecSkip(p)
    BY <1>7, <1>5 DEF ExecSkip, Executing
  <1>8. CASE ExecRestart(p)
    BY <1>8, <1>5 DEF ExecRestart, Executing
  <1>9. ASSUME lpc[p] = "exec", NEW how \in Logons, Die(p, how)
        PROVE  Placed'
    BY <1>9 DEF Die
  <1>10. CASE LogonFails(p)
    BY <1>10, <1>9 DEF LogonFails, Executing
  <1>11. CASE ExecSql(p)
    BY <1>11, <1>5 DEF ExecSql, Executing
  <1>12. CASE ExecSqlAgain(p)
    BY <1>12, <1>5 DEF ExecSqlAgain, Executing
  <1>13. CASE RelogonFails(p)
    BY <1>13, <1>9 DEF RelogonFails, Executing
  <1>14. QED
    BY <1>1, <1>2, <1>3, <1>4, <1>6, <1>7, <1>8, <1>10, <1>11, <1>12, <1>13 DEF LaborerStep

LEMMA ServicerPlaced ==
    ASSUME TypeOK, Placed, ServicerStep
    PROVE  Placed'
  <1> USE DEF Placed, TypeOK, LTypeOK, lvars, Final
  <1>a. script \in Seq(Item) /\ Len(script) \in Nat /\ ip \in Nat
    <2>1. script \in Seq(Item) /\ Len(script) \in Nat
      BY ScriptLength
    <2>2. ip \in 1..(Len(script) + 1)
      OBVIOUS
    <2>3. QED
      BY <2>1, <2>2
  <1>b. ASSUME ~Final
        PROVE  ip \in 1..Len(script) /\ 1..(ip + 1 - 1) = 1..(ip - 1) \cup {ip}
    <2>1. ip # Len(script) + 1 /\ ip \in 1..(Len(script) + 1)
      BY <1>b DEF Final
    <2>2. QED
      BY <1>a, <2>1, NextPlace
  <1>1. CASE Load
    BY <1>1 DEF Load
  <1>2. CASE LoadFails
    BY <1>2 DEF LoadFails, Error
  <1>3. CASE RunLaborer
    <2> DEFINE q == script[ip].proc
    <2>1. q \in Proc /\ q \notin mLaborer /\ lpc[q] = "none" /\ cur[q] = <<>>
      BY <1>3, <1>b, ItemType DEF RunLaborer, At
    <2>2. /\ lpc' = [lpc EXCEPT ![q] = "run"]
          /\ mLaborer' = mLaborer \cup {q}
          /\ mQuery' = [mQuery EXCEPT ![q] = <<>>]
          /\ ip' = ip + 1 /\ script' = script /\ pc' = pc /\ visited' = visited
          /\ mReData' = mReData /\ cur' = cur
      BY <1>3 DEF RunLaborer, Start
    <2>3. \A j \in 1..(ip' - 1) : script[j].op = "node" => script[j].proc \in mLaborer'
      BY <1>3, <2>2, <1>b DEF RunLaborer, At
    <2>4. mQuery'[P0] = <<>>
      BY <2>1, <2>2, P0Assumption
    <2>5. ASSUME NEW p \in Proc
          PROVE  /\ cur'[p] = <<>> \/ Len(cur'[p]) = 1
                 /\ lpc'[p] \notin {"exec", "destroyed"} => cur'[p] = <<>>
                 /\ pc' # "done" /\ p \notin mLaborer' => lpc'[p] = "none" /\ mQuery'[p] = <<>>
                 /\ \/ mReData'[p] = <<>>
                    \/ pc' = "collect" /\ p \in visited'
                    \/ pc' \in {"judge", "destroy", "done"}
      <3>1. CASE p = q
        BY <3>1, <2>1, <2>2
      <3>2. CASE p # q
        BY <3>2, <2>1, <2>2
      <3>3. QED
        BY <3>1, <3>2
    <2>6. QED
      BY <2>2, <2>3, <2>4, <2>5, <1>3 DEF RunLaborer, At
  <1>4. CASE RunLaborerFails
    BY <1>4 DEF RunLaborerFails, Error, At
  <1>5. CASE SameLaborer
    <2>1. \A j \in 1..(ip' - 1) : script[j].op = "node" => script[j].proc \in mLaborer'
      BY <1>5, <1>b DEF SameLaborer, At
    <2>2. QED
      BY <1>5, <2>1 DEF SameLaborer, At
  <1>6. CASE PushP0
    <2>1. \A j \in 1..(ip' - 1) : script[j].op = "node" => script[j].proc \in mLaborer'
      BY <1>6, <1>b DEF PushP0, At
    <2>2. QED
      BY <1>6, <2>1 DEF PushP0, PushBack, At
  <1>7. CASE PushBuffer
    <2>1. \A j \in 1..(ip' - 1) : script[j].op = "node" => script[j].proc \in mLaborer'
      BY <1>7, <1>b DEF PushBuffer, At
    <2>2. script[ip].proc \in mLaborer
      BY <1>7, <1>a, <1>b, ElementHasNode DEF PushBuffer, At
    <2>3. QED
      BY <1>7, <2>1, <2>2, P0Assumption DEF PushBuffer, At
  <1>8. CASE Ignore
    <2>1. \A j \in 1..(ip' - 1) : script[j].op = "node" => script[j].proc \in mLaborer'
      BY <1>8, <1>b DEF Ignore, At
    <2>2. QED
      BY <1>8, <2>1 DEF Ignore, At
  <1>9. CASE Pwait
    BY <1>9 DEF Pwait, At, IsPwait, Final
  <1>10. CASE EndOfScript
    BY <1>10 DEF EndOfScript
  <1>11. CASE Flushed
    BY <1>11 DEF Flushed
  <1>12. CASE Waited
    <2>1. \A j \in 1..(ip' - 1) : script[j].op = "node" => script[j].proc \in mLaborer'
      BY <1>12, <1>b DEF Waited, IsPwait
    <2>2. QED
      BY <1>12, <2>1 DEF Waited, PushBack
  <1>13. CASE LastWaited
    BY <1>13 DEF LastWaited
  <1>14. CASE Joined
    BY <1>14 DEF Joined
  <1>15. CASE Ignored
    BY <1>15 DEF Ignored
  <1>16. CASE Collected
    BY <1>16 DEF Collected
  <1>17. CASE Judge
    BY <1>17 DEF Judge
  <1>18. CASE Destroyed
    BY <1>18 DEF Destroyed
  <1>19. ASSUME NEW p \in Proc, Flush(p)
         PROVE  Placed'
    BY <1>19 DEF Flush, PushBack
  <1>20. ASSUME NEW p \in Proc, Wait(p)
         PROVE  Placed'
    BY <1>20 DEF Wait
  <1>21. ASSUME NEW p \in Proc, EndLaborer(p)
         PROVE  Placed'
    BY <1>21 DEF EndLaborer, End
  <1>22. ASSUME NEW p \in Proc, Join(p)
         PROVE  Placed'
    BY <1>22 DEF Join
  <1>23. ASSUME NEW p \in Proc, Collect(p)
         PROVE  Placed'
    BY <1>23 DEF Collect, TakeResult
  <1>24. ASSUME NEW p \in Proc, DestroyLaborer(p) \/ DestroyFails(p)
         PROVE  Placed'
    BY <1>24 DEF DestroyLaborer, DestroyFails, Destroy, Next1
  <1>25. QED
    BY <1>1, <1>2, <1>3, <1>4, <1>5, <1>6, <1>7, <1>8, <1>9, <1>10, <1>11, <1>12,
       <1>13, <1>14, <1>15, <1>16, <1>17, <1>18, <1>19, <1>20, <1>21, <1>22, <1>23,
       <1>24 DEF ServicerStep

-----------------------------------------------------------------------------
(* Sequences of commands. *)
LEMMA CommandsType ==
    ASSUME NEW r \in Seq(Entry)
    PROVE  /\ Commands(r) \in Seq(Command)
           /\ Len(Commands(r)) = Len(r)
           /\ \A k \in 1..Len(r) : Commands(r)[k] = r[k].cmd
  <1>1. DOMAIN r = 1..Len(r) /\ Len(r) \in Nat /\ \A k \in 1..Len(r) : r[k] \in Entry
    OBVIOUS
  <1>2. Commands(r) = [k \in 1..Len(r) |-> r[k].cmd]
    BY <1>1 DEF Commands
  <1>3. \A k \in 1..Len(r) : r[k].cmd \in Command
    BY <1>1 DEF Entry
  <1>4. QED
    BY <1>1, <1>2, <1>3

LEMMA CommandsAppend ==
    ASSUME NEW r \in Seq(Entry), NEW e \in Entry
    PROVE  Commands(Append(r, e)) = Commands(r) \o <<e.cmd>>
  <1>1. e.cmd \in Command
    BY DEF Entry
  <1>2. Append(r, e) \in Seq(Entry) /\ Len(Append(r, e)) = Len(r) + 1
    OBVIOUS
  <1>3. Commands(Append(r, e)) \in Seq(Command) /\ Len(Commands(Append(r, e))) = Len(r) + 1
    BY <1>2, CommandsType
  <1>4. Commands(r) \in Seq(Command) /\ Len(Commands(r)) = Len(r) /\ Len(r) \in Nat
    BY CommandsType
  <1>5. /\ Commands(r) \o <<e.cmd>> \in Seq(Command)
        /\ Len(Commands(r) \o <<e.cmd>>) = Len(r) + 1
    BY <1>1, <1>4
  <1>6. ASSUME NEW k \in 1..(Len(r) + 1)
        PROVE  Commands(Append(r, e))[k] = (Commands(r) \o <<e.cmd>>)[k]
    <2>1. Commands(Append(r, e))[k] = Append(r, e)[k].cmd
      BY <1>2, CommandsType
    <2>2. CASE k \in 1..Len(r)
      BY <2>1, <2>2, <1>1, <1>4, CommandsType
    <2>3. CASE k = Len(r) + 1
      BY <2>1, <2>3, <1>1, <1>4
    <2>4. QED
      BY <2>2, <2>3, <1>4
  <1>7. QED
    BY <1>3, <1>5, <1>6, SeqEqual

LEMMA ConcatAppend ==
    ASSUME NEW a \in Seq(Entry), NEW b \in Seq(Entry), NEW e \in Entry
    PROVE  a \o Append(b, e) = Append(a \o b, e)
  <1>1. a \o b \in Seq(Entry) /\ <<e>> \in Seq(Entry)
    OBVIOUS
  <1>2. Append(b, e) = b \o <<e>> /\ Append(a \o b, e) = (a \o b) \o <<e>>
    BY <1>1, AppendIsConcat
  <1>3. QED
    BY <1>1, <1>2, ConcatAssociative

(* A pop moves the head of the queue into the empty place of execution. *)
LEMMA PopKeeps ==
    ASSUME NEW a \in Seq(Command), NEW q \in Seq(Command), q # <<>>
    PROVE  (a \o <<>>) \o q = (a \o <<Head(q)>>) \o Tail(q)
  <1>1. q = <<Head(q)>> \o Tail(q)
    OBVIOUS
  <1>2. a \o <<>> = a
    OBVIOUS
  <1>3. <<Head(q)>> \in Seq(Command) /\ Tail(q) \in Seq(Command)
    OBVIOUS
  <1>4. QED
    BY <1>1, <1>2, <1>3, ConcatAssociative

(* Handing over a list moves it from behind the queue to its end. *)
LEMMA FlushKeeps ==
    ASSUME NEW a \in Seq(Command), NEW q \in Seq(Command), NEW m \in Seq(Command)
    PROVE  (a \o q) \o m = (a \o (q \o m)) \o <<>>
  <1>1. a \o (q \o m) \in Seq(Command)
    OBVIOUS
  <1>2. QED
    BY <1>1, ConcatAssociative, ConcatEmptySeq

LEMMA PushAppends ==
    ASSUME NEW a \in Seq(Command), NEW q \in Seq(Command), NEW c \in Command
    PROVE  (a \o (q \o <<c>>)) \o <<>> = ((a \o q) \o <<>>) \o <<c>>
  <1>1. a \o q \in Seq(Command) /\ <<c>> \in Seq(Command) /\ a \o (q \o <<c>>) \in Seq(Command)
    OBVIOUS
  <1>2. QED
    BY <1>1, ConcatAssociative, ConcatEmptySeq

LEMMA BufferAppends ==
    ASSUME NEW a \in Seq(Command), NEW m \in Seq(Command), NEW c \in Command
    PROVE  a \o Append(m, c) = (a \o m) \o <<c>>
  <1>1. Append(m, c) = m \o <<c>> /\ <<c>> \in Seq(Command)
    OBVIOUS
  <1>2. QED
    BY <1>1, ConcatAssociative

(* The sequence of the commands of p grows at its end with the next item,  *)
(* when that is a command of p, and otherwise stays.                       *)
LEMMA InOrderGrows ==
    ASSUME NEW s \in Scripts, NEW i \in 1..Len(s), NEW p \in Proc,
           NEW cs \in Seq(Command), InOrder(cs, s, p, i - 1),
           IsCommand(s, i), Owner(s, i) = p
    PROVE  InOrder(cs \o <<CommandAt(s, i)>>, s, p, i)
  <1> DEFINE c == CommandAt(s, i)
             t == cs \o <<c>>
  <1>1. i \in Nat /\ c \in Command /\ c.id = i
    BY ItemType, ScriptLength
  <1>2. /\ t \in Seq(Command) /\ Len(t) = Len(cs) + 1 /\ Len(cs) \in Nat
        /\ DOMAIN t = 1..(Len(cs) + 1) /\ DOMAIN cs = 1..Len(cs)
        /\ \A k \in 1..Len(cs) : t[k] = cs[k]
        /\ t[Len(cs) + 1] = c
    BY <1>1
  <1>3. \A k \in DOMAIN cs : cs[k].id \in Nat /\ cs[k].id < i
    <2>1. \A d \in CommandsOf(s, p, i - 1) : d.id \in 1..(i - 1)
      BY DEF CommandsOf, CommandAt
    <2>2. \A k \in DOMAIN cs : cs[k] \in CommandsOf(s, p, i - 1)
      BY DEF InOrder
    <2>3. QED
      BY <2>1, <2>2, <1>1
  <1>4. \A j, k \in DOMAIN t : j < k => t[j].id < t[k].id
    <2> SUFFICES ASSUME NEW j \in DOMAIN t, NEW k \in DOMAIN t, j < k
                 PROVE  t[j].id < t[k].id
      OBVIOUS
    <2>1. j \in DOMAIN cs /\ t[j] = cs[j]
      BY <1>2
    <2>2. CASE k \in DOMAIN cs
      BY <2>1, <2>2, <1>2 DEF InOrder
    <2>3. CASE k = Len(cs) + 1
      BY <2>1, <2>3, <1>1, <1>2, <1>3
    <2>4. QED
      BY <2>2, <2>3, <1>2
  <1>5. {t[k] : k \in DOMAIN t} = {cs[k] : k \in DOMAIN cs} \cup {c}
    BY <1>2
  <1>6. CommandsOf(s, p, i) = CommandsOf(s, p, i - 1) \cup {c}
    <2>1. 1..i = 1..(i - 1) \cup {i}
      BY <1>1
    <2>2. QED
      BY <2>1 DEF CommandsOf
  <1>7. QED
    BY <1>4, <1>5, <1>6 DEF InOrder

LEMMA InOrderStays ==
    ASSUME NEW s \in Scripts, NEW i \in 1..Len(s), NEW p \in Proc,
           NEW cs, InOrder(cs, s, p, i - 1),
           ~(IsCommand(s, i) /\ Owner(s, i) = p)
    PROVE  InOrder(cs, s, p, i)
  <1>1. i \in Nat
    BY ScriptLength
  <1>2. 1..i = 1..(i - 1) \cup {i}
    BY <1>1
  <1>3. CommandsOf(s, p, i) = CommandsOf(s, p, i - 1)
    BY <1>2 DEF CommandsOf
  <1>4. QED
    BY <1>3 DEF InOrder

-----------------------------------------------------------------------------
(* The parts of a stream are sequences of commands. *)
LEMMA StreamParts ==
    ASSUME TypeOK, NEW p \in Proc
    PROVE  /\ mReData[p] \in Seq(Entry) /\ mResult[p] \in Seq(Entry)
           /\ Output(p) \in Seq(Entry)
           /\ Commands(Output(p)) \in Seq(Command)
           /\ cur[p] \in Seq(Command)
           /\ queue[p] \in Seq(Command)
           /\ mQuery[p] \in Seq(Command)
           /\ Commands(Output(p)) \o cur[p] \in Seq(Command)
           /\ Stream(p) \in Seq(Command)
  <1>1. /\ mReData[p] \in Seq(Entry) /\ mResult[p] \in Seq(Entry)
        /\ cur[p] \in Seq(Command) /\ queue[p] \in Seq(Command) /\ mQuery[p] \in Seq(Command)
    BY DEF TypeOK, LTypeOK
  <1>2. Output(p) \in Seq(Entry)
    BY <1>1 DEF Output
  <1>3. Commands(Output(p)) \in Seq(Command)
    BY <1>2, CommandsType
  <1>4. Commands(Output(p)) \o cur[p] \in Seq(Command)
    BY <1>1, <1>3
  <1>5. (Commands(Output(p)) \o cur[p]) \o queue[p] \in Seq(Command)
    BY <1>1, <1>4
  <1>6. Stream(p) \in Seq(Command)
    BY <1>1, <1>5 DEF Stream
  <1>7. QED
    BY <1>1, <1>2, <1>3, <1>4, <1>6

(* Finishing a command, well or by the death of its session, turns it from *)
(* the one executing into the last of the output.                          *)
LEMMA FinishKeeps ==
    ASSUME TypeOK, NEW p \in Proc, NEW out \in Outputs,
           Len(cur[p]) = 1,
           mResult' = [mResult EXCEPT ![p] = Append(@, [cmd |-> Head(cur[p]), out |-> out])],
           cur' = [cur EXCEPT ![p] = <<>>],
           UNCHANGED <<queue, svars>>
    PROVE  Stream(p)' = Stream(p)
  <1> DEFINE e == [cmd |-> Head(cur[p]), out |-> out]
  <1>1. cur[p] \in Seq(Command) /\ Head(cur[p]) \in Command /\ cur[p] = <<Head(cur[p])>>
    BY StreamParts
  <1>2. e \in Entry /\ e.cmd = Head(cur[p])
    BY <1>1 DEF Entry
  <1>3. mResult'[p] = Append(mResult[p], e) /\ cur'[p] = <<>>
    BY DEF TypeOK, LTypeOK
  <1>4. queue'[p] = queue[p] /\ mQuery'[p] = mQuery[p] /\ mReData'[p] = mReData[p]
    BY DEF svars
  <1>5. Output(p)' = Append(Output(p), e)
    <2>1. mReData[p] \o Append(mResult[p], e) = Append(mReData[p] \o mResult[p], e)
      <3>1. mReData[p] \in Seq(Entry) /\ mResult[p] \in Seq(Entry)
        BY StreamParts
      <3>2. \A x \in Entry : mReData[p] \o Append(mResult[p], x)
                              = Append(mReData[p] \o mResult[p], x)
        BY <3>1, ConcatAppend
      <3>3. QED
        BY <1>2, <3>2
    <2>2. QED
      BY <2>1, <1>3, <1>4 DEF Output
  <1>6. Commands(Output(p))' = Commands(Output(p)) \o <<Head(cur[p])>>
    <2>1. Commands(Output(p))' = Commands(Append(Output(p), e))
      BY <1>5 DEF Commands
    <2>2. QED
      BY <2>1, <1>2, StreamParts, CommandsAppend
  <1>7. Commands(Output(p))' \o cur'[p] = Commands(Output(p)) \o cur[p]
    <2>1. Commands(Output(p)) \o <<Head(cur[p])>> \in Seq(Command)
      BY <1>1, StreamParts
    <2>2. QED
      BY <2>1, <1>1, <1>3, <1>6, ConcatEmptySeq
  <1>8. QED
    BY <1>4, <1>7 DEF Stream

(* A step of a laborer moves commands along its stream; none is lost and   *)
(* none changes its place.                                                 *)
LEMMA LaborerKeepsStreams ==
    ASSUME TypeOK, Placed, NEW p \in Proc, LaborerStep(p), UNCHANGED svars, NEW q \in Proc
    PROVE  Stream(q)' = Stream(q)
  <1>1. CASE q # p
    <2>1. UNCHANGED <<mResult[q], cur[q], queue[q], mReData[q], mQuery[q]>>
      <3>1. UNCHANGED <<mReData[q], mQuery[q]>>
        BY DEF svars
      <3>2. UNCHANGED <<mResult[q], cur[q], queue[q]>>
        BY <1>1 DEF TypeOK, LTypeOK, LaborerStep, Work, Exit, Pop, Drained, ExecText, ExecSkip,
           ExecRestart, LogonFails, ExecSql, ExecSqlAgain, RelogonFails, Finish, Die
      <3>3. QED
        BY <3>1, <3>2
    <2>2. QED
      BY <2>1 DEF Stream, Output, Commands
  <1>2. CASE q = p
    <2>1. CASE Work(p) \/ Exit(p) \/ Drained(p)
      BY <1>2, <2>1 DEF Work, Exit, Drained, svars, Stream, Output, Commands
    <2>2. CASE Pop(p)
      <3>1. /\ queue[p] # <<>> /\ cur[p] = <<>>
            /\ cur'[p] = <<Head(queue[p])>> /\ queue'[p] = Tail(queue[p])
            /\ Commands(Output(p))' = Commands(Output(p)) /\ mQuery'[p] = mQuery[p]
        BY <2>2 DEF Pop, Placed, TypeOK, LTypeOK, svars, Output, Commands
      <3>2. (Commands(Output(p)) \o <<>>) \o queue[p]
              = (Commands(Output(p)) \o <<Head(queue[p])>>) \o Tail(queue[p])
        <4>1. Commands(Output(p)) \in Seq(Command) /\ queue[p] \in Seq(Command)
          BY StreamParts
        <4>2. QED
          BY <3>1, <4>1, PopKeeps
      <3>3. Stream(p)' = Stream(p)
        BY <3>1, <3>2 DEF Stream
      <3>4. QED
        BY <1>2, <3>3
    <2>3. ASSUME cur[p] # <<>>, NEW out \in Outputs, Finish(p, out), UNCHANGED queue
          PROVE  Stream(p)' = Stream(p)
      <3>1. Len(cur[p]) = 1
        BY <2>3 DEF Placed
      <3>2. QED
        BY <2>3, <3>1, FinishKeeps DEF Finish
    <2>4. ASSUME cur[p] # <<>>, NEW how \in Logons, Die(p, how)
          PROVE  Stream(p)' = Stream(p)
      <3>1. Len(cur[p]) = 1
        BY <2>4 DEF Placed
      <3>2. "dead" \in Outputs
        BY DEF Outputs
      <3>3. QED
        BY <2>4, <3>1, <3>2, FinishKeeps DEF Die
    <2>5. CASE ExecText(p) \/ ExecSkip(p) \/ ExecRestart(p)
      <3>1. "ok" \in Outputs
        BY DEF Outputs
      <3>2. QED
        BY <1>2, <2>3, <2>5, <3>1 DEF ExecText, ExecSkip, ExecRestart, Executing
    <2>6. CASE LogonFails(p) \/ RelogonFails(p)
      BY <1>2, <2>4, <2>6 DEF LogonFails, RelogonFails, Executing
    <2>7. CASE ExecSql(p) \/ ExecSqlAgain(p)
      <3>1. \A answer \in Answers \cup {"ok"} : Shown(p, answer) \in Outputs
        BY AnswersAssumption DEF Shown, Outputs
      <3>2. QED
        BY <1>2, <2>3, <2>7, <3>1 DEF ExecSql, ExecSqlAgain, Executing
    <2>8. QED
      BY <2>1, <2>2, <2>5, <2>6, <2>7 DEF LaborerStep
  <1>3. QED
    BY <1>1, <1>2

-----------------------------------------------------------------------------
(* The Servicer stays at its item: every stream stays. *)
LEMMA StreamsStay ==
    ASSUME CommandsInOrder, UNCHANGED <<script, ip>>,
           \A q \in Proc : Stream(q)' = Stream(q)
    PROVE  CommandsInOrder'
  BY DEF CommandsInOrder, InOrder, CommandsOf, IsCommand, IsPwait, Owner, CommandAt

LEMMA SameParts ==
    ASSUME UNCHANGED <<mReData, mResult, cur, queue, mQuery>>, NEW q \in Proc
    PROVE  Stream(q)' = Stream(q)
  BY DEF Stream, Output, Commands

(* The Servicer passes an item that is no command. *)
LEMMA ItemPassed ==
    ASSUME TypeOK, CommandsInOrder, ~Final, ~IsCommand(script, ip),
           script' = script, ip' = ip + 1,
           \A q \in Proc : Stream(q)' = Stream(q)
    PROVE  CommandsInOrder'
  <1>1. script \in Scripts /\ ip \in 1..Len(script) /\ ip' - 1 = ip
    <2>1. script \in Scripts /\ ip \in 1..(Len(script) + 1) /\ ip # Len(script) + 1
      BY DEF TypeOK, Final
    <2>2. Len(script) \in Nat
      BY <2>1, ScriptLength
    <2>3. QED
      BY <2>1, <2>2, NextPlace
  <1>2. ASSUME NEW q \in Proc
        PROVE  InOrder(Stream(q), script, q, ip)
    <2>1. InOrder(Stream(q), script, q, ip - 1)
      BY DEF CommandsInOrder
    <2>2. QED
      BY <1>1, <2>1, InOrderStays
  <1>3. ASSUME NEW q \in Proc
        PROVE  InOrder(Stream(q)', script', q, ip' - 1)
    BY <1>1, <1>2
  <1>4. QED
    BY <1>3 DEF CommandsInOrder, InOrder, CommandsOf, IsCommand, IsPwait, Owner, CommandAt

(* The Servicer passes a command, and the stream of its owner gets it. *)
LEMMA CommandPassed ==
    ASSUME TypeOK, CommandsInOrder, ~Final, IsCommand(script, ip),
           script' = script, ip' = ip + 1, NEW p \in Proc, p = Owner(script, ip),
           Stream(p)' = Stream(p) \o <<CommandAt(script, ip)>>,
           \A q \in Proc \ {p} : Stream(q)' = Stream(q)
    PROVE  CommandsInOrder'
  <1>1. script \in Scripts /\ ip \in 1..Len(script) /\ ip' - 1 = ip
    <2>1. script \in Scripts /\ ip \in 1..(Len(script) + 1) /\ ip # Len(script) + 1
      BY DEF TypeOK, Final
    <2>2. Len(script) \in Nat
      BY <2>1, ScriptLength
    <2>3. QED
      BY <2>1, <2>2, NextPlace
  <1>2. ASSUME NEW q \in Proc
        PROVE  InOrder(Stream(q)', script, q, ip)
    <2>1. InOrder(Stream(q), script, q, ip - 1)
      BY DEF CommandsInOrder
    <2>2. CASE q = p
      <3>1. Stream(p) \in Seq(Command)
        BY StreamParts
      <3>2. InOrder(Stream(p) \o <<CommandAt(script, ip)>>, script, p, ip)
        BY <1>1, <2>1, <2>2, <3>1, InOrderGrows
      <3>3. QED
        BY <2>2, <3>2
    <2>3. CASE q # p
      <3>1. InOrder(Stream(q), script, q, ip)
        BY <1>1, <2>1, <2>3, InOrderStays
      <3>2. QED
        BY <2>3, <3>1
    <2>4. QED
      BY <2>2, <2>3
  <1>3. ASSUME NEW q \in Proc
        PROVE  InOrder(Stream(q)', script', q, ip' - 1)
    BY <1>1, <1>2
  <1>4. QED
    BY <1>3 DEF CommandsInOrder, InOrder, CommandsOf, IsCommand, IsPwait, Owner, CommandAt

(* A step of the Servicer either leaves the streams alone, or moves a list *)
(* along its stream, or passes an item.                                    *)
LEMMA ServicerInOrder ==
    ASSUME TypeOK, Placed, CommandsInOrder, ServicerStep
    PROVE  CommandsInOrder'
  <1>a. ASSUME UNCHANGED <<script, ip, mReData, mResult, cur, queue, mQuery>>
        PROVE  CommandsInOrder'
    BY <1>a, SameParts, StreamsStay
  <1>b. ASSUME ~Final
        PROVE  script \in Scripts /\ ip \in 1..Len(script)
    <2>1. script \in Scripts /\ ip \in 1..(Len(script) + 1) /\ ip # Len(script) + 1
      BY <1>b DEF TypeOK, Final
    <2>2. Len(script) \in Nat
      BY <2>1, ScriptLength
    <2>3. QED
      BY <2>1, <2>2, NextPlace
  <1>c. ASSUME ~Final, PushBack(P0, <<CommandAt(script, ip)>>),
               UNCHANGED <<mReData, mQuery>>
        PROVE  /\ Stream(P0)' = Stream(P0) \o <<CommandAt(script, ip)>>
               /\ \A q \in Proc \ {P0} : Stream(q)' = Stream(q)
    <2>1. CommandAt(script, ip) \in Command
      BY <1>b, <1>c, ItemType
    <2>2. queue'[P0] = queue[P0] \o <<CommandAt(script, ip)>>
      BY <1>c, P0Assumption DEF PushBack, TypeOK, LTypeOK
    <2>3. UNCHANGED <<mReData, mResult, cur, mQuery>>
      BY <1>c DEF PushBack
    <2>4. \A q \in Proc \ {P0} : queue'[q] = queue[q]
      BY <1>c DEF PushBack, TypeOK, LTypeOK
    <2>5. \A q \in Proc \ {P0} : Stream(q)' = Stream(q)
      BY <2>3, <2>4 DEF Stream, Output, Commands
    <2>6. mQuery[P0] = <<>>
      BY DEF Placed
    <2> DEFINE a == Commands(Output(P0)) \o cur[P0]
    <2>7. a \in Seq(Command) /\ queue[P0] \in Seq(Command)
      BY P0Assumption, StreamParts
    <2>8. (a \o (queue[P0] \o <<CommandAt(script, ip)>>)) \o <<>>
            = ((a \o queue[P0]) \o <<>>) \o <<CommandAt(script, ip)>>
      BY <2>1, <2>7, PushAppends
    <2>9. Stream(P0)' = (a \o (queue[P0] \o <<CommandAt(script, ip)>>)) \o <<>>
      BY <2>2, <2>3, <2>6 DEF Stream, Output, Commands
    <2>10. Stream(P0) = (a \o queue[P0]) \o <<>>
      BY <2>6 DEF Stream
    <2>11. QED
      BY <2>5, <2>8, <2>9, <2>10
  <1>1. CASE \/ Load \/ LoadFails \/ RunLaborerFails \/ Pwait \/ EndOfScript \/ Flushed
             \/ LastWaited \/ Joined \/ Ignored \/ Collected \/ Judge \/ Destroyed
    <2>1. UNCHANGED <<script, ip, mReData, mResult, cur, queue, mQuery>>
      BY <1>1 DEF Load, LoadFails, RunLaborerFails, Pwait, EndOfScript, Flushed, LastWaited,
         Joined, Ignored, Collected, Judge, Destroyed, lvars
    <2>2. QED
      BY <2>1, <1>a
  <1>2. CASE RunLaborer
    <2> DEFINE n == script[ip].proc
    <2>1. ~Final /\ ~IsCommand(script, ip) /\ n \in Proc /\ n \notin mLaborer /\ pc # "done"
      BY <1>2, <1>b, ItemType DEF RunLaborer, At, IsCommand, IsPwait
    <2>2. mQuery[n] = <<>>
      BY <2>1 DEF Placed
    <2>3. mQuery' = mQuery
      BY <1>2, <2>1, <2>2 DEF RunLaborer, TypeOK
    <2>4. UNCHANGED <<script, mReData, mResult, cur, queue>> /\ ip' = ip + 1
      BY <1>2 DEF RunLaborer, Start
    <2>5. QED
      BY <2>1, <2>3, <2>4, SameParts, ItemPassed
  <1>3. CASE SameLaborer \/ Ignore
    <2>1. ~Final /\ ~IsCommand(script, ip)
      BY <1>3 DEF SameLaborer, Ignore, At, IsCommand, IsPwait
    <2>2. UNCHANGED <<script, mReData, mResult, cur, queue, mQuery>> /\ ip' = ip + 1
      BY <1>3 DEF SameLaborer, Ignore, lvars
    <2>3. QED
      BY <2>1, <2>2, SameParts, ItemPassed
  <1>4. CASE PushP0
    <2>1. ~Final /\ IsCommand(script, ip) /\ Owner(script, ip) = P0
      BY <1>4 DEF PushP0, At, IsCommand, IsPwait, Owner
    <2>2. /\ PushBack(P0, <<CommandAt(script, ip)>>)
          /\ UNCHANGED <<script, mReData, mQuery>> /\ ip' = ip + 1
      BY <1>4 DEF PushP0
    <2>3. QED
      BY <2>1, <2>2, <1>c, P0Assumption, CommandPassed
  <1>5. CASE PushBuffer
    <2>0. ~Final /\ IsCommand(script, ip) /\ Owner(script, ip) = script[ip].proc
      BY <1>5 DEF PushBuffer, At, IsCommand, IsPwait, Owner
    <2>1. PICK p \in Proc : p = script[ip].proc
      BY <2>0, <1>b, ItemType
    <2>2. PICK c \in Command : c = CommandAt(script, ip)
      BY <2>0, <1>b, ItemType
    <2>3. /\ mQuery'[p] = Append(mQuery[p], c)
          /\ \A q \in Proc \ {p} : mQuery'[q] = mQuery[q]
          /\ UNCHANGED <<script, mReData, mResult, cur, queue>> /\ ip' = ip + 1
      BY <1>5, <2>1, <2>2 DEF PushBuffer, TypeOK, lvars
    <2>4. \A q \in Proc \ {p} : Stream(q)' = Stream(q)
      BY <2>3 DEF Stream, Output, Commands
    <2>5. Stream(p)' = Stream(p) \o <<c>>
      <3>1. Commands(Output(p)) \o cur[p] \in Seq(Command) /\ queue[p] \in Seq(Command)
            /\ mQuery[p] \in Seq(Command)
        BY StreamParts
      <3>2. (Commands(Output(p)) \o cur[p]) \o queue[p] \in Seq(Command)
        BY <3>1
      <3>3. PICK a \in Seq(Command) : a = (Commands(Output(p)) \o cur[p]) \o queue[p]
        BY <3>2
      <3>4. a \o Append(mQuery[p], c) = (a \o mQuery[p]) \o <<c>>
        BY <3>1, BufferAppends
      <3>5. Commands(Output(p))' = Commands(Output(p))
        BY <2>3 DEF Output, Commands
      <3>6. Stream(p)' = a \o Append(mQuery[p], c)
        BY <2>3, <3>3, <3>5 DEF Stream
      <3>7. Stream(p) = a \o mQuery[p]
        BY <3>3 DEF Stream
      <3>8. QED
        BY <3>4, <3>6, <3>7
    <2>6. QED
      BY <2>0, <2>1, <2>2, <2>3, <2>4, <2>5, CommandPassed
  <1>6. CASE Waited
    <2>1. ~Final /\ IsCommand(script, ip) /\ Owner(script, ip) = P0
      BY <1>6 DEF Waited, Placed, IsCommand, Owner
    <2>2. /\ PushBack(P0, <<CommandAt(script, ip)>>)
          /\ UNCHANGED <<script, mReData, mQuery>> /\ ip' = ip + 1
      BY <1>6 DEF Waited
    <2>3. QED
      BY <2>1, <2>2, <1>c, P0Assumption, CommandPassed
  <1>7. ASSUME NEW p \in Proc, Flush(p)
        PROVE  CommandsInOrder'
    <2>1. /\ queue'[p] = queue[p] \o mQuery[p] /\ mQuery'[p] = <<>>
          /\ \A q \in Proc \ {p} : queue'[q] = queue[q] /\ mQuery'[q] = mQuery[q]
          /\ UNCHANGED <<script, ip, mReData, mResult, cur>>
      BY <1>7 DEF Flush, PushBack, TypeOK, LTypeOK
    <2>2. \A q \in Proc \ {p} : Stream(q)' = Stream(q)
      BY <2>1 DEF Stream, Output, Commands
    <2>3. Stream(p)' = Stream(p)
      <3> DEFINE a == Commands(Output(p)) \o cur[p]
      <3>1. a \in Seq(Command) /\ queue[p] \in Seq(Command) /\ mQuery[p] \in Seq(Command)
        BY StreamParts
      <3>2. (a \o queue[p]) \o mQuery[p] = (a \o (queue[p] \o mQuery[p])) \o <<>>
        BY <3>1, FlushKeeps
      <3>3. Stream(p)' = (a \o (queue[p] \o mQuery[p])) \o <<>>
        BY <2>1 DEF Stream, Output, Commands
      <3>4. QED
        BY <3>2, <3>3 DEF Stream
    <2>4. QED
      BY <2>1, <2>2, <2>3, StreamsStay
  <1>8. ASSUME NEW p \in Proc, Wait(p) \/ EndLaborer(p) \/ Join(p)
                               \/ DestroyLaborer(p) \/ DestroyFails(p)
        PROVE  CommandsInOrder'
    BY <1>8, <1>a DEF Wait, EndLaborer, Join, DestroyLaborer, DestroyFails, End, Destroy,
       lvars
  <1>9. ASSUME NEW p \in Proc, Collect(p)
        PROVE  CommandsInOrder'
    <2>1. /\ mReData[p] = <<>>
          /\ mReData'[p] = mResult[p] /\ mResult'[p] = <<>>
          /\ \A q \in Proc \ {p} : mReData'[q] = mReData[q] /\ mResult'[q] = mResult[q]
          /\ UNCHANGED <<script, ip, cur, queue, mQuery>>
      BY <1>9 DEF Collect, TakeResult, Next1, Placed, TypeOK, LTypeOK
    <2>2. mResult[p] \in Seq(Entry)
      BY StreamParts
    <2>3. \A q \in Proc \ {p} : Stream(q)' = Stream(q)
      BY <2>1 DEF Stream, Output, Commands
    <2>4. Output(p)' = Output(p)
      BY <2>1, <2>2, ConcatEmptySeq DEF Output
    <2>5. Stream(p)' = Stream(p)
      BY <2>1, <2>4 DEF Stream, Commands
    <2>6. QED
      BY <2>1, <2>3, <2>5, StreamsStay
  <1>10. QED
    BY <1>1, <1>2, <1>3, <1>4, <1>5, <1>6, <1>7, <1>8, <1>9 DEF ServicerStep

(* The inductive invariant behind CommandsInOrder. *)
OrderInv == TypeOK /\ Placed /\ CommandsInOrder

LEMMA OrderInvariant == Spec => []OrderInv
  <1>1. Init => OrderInv
    <2> SUFFICES ASSUME Init PROVE OrderInv
      OBVIOUS
    <2>1. TypeOK
      BY InitTyped
    <2>2. Placed
      BY P0Assumption DEF Init, LInit, Placed
    <2>3. ASSUME NEW p \in Proc
          PROVE  InOrder(Stream(p), script, p, ip - 1)
      <3>1. /\ mReData[p] = <<>> /\ mResult[p] = <<>> /\ cur[p] = <<>>
            /\ queue[p] = <<>> /\ mQuery[p] = <<>> /\ ip - 1 = 0
        BY DEF Init, LInit
      <3>2. Commands(<<>>) = <<>>
        BY DEF Commands
      <3>3. Stream(p) = <<>>
        BY <3>1, <3>2 DEF Stream, Output
      <3>4. CommandsOf(script, p, 0) = {}
        BY DEF CommandsOf
      <3>5. QED
        BY <3>1, <3>3, <3>4 DEF InOrder
    <2>4. QED
      BY <2>1, <2>2, <2>3 DEF OrderInv, CommandsInOrder
  <1>2. OrderInv /\ [Next]_vars => OrderInv'
    <2> SUFFICES ASSUME OrderInv, [Next]_vars PROVE OrderInv'
      OBVIOUS
    <2>1. CASE ServicerStep
      BY <2>1, ServicerTyped, ServicerPlaced, ServicerInOrder DEF OrderInv
    <2>2. ASSUME NEW p \in Proc, LaborerStep(p), UNCHANGED svars
          PROVE  OrderInv'
      <3>1. TypeOK'
        BY <2>2, LaborerTyped DEF OrderInv, TypeOK, svars
      <3>2. Placed'
        BY <2>2, LaborerPlaced DEF OrderInv
      <3>3. \A q \in Proc : Stream(q)' = Stream(q)
        BY <2>2, LaborerKeepsStreams DEF OrderInv
      <3>4. CommandsInOrder'
        BY <2>2, <3>3, StreamsStay DEF OrderInv, svars
      <3>5. QED
        BY <3>1, <3>2, <3>4 DEF OrderInv
    <2>3. CASE UNCHANGED vars
      <3>1. TypeOK'
        BY <2>3 DEF OrderInv, TypeOK, LTypeOK, vars, lvars, svars
      <3>2. Placed'
        BY <2>3 DEF OrderInv, Placed, vars, lvars, svars, Final, IsPwait
      <3>3. CommandsInOrder'
        BY <2>3, SameParts, StreamsStay DEF OrderInv, vars, lvars, svars
      <3>4. QED
        BY <3>1, <3>2, <3>3 DEF OrderInv
    <2>4. QED
      BY <2>1, <2>2, <2>3 DEF Next
  <1>3. QED
    BY <1>1, <1>2, PTL DEF Spec

(* Commands are neither lost, repeated nor reordered between the Servicer's *)
(* push_back and the output of the laborer, for every script, every number *)
(* of processes and every fault of sessions and thread starts: the two      *)
(* queues of a process, the command it executes and its output always hold *)
(* its commands up to the Servicer's place in the order of the script       *)
(* (push_back, sync, async, runReal, getResult).                            *)
THEOREM CommandsAlwaysInOrder == Spec => []CommandsInOrder
  <1>1. OrderInv => CommandsInOrder
    BY DEF OrderInv
  <1>2. QED
    BY <1>1, OrderInvariant, PTL

-----------------------------------------------------------------------------
(* The three things a step of a laborer can be to the rest of the system.  *)

(* Work, Drained and Exit only move the thread. *)
Moves(p) ==
    /\ lpc[p] \in {"run", "real"}
    /\ UNCHANGED <<queue, cur, mEnd, mSbegin, mResult>>
    /\ \/ \E place \in {"run", "real"} : lpc' = [lpc EXCEPT ![p] = place]
       \/ lpc' = [lpc EXCEPT ![p] = "exited"] /\ mEnd[p] /\ queue[p] = <<>>

(* The command in execution ends with output out. *)
Ends(p, out) ==
    /\ lpc[p] = "exec" /\ cur[p] # <<>>
    /\ mResult' = [mResult EXCEPT ![p] = Append(@, [cmd |-> Head(cur[p]), out |-> out])]
    /\ cur' = [cur EXCEPT ![p] = <<>>]
    /\ UNCHANGED queue
    /\ IF out = "dead"
       THEN /\ lpc'  = [lpc EXCEPT ![p] = "exited"]
            /\ mEnd' = [mEnd EXCEPT ![p] = TRUE]
            /\ Head(cur[p]).kind = "sql"
       ELSE lpc' = [lpc EXCEPT ![p] = "real"] /\ UNCHANGED mEnd
    /\ out \in {"ok", "echo"} =>
          out = IF Head(cur[p]).kind = "sql" /\ mSbegin[p] THEN "echo" ELSE "ok"
    /\ mSbegin' = IF Head(cur[p]).kind \in {"skip_begin", "skip_end"}
                  THEN [mSbegin EXCEPT ![p] = Head(cur[p]).kind = "skip_begin"]
                  ELSE mSbegin

LEMMA LaborerSteps ==
    ASSUME TypeOK, Placed, NEW p \in Proc, LaborerStep(p)
    PROVE  Moves(p) \/ Pop(p) \/ \E out \in Outputs : Ends(p, out)
  <1>1. CASE Work(p) \/ Exit(p) \/ Drained(p)
    BY <1>1 DEF Work, Exit, Drained, Moves
  <1>2. CASE ExecText(p) \/ ExecSkip(p) \/ ExecRestart(p)
    <2>1. "ok" \in Outputs
      BY DEF Outputs
    <2>2. Ends(p, "ok")
      BY <1>2 DEF ExecText, ExecSkip, ExecRestart, Executing, Finish, Ends
    <2>3. QED
      BY <2>1, <2>2
  <1>3. CASE LogonFails(p) \/ RelogonFails(p)
    <2>1. "dead" \in Outputs
      BY DEF Outputs
    <2>2. Ends(p, "dead")
      BY <1>3 DEF LogonFails, RelogonFails, Executing, Die, Ends
    <2>3. QED
      BY <2>1, <2>2
  <1>4. CASE ExecSql(p) \/ ExecSqlAgain(p)
    <2>1. PICK answer \in Answers \cup {"ok"} : Finish(p, Shown(p, answer))
      BY <1>4 DEF ExecSql, ExecSqlAgain
    <2>2. Shown(p, answer) \in Outputs /\ Shown(p, answer) # "dead"
      BY AnswersAssumption DEF Shown, Outputs
    <2>3. Shown(p, answer) \in {"ok", "echo"} =>
             Shown(p, answer) = IF mSbegin[p] THEN "echo" ELSE "ok"
      BY AnswersAssumption DEF Shown
    <2>4. /\ lpc[p] = "exec" /\ cur[p] # <<>> /\ Head(cur[p]).kind = "sql"
          /\ UNCHANGED <<queue, mEnd, mSbegin>>
      BY <1>4 DEF ExecSql, ExecSqlAgain, Executing
    <2>5. Ends(p, Shown(p, answer))
      BY <2>1, <2>2, <2>3, <2>4 DEF Finish, Ends
    <2>6. QED
      BY <2>2, <2>5
  <1>5. QED
    BY <1>1, <1>2, <1>3, <1>4 DEF LaborerStep

-----------------------------------------------------------------------------
(* The barrier in progress. *)
LEMMA LaborerHeld ==
    ASSUME TypeOK, Placed, Held, NEW p \in Proc, LaborerStep(p), UNCHANGED svars
    PROVE  Held'
  <1> USE DEF Held, TypeOK, LTypeOK, svars, Final, Synced
  <1>1. lpc[p] # "none" /\ (pc # "done" => p \in mLaborer)
    <2>1. lpc[p] # "none"
      BY LaborerSteps DEF Moves, Ends, Pop
    <2>2. QED
      BY <2>1 DEF Placed
  <1>2. CASE Moves(p)
    BY <1>2 DEF Moves
  <1>3. CASE Pop(p)
    BY <1>1, <1>3, P0Assumption DEF Pop
  <1>4. ASSUME NEW out \in Outputs, Ends(p, out)
        PROVE  Held'
    BY <1>1, <1>4, P0Assumption DEF Ends
  <1>5. QED
    BY <1>2, <1>3, <1>4, LaborerSteps

(* Where the Servicer is in its script. *)
LEMMA PlaceInScript ==
    ASSUME TypeOK
    PROVE  /\ script \in Scripts /\ script \in Seq(Item) /\ Len(script) \in Nat
           /\ ip \in 1..(Len(script) + 1) /\ ip \in Nat
           /\ ~Final => ip \in 1..Len(script)
  <1>1. script \in Scripts /\ script \in Seq(Item) /\ Len(script) \in Nat
    BY ScriptLength DEF TypeOK
  <1>2. ip \in 1..(Len(script) + 1)
    BY DEF TypeOK
  <1>3. QED
    BY <1>1, <1>2 DEF Final

(* P0 has a laborer as soon as its first node is passed. *)
LEMMA P0Started ==
    ASSUME TypeOK, Placed, pc # "done", ip # 1
    PROVE  P0 \in mLaborer
  <1>1. /\ script \in Scripts /\ Len(script) \in Nat /\ ip \in 1..(Len(script) + 1)
    BY PlaceInScript
  <1>2. script[1].op = "node" /\ script[1].proc = P0
    BY <1>1, ScriptsAssumption DEF WellFormed, OpensP0
  <1>3. 1 \in 1..(ip - 1)
    BY <1>1
  <1>4. QED
    BY <1>2, <1>3 DEF Placed

LEMMA FirstItem ==
    ASSUME TypeOK, ~Final, script[ip].op # "node"
    PROVE  ip # 1
  BY PlaceInScript, ScriptsAssumption DEF WellFormed, OpensP0

LEMMA ServicerHeld ==
    ASSUME TypeOK, Placed, Held, ServicerStep
    PROVE  Held'
  <1> USE DEF Held, TypeOK, LTypeOK, lvars, Final, Synced, Error
  <1>1. CASE \/ Load \/ LoadFails \/ RunLaborerFails \/ SameLaborer \/ Ignore \/ EndOfScript
             \/ LastWaited \/ Joined \/ Ignored \/ Collected \/ Judge \/ Destroyed
    BY <1>1 DEF Load, LoadFails, RunLaborerFails, SameLaborer, Ignore, EndOfScript, At,
       LastWaited, Joined, Ignored, Collected, Judge, Destroyed
  <1>2. CASE RunLaborer
    BY <1>2 DEF RunLaborer, At, Start
  <1>3. CASE PushP0
    <2>1. P0 \in mLaborer
      BY <1>3, FirstItem, P0Started DEF PushP0, At
    <2>2. QED
      BY <1>3, <2>1 DEF PushP0, At, PushBack
  <1>4. CASE PushBuffer
    BY <1>4 DEF PushBuffer, At
  <1>5. CASE Pwait
    <2>1. P0 \in mLaborer
      BY <1>5, FirstItem, P0Started DEF Pwait, At
    <2>2. QED
      BY <1>5, <2>1 DEF Pwait, At
  <1>6. CASE Flushed
    BY <1>6 DEF Flushed, Placed
  <1>7. CASE Waited
    <2>1. P0 \in mLaborer
      BY <1>7, FirstItem, P0Started DEF Waited, Placed, IsPwait
    <2>2. QED
      BY <1>7, <2>1 DEF Waited, PushBack
  <1>8. ASSUME NEW p \in Proc, Flush(p)
        PROVE  Held'
    <2>1. p \in mLaborer
      BY <1>8 DEF Flush, Next1
    <2>2. \A q \in Seq(Command) : q \o <<>> = q
      BY ConcatEmptySeq
    <2>3. p = P0 => queue'[P0] = queue[P0]
      BY <1>8, <2>2, P0Assumption DEF Flush, PushBack, Placed
    <2>4. QED
      BY <1>8, <2>1, <2>3, P0Assumption DEF Flush, PushBack
  <1>9. ASSUME NEW p \in Proc, Wait(p) \/ EndLaborer(p) \/ Join(p)
        PROVE  Held'
    BY <1>9 DEF Wait, EndLaborer, End, Join
  <1>10. ASSUME NEW p \in Proc, Collect(p) \/ DestroyLaborer(p) \/ DestroyFails(p)
         PROVE  Held'
    BY <1>10 DEF Collect, TakeResult, DestroyLaborer, DestroyFails, Destroy, Next1
  <1>11. QED
    BY <1>1, <1>2, <1>3, <1>4, <1>5, <1>6, <1>7, <1>8, <1>9, <1>10 DEF ServicerStep

-----------------------------------------------------------------------------
(* The commands of a sequence stand at item b or behind it. *)
Behind(cs, b) == \A k \in DOMAIN cs : cs[k].id >= b

LEMMA BehindConcat ==
    ASSUME NEW cs \in Seq(Command), NEW ds \in Seq(Command), NEW b \in Nat
    PROVE  Behind(cs \o ds, b) <=> Behind(cs, b) /\ Behind(ds, b)
  <1> DEFINE n == Len(cs)
             m == Len(ds)
  <1>1. /\ n \in Nat /\ m \in Nat /\ DOMAIN cs = 1..n /\ DOMAIN ds = 1..m
        /\ DOMAIN (cs \o ds) = 1..(n + m)
        /\ \A k \in 1..(n + m) : (cs \o ds)[k] = IF k <= n THEN cs[k] ELSE ds[k - n]
    BY ConcatProperties, LenProperties
  <1>2. ASSUME Behind(cs \o ds, b)
        PROVE  Behind(cs, b) /\ Behind(ds, b)
    <2>1. ASSUME NEW k \in 1..n
          PROVE  cs[k].id >= b
      BY <1>1, <1>2 DEF Behind
    <2>2. ASSUME NEW k \in 1..m
          PROVE  ds[k].id >= b
      <3>1. k + n \in 1..(n + m) /\ ~(k + n <= n) /\ (k + n) - n = k
        BY <1>1
      <3>2. (cs \o ds)[k + n] = ds[k]
        BY <1>1, <3>1
      <3>3. QED
        BY <1>1, <1>2, <3>1, <3>2 DEF Behind
    <2>3. QED
      BY <1>1, <2>1, <2>2 DEF Behind
  <1>3. ASSUME Behind(cs, b), Behind(ds, b)
        PROVE  Behind(cs \o ds, b)
    BY <1>1, <1>3 DEF Behind
  <1>4. QED
    BY <1>2, <1>3

LEMMA BehindTail ==
    ASSUME NEW cs \in Seq(Command), cs # <<>>, NEW b \in Nat, Behind(cs, b)
    PROVE  Behind(Tail(cs), b)
  BY HeadTailProperties, LenProperties DEF Behind

(* What BarrierHolds says of a process and an item. *)
Past(p, b) == mEnd[p] \/ (Behind(queue[p], b) /\ Behind(mQuery[p], b))

LEMMA BarrierIsPast ==
    ASSUME TypeOK
    PROVE  BarrierHolds <=> \A b \in 1..(ip - 1), p \in Proc : Barrier(script, b, p) => Past(p, b)
  <1>1. \A p \in Proc : queue[p] \in Seq(Command) /\ mQuery[p] \in Seq(Command)
    BY DEF TypeOK, LTypeOK
  <1>2. \A b \in 1..(ip - 1) : b \in Nat
    BY PlaceInScript
  <1>3. ASSUME NEW b \in 1..(ip - 1), NEW p \in Proc
        PROVE  Behind(queue[p] \o mQuery[p], b) <=> Behind(queue[p], b) /\ Behind(mQuery[p], b)
    BY <1>1, <1>2, BehindConcat
  <1>4. QED
    BY <1>3 DEF BarrierHolds, Past, Behind

LEMMA LaborerPast ==
    ASSUME TypeOK, Placed, NEW p \in Proc, LaborerStep(p), UNCHANGED svars,
           NEW q \in Proc, NEW b \in Nat, Past(q, b)
    PROVE  Past(q, b)'
  <1> USE DEF TypeOK, LTypeOK
  <1>1. mQuery' = mQuery
    BY DEF svars
  <1>2. CASE Moves(p)
    BY <1>1, <1>2 DEF Moves, Past, Behind
  <1>3. CASE Pop(p)
    <2>1. CASE q = p
      <3>1. queue[p] \in Seq(Command) /\ queue[p] # <<>> /\ queue'[p] = Tail(queue[p])
        BY <1>3 DEF Pop
      <3>2. Behind(queue[p], b) => Behind(queue'[p], b)
        BY <3>1, BehindTail
      <3>3. mEnd' = mEnd
        BY <1>3 DEF Pop
      <3>4. QED
        BY <1>1, <2>1, <3>2, <3>3 DEF Past
    <2>2. CASE q # p
      BY <1>1, <1>3, <2>2 DEF Pop, Past
    <2>3. QED
      BY <2>1, <2>2
  <1>4. ASSUME NEW out \in Outputs, Ends(p, out)
        PROVE  Past(q, b)'
    BY <1>1, <1>4 DEF Ends, Past
  <1>5. QED
    BY <1>2, <1>3, <1>4, LaborerSteps

(* What the Servicer hands over stands at its item, behind every barrier   *)
(* it has passed.                                                          *)
LEMMA BehindSingle ==
    ASSUME NEW c \in Command, NEW b \in Nat, c.id >= b
    PROVE  Behind(<<c>>, b)
  BY DEF Behind

LEMMA ServicerPast ==
    ASSUME TypeOK, Placed, Held, ServicerStep, NEW q \in Proc, NEW b \in 1..(ip - 1), Past(q, b)
    PROVE  Past(q, b)'
  <1> USE DEF TypeOK, LTypeOK
  <1>1. b \in Nat /\ ip \in Nat /\ ip >= b
    BY PlaceInScript
  <1>a. queue[q] \in Seq(Command) /\ mQuery[q] \in Seq(Command)
    OBVIOUS
  <1>b. ASSUME ~Final
        PROVE  /\ CommandAt(script, ip) \in Command
               /\ <<CommandAt(script, ip)>> \in Seq(Command)
               /\ Behind(<<CommandAt(script, ip)>>, b)
    <2>1. CommandAt(script, ip) \in Command /\ CommandAt(script, ip).id = ip
      BY <1>b, PlaceInScript, ItemType
    <2>2. QED
      BY <1>1, <2>1, BehindSingle
  <1>2. CASE UNCHANGED <<queue, mQuery, mEnd>>
    BY <1>2 DEF Past
  <1>3. ASSUME UNCHANGED <<mQuery, mEnd>>, ~Final,
               queue' = [queue EXCEPT ![P0] = @ \o <<CommandAt(script, ip)>>]
        PROVE  Past(q, b)'
    <2>1. CASE q = P0
      BY <1>a, <1>b, <1>1, <1>3, <2>1, P0Assumption, BehindConcat DEF Past
    <2>2. CASE q # P0
      BY <1>3, <2>2 DEF Past
    <2>3. QED
      BY <2>1, <2>2
  <1>4. CASE RunLaborer
    <2>1. script[ip].proc \in Proc
      BY <1>4, PlaceInScript, ItemType DEF RunLaborer, At
    <2>2. UNCHANGED <<queue, mEnd>>
      BY <1>4 DEF RunLaborer, Start
    <2>3. mQuery'[q] = mQuery[q] \/ Behind(mQuery'[q], b)
      BY <1>4, <2>1 DEF RunLaborer, Behind
    <2>4. QED
      BY <2>2, <2>3 DEF Past
  <1>5. CASE PushP0 \/ Waited
    BY <1>3, <1>5 DEF PushP0, Waited, PushBack, At
  <1>6. CASE PushBuffer
    <2>1. ~Final
      BY <1>6 DEF PushBuffer, At
    <2>2. script[ip].proc \in Proc /\ UNCHANGED <<queue, mEnd>>
      BY <1>6, <2>1, PlaceInScript, ItemType DEF PushBuffer, lvars
    <2>3. CASE q = script[ip].proc
      <3>1. mQuery'[q] = Append(mQuery[q], CommandAt(script, ip))
        BY <1>6, <2>3 DEF PushBuffer
      <3>2. mQuery'[q] = mQuery[q] \o <<CommandAt(script, ip)>>
        BY <1>a, <1>b, <2>1, <3>1, AppendIsConcat
      <3>3. QED
        BY <1>1, <1>a, <1>b, <2>1, <2>2, <3>2, BehindConcat DEF Past
    <2>4. CASE q # script[ip].proc
      BY <1>6, <2>2, <2>4 DEF PushBuffer, Past
    <2>5. QED
      BY <2>3, <2>4
  <1>7. ASSUME NEW p \in Proc, Flush(p)
        PROVE  Past(q, b)'
    <2>1. CASE q = p
      <3>1. /\ queue'[q] = queue[q] \o mQuery[q] /\ mQuery'[q] = <<>> /\ mEnd' = mEnd
        BY <1>7, <2>1 DEF Flush, PushBack
      <3>2. Behind(<<>>, b)
        BY DEF Behind
      <3>3. QED
        BY <1>1, <1>a, <3>1, <3>2, BehindConcat DEF Past
    <2>2. CASE q # p
      BY <1>7, <2>2 DEF Flush, PushBack, Past
    <2>3. QED
      BY <2>1, <2>2
  <1>8. ASSUME NEW p \in Proc, EndLaborer(p)
        PROVE  Past(q, b)'
    BY <1>8 DEF EndLaborer, End, Past
  <1>9. QED
    BY <1>2, <1>4, <1>5, <1>6, <1>7, <1>8 DEF ServicerStep, Load, LoadFails,
       RunLaborerFails, SameLaborer, Ignore, Pwait, EndOfScript, Flushed, LastWaited,
       Joined, Ignored, Collected, Judge, Destroyed, Wait, Join, Collect, TakeResult,
       DestroyLaborer, DestroyFails, Destroy, lvars

(* When the barrier of item ip is passed, what it waited for has drained. *)
LEMMA BarrierPassed ==
    ASSUME TypeOK, Placed, Held, ServicerStep, ip' # ip,
           NEW q \in Proc, NEW b, b = ip, Barrier(script, b, q)
    PROVE  Past(q, b)'
  <1>1. IsPwait(script, ip)
    BY DEF Barrier, IsPwait
  <1>2. Waited
    BY <1>1 DEF ServicerStep, Load, LoadFails, RunLaborer, RunLaborerFails, SameLaborer,
       PushP0, PushBuffer, Ignore, Pwait, EndOfScript, Flushed, LastWaited, Joined, Ignored,
       Collected, Judge, Destroyed, Flush, Wait, EndLaborer, Join, Collect, DestroyLaborer,
       DestroyFails, At, IsPwait
  <1>3. /\ ip \in Nat /\ CommandAt(script, ip) \in Command /\ CommandAt(script, ip).id = ip
    BY <1>2, PlaceInScript, ItemType DEF Waited
  <1>4. mQuery[q] = <<>> /\ mQuery' = mQuery /\ mEnd' = mEnd
    BY <1>2 DEF Waited, Held, PushBack
  <1>5. Synced(q)
    <2>1. CASE q = P0
      BY <1>2, <2>1 DEF Waited, Held
    <2>2. CASE q # P0 /\ q \in mLaborer
      <3>1. q \in Awaited
        BY <1>2, <2>2 DEF Awaited, Waited, Barrier
      <3>2. QED
        BY <1>2, <3>1 DEF Waited, Held
    <2>3. CASE q \notin mLaborer
      BY <1>2, <2>3 DEF Waited, Held, Synced
    <2>4. QED
      BY <2>1, <2>2, <2>3
  <1>6. ASSUME queue[q] = <<>>
        PROVE  Behind(queue'[q], b)
    <2>1. queue'[q] = <<>> \/ queue'[q] = <<>> \o <<CommandAt(script, ip)>>
      BY <1>2, <1>6, P0Assumption DEF Waited, PushBack, TypeOK, LTypeOK
    <2>2. Behind(<<>>, b) /\ Behind(<<CommandAt(script, ip)>>, b)
      BY <1>3, BehindSingle DEF Behind
    <2>3. QED
      BY <1>3, <2>1, <2>2
  <1>7. Behind(mQuery'[q], b)
    BY <1>4 DEF Behind
  <1>8. QED
    BY <1>4, <1>5, <1>6, <1>7 DEF Synced, Past

-----------------------------------------------------------------------------
(* The inductive invariant behind BarrierHolds. *)
BarrierInv == OrderInv /\ Held /\ BarrierHolds

LEMMA BarrierInit ==
    ASSUME Init
    PROVE  Held /\ BarrierHolds
  <1>1. Held
    BY DEF Init, LInit, Held, Synced
  <1>2. 1..(ip - 1) = {}
    BY DEF Init
  <1>3. QED
    BY <1>1, <1>2 DEF BarrierHolds

LEMMA BarrierNext ==
    ASSUME BarrierInv, OrderInv', [Next]_vars
    PROVE  Held' /\ BarrierHolds'
  <1> USE DEF BarrierInv, OrderInv
  <1>1. \A b \in 1..(ip - 1), q \in Proc : Barrier(script, b, q) => Past(q, b)
    BY BarrierIsPast
  <1>2. ASSUME Held', \A b \in 1..(ip' - 1), q \in Proc : Barrier(script', b, q) => Past(q, b)'
        PROVE  Held' /\ BarrierHolds'
    <2>1. \A q \in Proc : queue'[q] \in Seq(Command) /\ mQuery'[q] \in Seq(Command)
      BY DEF TypeOK, LTypeOK
    <2>2. \A b \in 1..(ip' - 1) : b \in Nat
      BY DEF TypeOK
    <2>3. ASSUME NEW b \in 1..(ip' - 1), NEW q \in Proc,
                 Behind(queue'[q], b), Behind(mQuery'[q], b)
          PROVE  Behind(queue'[q] \o mQuery'[q], b)
      BY <2>1, <2>2, <2>3, BehindConcat
    <2>4. QED
      BY <1>2, <2>3 DEF BarrierHolds, Past, Behind
  <1>3. ip \in Nat
    BY PlaceInScript
  <1>4. CASE ServicerStep
    <2>1. Held'
      BY <1>4, ServicerHeld
    <2>2. script' = script /\ (ip' = ip \/ ip' = ip + 1)
      BY <1>4 DEF ServicerStep, Load, LoadFails, RunLaborer, RunLaborerFails, SameLaborer,
         PushP0, PushBuffer, Ignore, Pwait, EndOfScript, Flushed, Waited, LastWaited,
         Joined, Ignored, Collected, Judge, Destroyed, Flush, Wait, EndLaborer, Join,
         Collect, DestroyLaborer, DestroyFails
    <2>3. ASSUME NEW b \in 1..(ip' - 1), NEW q \in Proc, Barrier(script', b, q)
          PROVE  Past(q, b)'
      <3>1. CASE b \in 1..(ip - 1)
        BY <1>1, <1>4, <2>2, <2>3, <3>1, ServicerPast
      <3>2. CASE b \notin 1..(ip - 1)
        <4>1. b = ip /\ ip' # ip
          BY <1>3, <2>2, <2>3, <3>2
        <4>2. QED
          BY <1>4, <2>2, <2>3, <4>1, BarrierPassed
      <3>3. QED
        BY <3>1, <3>2
    <2>4. QED
      BY <1>2, <2>1, <2>3
  <1>5. ASSUME NEW p \in Proc, LaborerStep(p), UNCHANGED svars
        PROVE  Held' /\ BarrierHolds'
    <2>1. Held'
      BY <1>5, LaborerHeld
    <2>2. script' = script /\ ip' = ip
      BY <1>5 DEF svars
    <2>3. \A b \in 1..(ip' - 1), q \in Proc : Barrier(script', b, q) => Past(q, b)'
      <3>1. \A b \in 1..(ip - 1) : b \in Nat
        BY <1>3
      <3>2. QED
        BY <1>1, <1>5, <2>2, <3>1, LaborerPast
    <2>4. QED
      BY <1>2, <2>1, <2>3
  <1>6. CASE UNCHANGED vars
    <2>1. Held'
      BY <1>6 DEF vars, lvars, svars, Held, Synced, Final
    <2>2. BarrierHolds'
      BY <1>6 DEF vars, lvars, svars, BarrierHolds, Barrier, IsPwait
    <2>3. QED
      BY <2>1, <2>2
  <1>7. QED
    BY <1>4, <1>5, <1>6 DEF Next

LEMMA BarrierInvariant == Spec => []BarrierInv
  <1>1. Init /\ OrderInv => BarrierInv
    BY BarrierInit DEF BarrierInv
  <1>2. BarrierInv /\ OrderInv' /\ [Next]_vars => BarrierInv'
    BY BarrierNext DEF BarrierInv
  <1>3. QED
    BY <1>1, <1>2, OrderInvariant, PTL DEF Spec

(* A PWAIT is a barrier under every interleaving: once the Servicer is     *)
(* past it (syncP0, sync, async and syncLaborer of runParseTable), each    *)
(* process it waits for has begun every command in front of it or has lost *)
(* its session.                                                            *)
THEOREM BarriersAlwaysHold == Spec => []BarrierHolds
  <1>1. BarrierInv => BarrierHolds
    BY DEF BarrierInv
  <1>2. QED
    BY <1>1, BarrierInvariant, PTL

-----------------------------------------------------------------------------
(* The output of a process: a finished command is added, and the Servicer  *)
(* collects without changing it.                                           *)
LEMMA EndsAppends ==
    ASSUME TypeOK, Placed, NEW p \in Proc, NEW out \in Outputs, Ends(p, out), UNCHANGED svars
    PROVE  /\ cur[p] = <<Head(cur[p])>> /\ Head(cur[p]) \in Command
           /\ [cmd |-> Head(cur[p]), out |-> out] \in Entry
           /\ Output(p)' = Append(Output(p), [cmd |-> Head(cur[p]), out |-> out])
           /\ \A q \in Proc \ {p} : Output(q)' = Output(q)
  <1>1. Len(cur[p]) = 1 /\ cur[p] \in Seq(Command)
    BY DEF Ends, Placed, TypeOK, LTypeOK
  <1>2. cur[p] = <<Head(cur[p])>> /\ Head(cur[p]) \in Command
    BY <1>1
  <1>3. PICK e \in Entry : e = [cmd |-> Head(cur[p]), out |-> out]
    BY <1>2 DEF Entry
  <1>4. mResult'[p] = Append(mResult[p], e) /\ mReData'[p] = mReData[p]
    BY <1>3 DEF Ends, TypeOK, LTypeOK, svars
  <1>5. mReData[p] \in Seq(Entry) /\ mResult[p] \in Seq(Entry)
    BY DEF TypeOK, LTypeOK
  <1>6. Output(p)' = Append(Output(p), e)
    BY <1>4, <1>5, ConcatAppend DEF Output
  <1>7. \A q \in Proc \ {p} : mResult'[q] = mResult[q] /\ mReData'[q] = mReData[q]
    BY DEF Ends, TypeOK, LTypeOK, svars
  <1>8. QED
    BY <1>2, <1>3, <1>6, <1>7 DEF Output

LEMMA ServicerKeepsOutput ==
    ASSUME TypeOK, Placed, ServicerStep, NEW q \in Proc
    PROVE  Output(q)' = Output(q)
  <1>1. CASE UNCHANGED <<mReData, mResult>>
    BY <1>1 DEF Output
  <1>2. ASSUME NEW p \in Proc, Collect(p)
        PROVE  Output(q)' = Output(q)
    <2>1. /\ mReData[p] = <<>>
          /\ mReData'[p] = mResult[p] /\ mResult'[p] = <<>> /\ mResult[p] \in Seq(Entry)
          /\ \A r \in Proc \ {p} : mReData'[r] = mReData[r] /\ mResult'[r] = mResult[r]
      BY <1>2 DEF Collect, TakeResult, Next1, Placed, TypeOK, LTypeOK
    <2>2. Output(p)' = Output(p)
      BY <2>1, ConcatEmptySeq DEF Output
    <2>3. QED
      BY <2>1, <2>2 DEF Output
  <1>3. QED
    BY <1>1, <1>2 DEF ServicerStep, Load, LoadFails, RunLaborer, RunLaborerFails,
       SameLaborer, PushP0, PushBuffer, Ignore, Pwait, EndOfScript, Flushed, Waited,
       LastWaited, Joined, Ignored, Collected, Judge, Destroyed, Flush, Wait, EndLaborer,
       Join, DestroyLaborer, DestroyFails, Start, PushBack, End, Destroy, lvars

-----------------------------------------------------------------------------
(* How a laborer ends. *)
LEMMA LaborerEnded ==
    ASSUME TypeOK, Placed, EndedInOrder, NEW p \in Proc, LaborerStep(p), UNCHANGED svars
    PROVE  EndedInOrder'
  <1> USE DEF TypeOK, LTypeOK
  <1>1. /\ lpc[p] \in {"run", "real", "exec"}
        /\ ~Dead(p) /\ ~AllJoined
        /\ pc \in {"end", "join"} => p \notin visited
    <2>1. lpc[p] \in {"run", "real", "exec"}
      BY LaborerSteps DEF Moves, Ends, Pop
    <2>2. QED
      BY <2>1 DEF EndedInOrder
  <1>2. Over' = Over /\ AllJoined' = AllJoined /\ Final' = Final
    BY DEF Over, AllJoined, Final, svars
  <1>3. CASE Moves(p) \/ Pop(p)
    <2>1. \A q \in Proc : Output(q)' = Output(q)
      BY <1>3 DEF Moves, Pop, Output, svars
    <2>2. \A q \in Proc : Dead(q)' = Dead(q)
      BY <2>1 DEF Dead
    <2>3. mEnd' = mEnd /\ \A q \in Proc \ {p} : /\ lpc'[q] = lpc[q] /\ queue'[q] = queue[q]
                                                 /\ cur'[q] = cur[q]
      BY <1>3 DEF Moves, Pop
    <2>4. Over => queue[p] = <<>> /\ queue'[p] = <<>>
      BY <1>1, <1>3 DEF Moves, Pop, EndedInOrder
    <2>5. QED
      BY <1>1, <1>2, <2>1, <2>2, <2>3, <2>4 DEF EndedInOrder, svars
  <1>4. ASSUME NEW out \in Outputs, Ends(p, out)
        PROVE  EndedInOrder'
    <2>1. PICK e \in Entry : e.out = out /\ Output(p)' = Append(Output(p), e)
      BY <1>4, EndsAppends
    <2>2. \A q \in Proc \ {p} : Output(q)' = Output(q)
      BY <1>4, EndsAppends
    <2>3. Output(p) \in Seq(Entry)
      BY StreamParts
    <2>4. Dead(p)' <=> out = "dead"
      <3>1. /\ DOMAIN Output(p)' = 1..(Len(Output(p)) + 1) /\ Len(Output(p)) \in Nat
            /\ \A k \in 1..Len(Output(p)) : Output(p)'[k] = Output(p)[k]
            /\ Output(p)'[Len(Output(p)) + 1] = e
        BY <2>1, <2>3
      <3>2. \A k \in 1..Len(Output(p)) : Output(p)[k].out # "dead"
        BY <1>1, <2>3 DEF Dead
      <3>3. PICK r : r = Output(p)'
        OBVIOUS
      <3>4. \A k \in DOMAIN r : r[k].out = "dead" <=> k = Len(Output(p)) + 1 /\ out = "dead"
        BY <2>1, <3>1, <3>2, <3>3
      <3>5. Dead(p)' <=> \E k \in DOMAIN r : r[k].out = "dead"
        BY <3>3 DEF Dead
      <3>6. Len(Output(p)) + 1 \in DOMAIN r
        BY <3>1, <3>3
      <3>7. QED
        BY <3>4, <3>5, <3>6
    <2>5. \A k \in DOMAIN Output(p)' : Output(p)'[k].out = "dead" => k = Len(Output(p)')
      BY <1>1, <2>1, <2>3 DEF Dead
    <2>6. \A q \in Proc \ {p} : Dead(q)' = Dead(q)
      BY <2>2 DEF Dead
    <2>7. /\ queue' = queue
          /\ \A q \in Proc \ {p} : lpc'[q] = lpc[q] /\ mEnd'[q] = mEnd[q] /\ cur'[q] = cur[q]
          /\ IF out = "dead" THEN mEnd'[p] /\ lpc'[p] = "exited" ELSE mEnd'[p] = mEnd[p]
      BY <1>4 DEF Ends
    <2>8. QED
      BY <1>1, <1>2, <2>2, <2>4, <2>5, <2>6, <2>7 DEF EndedInOrder, svars
  <1>5. QED
    BY <1>3, <1>4, LaborerSteps

LEMMA ServicerEnded ==
    ASSUME TypeOK, Placed, Held, EndedInOrder, ServicerStep
    PROVE  EndedInOrder'
  <1> USE DEF TypeOK, LTypeOK, Places, Over, AllJoined
  <1>a. \A q \in Proc : Output(q)' = Output(q)
    BY ServicerKeepsOutput
  <1>b. \A q \in Proc : Dead(q)' = Dead(q)
    BY <1>a DEF Dead
  <1>1. CASE \/ Load \/ LoadFails \/ RunLaborerFails \/ SameLaborer \/ Ignore \/ Pwait
             \/ EndOfScript \/ Flushed
    BY <1>1, <1>a, <1>b DEF Load, LoadFails, RunLaborerFails, SameLaborer, Ignore, Pwait,
       EndOfScript, Flushed, Error, At, lvars, EndedInOrder
  <1>2. CASE RunLaborer
    <2>1. /\ lpc[script[ip].proc] = "none" /\ pc = "parse" /\ UNCHANGED <<mEnd, failed, pc>>
          /\ lpc' = [lpc EXCEPT ![script[ip].proc] = "run"]
          /\ script[ip].proc \in Proc
      BY <1>2, PlaceInScript, ItemType DEF RunLaborer, Start, At, Placed
    <2>2. QED
      BY <1>a, <1>b, <2>1 DEF EndedInOrder
  <1>3. CASE PushP0 \/ PushBuffer \/ Waited
    BY <1>3, <1>a, <1>b DEF PushP0, PushBuffer, Waited, PushBack, At, lvars, EndedInOrder
  <1>4. CASE LastWaited
    <2>1. ~failed /\ pc = "wait" /\ Final
      BY <1>4 DEF LastWaited, EndedInOrder
    <2>2. ASSUME NEW q \in Proc
          PROVE  mQuery[q] = <<>> /\ (Dead(q) \/ queue[q] = <<>>)
      <3>1. mQuery[q] = <<>>
        BY <2>1 DEF Held
      <3>2. CASE q \in mLaborer
        <4>1. q \in visited
          BY <1>4, <2>1, <3>2 DEF LastWaited, Awaited
        <4>2. mEnd[q] \/ queue[q] = <<>>
          BY <2>1, <4>1 DEF Held, Synced
        <4>3. QED
          BY <2>1, <3>1, <4>2 DEF EndedInOrder
      <3>3. CASE q \notin mLaborer
        BY <2>1, <3>1, <3>3 DEF Held
      <3>4. QED
        BY <3>2, <3>3
    <2>3. /\ UNCHANGED <<lvars, script, ip, mLaborer, mQuery, failed>>
          /\ pc' = "end" /\ visited' = {}
      BY <1>4 DEF LastWaited
    <2>4. QED
      BY <1>a, <1>b, <2>1, <2>2, <2>3 DEF EndedInOrder, lvars, Final
  <1>5. ASSUME NEW p \in Proc, EndLaborer(p)
        PROVE  EndedInOrder'
    BY <1>5, <1>a, <1>b DEF EndLaborer, End, EndedInOrder, Final
  <1>6. ASSUME NEW p \in Proc, Join(p)
        PROVE  EndedInOrder'
    BY <1>6, <1>a, <1>b DEF Join, lvars, EndedInOrder, Final
  <1>7. CASE Joined
    <2>1. ~failed /\ pc = "end" /\ Final /\ mLaborer \subseteq visited
      BY <1>7 DEF Joined, EndedInOrder
    <2>2. ASSUME NEW q \in Proc
          PROVE  /\ lpc[q] \in {"none", "exited"} /\ cur[q] = <<>>
                 /\ q \in mLaborer => lpc[q] = "exited"
      BY <2>1 DEF EndedInOrder, Placed
    <2>3. QED
      BY <1>7, <1>a, <1>b, <2>1, <2>2 DEF Joined, lvars, EndedInOrder, Final
  <1>8. CASE Ignored \/ Collected \/ Judge \/ Destroyed
    BY <1>8, <1>a, <1>b DEF Ignored, Collected, Judge, Destroyed, lvars, EndedInOrder, Final
  <1>9. ASSUME NEW p \in Proc, Flush(p) \/ Wait(p)
        PROVE  EndedInOrder'
    BY <1>9, <1>a, <1>b DEF Flush, Wait, PushBack, lvars, EndedInOrder
  <1>10. ASSUME NEW p \in Proc, Collect(p)
         PROVE  EndedInOrder'
    BY <1>10, <1>a, <1>b DEF Collect, TakeResult, EndedInOrder, Final
  <1>11. ASSUME NEW p \in Proc, DestroyLaborer(p)
         PROVE  EndedInOrder'
    BY <1>11, <1>a, <1>b DEF DestroyLaborer, Destroy, EndedInOrder, Final
  <1>12. ASSUME NEW p \in Proc, DestroyFails(p)
         PROVE  EndedInOrder'
    <2>1. p \in mLaborer /\ p \notin visited /\ lpc[p] \in {"run", "real"} /\ pc = "destroy"
      BY <1>12 DEF DestroyFails, Next1
    <2>2. failed
      BY <2>1 DEF EndedInOrder, AllJoined
    <2>3. QED
      BY <1>12, <1>a, <1>b, <2>1, <2>2 DEF DestroyFails, Destroy, EndedInOrder, Final
  <1>13. QED
    BY <1>1, <1>2, <1>3, <1>4, <1>5, <1>6, <1>7, <1>8, <1>9, <1>10, <1>11, <1>12
       DEF ServicerStep

(* The inductive invariant behind EndsInOrder. *)
EndInv == BarrierInv /\ EndedInOrder

LEMMA EndInvariant == Spec => []EndInv
  <1>1. Init => EndedInOrder
    BY DEF Init, LInit, EndedInOrder, Dead, Output, Over, AllJoined
  <1>2. EndInv /\ [Next]_vars => EndedInOrder'
    <2> SUFFICES ASSUME EndInv, [Next]_vars PROVE EndedInOrder'
      OBVIOUS
    <2> USE DEF EndInv, BarrierInv, OrderInv
    <2>1. CASE ServicerStep
      BY <2>1, ServicerEnded
    <2>2. ASSUME NEW p \in Proc, LaborerStep(p), UNCHANGED svars
          PROVE  EndedInOrder'
      BY <2>2, LaborerEnded
    <2>3. CASE UNCHANGED vars
      BY <2>3 DEF vars, lvars, svars, EndedInOrder, Dead, Output, Over, AllJoined, Final
    <2>4. QED
      BY <2>1, <2>2, <2>3 DEF Next
  <1>3. QED
    BY <1>1, <1>2, BarrierInvariant, PTL DEF Spec, EndInv

(* syncLaborer ends a laborer only when nothing can be handed to it any    *)
(* more, and endLaborer deletes one whose thread has not exited only after *)
(* the run took the error path of runReal, under every interleaving.       *)
THEOREM LaborersEndInOrder == Spec => EndsInOrder
  <1>1. ASSUME EndInv, Next, NEW q \in Proc
        PROVE  LeavesInOrder(q)
    <2> USE <1>1 DEF EndInv, BarrierInv, OrderInv, TypeOK, LTypeOK, LeavesInOrder
    <2>1. ASSUME NEW p \in Proc, LaborerStep(p)
          PROVE  LeavesInOrder(q)
      <3>1. CASE Moves(p) \/ Pop(p)
        BY <3>1 DEF Moves, Pop
      <3>2. ASSUME NEW out \in Outputs, Ends(p, out)
            PROVE  LeavesInOrder(q)
        BY <3>2 DEF Ends
      <3>3. QED
        BY <2>1, <3>1, <3>2, LaborerSteps
    <2>2. ASSUME NEW p \in Proc, EndLaborer(p)
          PROVE  LeavesInOrder(q)
      <3>1. pc = "end" /\ ~failed
        BY <2>2 DEF EndLaborer, EndedInOrder
      <3>2. ~mEnd[q] => Final /\ queue[q] = <<>> /\ mQuery[q] = <<>>
        BY <3>1 DEF EndedInOrder, Over
      <3>3. QED
        BY <2>2, <3>2 DEF EndLaborer, End
    <2>3. ASSUME NEW p \in Proc, DestroyLaborer(p) \/ DestroyFails(p)
          PROVE  LeavesInOrder(q)
      <3>1. p \in mLaborer /\ p \notin visited /\ pc = "destroy"
        BY <2>3 DEF DestroyLaborer, DestroyFails, Next1
      <3>2. lpc[p] = "exited" \/ failed
        BY <3>1 DEF EndedInOrder, AllJoined
      <3>3. QED
        BY <2>3, <3>2 DEF DestroyLaborer, DestroyFails, Destroy
    <2>4. ASSUME NEW p \in Proc, Flush(p) \/ Wait(p) \/ Join(p) \/ Collect(p)
          PROVE  LeavesInOrder(q)
      BY <2>4 DEF Flush, PushBack, Wait, Join, Collect, TakeResult, lvars
    <2>5. CASE RunLaborer
      <3>1. script[ip].proc \in Proc
        BY <2>5, PlaceInScript, ItemType DEF RunLaborer, At
      <3>2. QED
        BY <2>5, <3>1 DEF RunLaborer, Start
    <2>6. CASE PushP0 \/ Waited
      BY <2>6 DEF PushP0, Waited, PushBack
    <2>7. CASE \/ Load \/ LoadFails \/ RunLaborerFails \/ SameLaborer \/ PushBuffer \/ Ignore
               \/ Pwait \/ EndOfScript \/ Flushed \/ LastWaited \/ Joined \/ Ignored
               \/ Collected \/ Judge \/ Destroyed
      BY <2>7 DEF Load, LoadFails, RunLaborerFails, SameLaborer, PushBuffer, Ignore, Pwait,
         EndOfScript, Flushed, LastWaited, Joined, Ignored, Collected, Judge, Destroyed, lvars
    <2>8. CASE UNCHANGED vars
      BY <2>8 DEF vars, lvars
    <2>9. QED
      BY <1>1, <2>1, <2>2, <2>3, <2>4, <2>5, <2>6, <2>7, <2>8 DEF Next, ServicerStep
  <1>2. EndInv /\ Next => AllLeaveInOrder
    BY <1>1 DEF AllLeaveInOrder
  <1>3. QED
    BY <1>2, EndInvariant, PTL DEF Spec, EndsInOrder

-----------------------------------------------------------------------------
(* Induction over the length of a script and of an output is made with the *)
(* least counterexample.                                                   *)
LEMMA NatMin ==
    ASSUME NEW T \in SUBSET Nat, T # {}
    PROVE  \E x \in T : \A y \in T : x <= y
  <1>1. PICK R : R = OpToRel(<, Nat)
    OBVIOUS
  <1>2. IsWellFoundedOn(R, Nat)
    BY <1>1, NatLessThanWellFounded
  <1>3. PICK x \in T : \A y \in T : ~(<<y, x>> \in R)
    BY <1>2, WFMin
  <1>4. \A y \in T : y < x => <<y, x>> \in R
    BY <1>1 DEF OpToRel
  <1>5. \A y \in T : ~(y < x)
    BY <1>3, <1>4, Zenon
  <1>6. \A y \in T : y \in Nat
    OBVIOUS
  <1>7. x \in Nat
    OBVIOUS
  <1>8. QED
    BY <1>5, <1>6, <1>7

(* A set of commands has one order. *)
Increasing(cs) == \A j, k \in DOMAIN cs : j < k => cs[j].id < cs[k].id
RangeOf(cs)    == {cs[k] : k \in DOMAIN cs}

LEMMA OneOrder ==
    ASSUME NEW cs \in Seq(Command), NEW ds \in Seq(Command),
           Increasing(cs), Increasing(ds), RangeOf(cs) = RangeOf(ds)
    PROVE  cs = ds
  <1>1. /\ DOMAIN cs = 1..Len(cs) /\ Len(cs) \in Nat
        /\ DOMAIN ds = 1..Len(ds) /\ Len(ds) \in Nat
        /\ \A k \in DOMAIN cs : cs[k].id \in Nat
        /\ \A k \in DOMAIN ds : ds[k].id \in Nat
    <2>1. \A k \in 1..Len(cs) : cs[k] \in Command
      OBVIOUS
    <2>2. \A k \in 1..Len(ds) : ds[k] \in Command
      OBVIOUS
    <2>3. \A c \in Command : c.id \in Nat
      BY DEF Command
    <2>4. QED
      BY <2>1, <2>2, <2>3
  <1>2. /\ \A k \in DOMAIN cs : \E j \in DOMAIN ds : cs[k] = ds[j]
        /\ \A k \in DOMAIN ds : \E j \in DOMAIN cs : ds[k] = cs[j]
    BY DEF RangeOf
  <1> DEFINE T == {k \in DOMAIN cs \cap DOMAIN ds : cs[k] # ds[k]}
  <1>3. T = {}
    <2> SUFFICES ASSUME T # {} PROVE FALSE
      OBVIOUS
    <2>1. T \in SUBSET Nat
      BY <1>1
    <2>2. PICK k \in T : \A j \in T : k <= j
      BY <2>1, NatMin
    <2>3. /\ k \in DOMAIN cs /\ k \in DOMAIN ds /\ cs[k] # ds[k]
          /\ \A j \in 1..(k - 1) : j \in DOMAIN cs /\ j \in DOMAIN ds /\ cs[j] = ds[j]
      BY <1>1, <2>2
    <2>4. ds[k].id < cs[k].id
      <3>1. PICK j \in DOMAIN ds : cs[k] = ds[j]
        BY <1>2, <2>3
      <3>2. ~(j < k)
        BY <1>1, <2>3, <3>1 DEF Increasing
      <3>3. k < j
        BY <1>1, <2>3, <3>1, <3>2
      <3>4. QED
        BY <2>3, <3>1, <3>3 DEF Increasing
    <2>5. cs[k].id < ds[k].id
      <3>1. PICK j \in DOMAIN cs : ds[k] = cs[j]
        BY <1>2, <2>3
      <3>2. ~(j < k)
        BY <1>1, <2>3, <3>1 DEF Increasing
      <3>3. k < j
        BY <1>1, <2>3, <3>1, <3>2
      <3>4. QED
        BY <2>3, <3>1, <3>3 DEF Increasing
    <2>6. QED
      BY <1>1, <2>3, <2>4, <2>5
  <1>4. ~(Len(cs) < Len(ds))
    <2> SUFFICES ASSUME Len(cs) < Len(ds) PROVE FALSE
      OBVIOUS
    <2>1. Len(cs) + 1 \in DOMAIN ds
      BY <1>1
    <2>2. PICK j \in DOMAIN cs : ds[Len(cs) + 1] = cs[j]
      BY <1>2, <2>1
    <2>3. j \in DOMAIN ds /\ j < Len(cs) + 1 /\ ds[j] = cs[j]
      BY <1>1, <1>3, <2>2
    <2>4. QED
      BY <1>1, <2>1, <2>2, <2>3 DEF Increasing
  <1>5. ~(Len(ds) < Len(cs))
    <2> SUFFICES ASSUME Len(ds) < Len(cs) PROVE FALSE
      OBVIOUS
    <2>1. Len(ds) + 1 \in DOMAIN cs
      BY <1>1
    <2>2. PICK j \in DOMAIN ds : cs[Len(ds) + 1] = ds[j]
      BY <1>2, <2>1
    <2>3. j \in DOMAIN cs /\ j < Len(ds) + 1 /\ ds[j] = cs[j]
      BY <1>1, <1>3, <2>2
    <2>4. QED
      BY <1>1, <2>1, <2>2, <2>3 DEF Increasing
  <1>6. Len(cs) = Len(ds)
    <2>1. \A m, n \in Nat : ~(m < n) /\ ~(n < m) => m = n
      OBVIOUS
    <2>2. QED
      BY <1>1, <1>4, <1>5, <2>1
  <1>7. \A k \in 1..Len(cs) : cs[k] = ds[k]
    BY <1>1, <1>3, <1>6
  <1>8. QED
    BY <1>6, <1>7, SeqEqual

-----------------------------------------------------------------------------
(* The function the oracle is defined by exists, and what it holds at n    *)
(* are the entries of the commands among the first n items, in order.      *)
OracleAt(f, s, p, n) ==
    IF n = 0 THEN <<>>
    ELSE IF IsCommand(s, n) /\ Owner(s, n) = p
         THEN Append(f[n - 1], OracleEntry(s, n))
         ELSE f[n - 1]

IsOracle(f, s, p, m) == f = [n \in 0..m |-> OracleAt(f, s, p, n)]

LEMMA OracleExists ==
    ASSUME NEW s, NEW p, NEW m \in Nat
    PROVE  \E f : IsOracle(f, s, p, m)
  <1> DEFINE T == {n \in Nat : ~\E f : IsOracle(f, s, p, n)}
  <1>1. T = {}
    <2> SUFFICES ASSUME T # {} PROVE FALSE
      OBVIOUS
    <2>1. PICK n \in T : \A k \in T : n <= k
      BY NatMin
    <2>2. CASE n = 0
      <3>1. IsOracle([k \in 0..0 |-> <<>>], s, p, 0)
        BY DEF IsOracle, OracleAt
      <3>2. QED
        BY <2>1, <2>2, <3>1
    <2>3. CASE n # 0
      <3>1. n - 1 \in Nat /\ ~(n <= n - 1)
        BY <2>1, <2>3
      <3>2. n - 1 \notin T
        BY <2>1, <3>1
      <3>3. PICK f : IsOracle(f, s, p, n - 1)
        BY <3>1, <3>2
      <3> DEFINE g == [k \in 0..n |-> IF k = n THEN OracleAt(f, s, p, n) ELSE f[k]]
      <3>4. n \in Nat /\ \A k \in 0..n : k # n => k \in 0..(n - 1)
        BY <2>1
      <3>5. \A k \in 0..n : k # 0 => k - 1 \in 0..(n - 1) /\ g[k - 1] = f[k - 1]
        BY <2>1
      <3>6. \A k \in 0..n : OracleAt(g, s, p, k) = OracleAt(f, s, p, k)
        BY <3>5 DEF OracleAt
      <3>7. \A k \in 0..(n - 1) : f[k] = OracleAt(f, s, p, k)
        BY <3>3 DEF IsOracle
      <3>8. \A k \in 0..n : g[k] = OracleAt(g, s, p, k)
        BY <3>4, <3>6, <3>7
      <3>9. g = [k \in 0..n |-> g[k]]
        OBVIOUS
      <3> HIDE DEF g
      <3>10. IsOracle(g, s, p, n)
        BY <3>8, <3>9 DEF IsOracle
      <3>11. QED
        BY <2>1, <3>10
    <2>4. QED
      BY <2>2, <2>3
  <1>2. QED
    BY <1>1

LEMMA OracleIsLast ==
    ASSUME NEW s, NEW p, Len(s) \in Nat
    PROVE  \E f : IsOracle(f, s, p, Len(s)) /\ Oracle(s, p) = f[Len(s)]
  <1> DEFINE f == CHOOSE upTo : IsOracle(upTo, s, p, Len(s))
  <1>1. IsOracle(f, s, p, Len(s))
    BY OracleExists
  <1>2. Oracle(s, p) = f[Len(s)]
    BY DEF Oracle, IsOracle, OracleAt
  <1>3. QED
    BY <1>1, <1>2

OracleFor(r, s, p, n) ==
    /\ r \in Seq(Entry)
    /\ InOrder(Commands(r), s, p, n)
    /\ \A k \in DOMAIN r : r[k] = OracleEntry(s, r[k].cmd.id)

LEMMA OracleGrows ==
    ASSUME NEW s \in Scripts, NEW p \in Proc, NEW n \in 1..Len(s),
           NEW r, OracleFor(r, s, p, n - 1),
           IsCommand(s, n), Owner(s, n) = p
    PROVE  OracleFor(Append(r, OracleEntry(s, n)), s, p, n)
  <1>1. CommandAt(s, n) \in Command /\ CommandAt(s, n).id = n
    BY ItemType
  <1>2. PICK e \in Entry : e = OracleEntry(s, n)
    <2>1. OracleOutput(s, n) \in Outputs
      BY DEF OracleOutput, Outputs
    <2>2. QED
      BY <1>1, <2>1 DEF OracleEntry, Entry
  <1>3. e.cmd = CommandAt(s, n) /\ e.cmd.id = n
    BY <1>1, <1>2 DEF OracleEntry
  <1>4. r \in Seq(Entry) /\ Append(r, e) \in Seq(Entry)
    BY DEF OracleFor
  <1>5. Commands(Append(r, e)) = Commands(r) \o <<CommandAt(s, n)>>
    BY <1>3, <1>4, CommandsAppend
  <1>6. Commands(r) \in Seq(Command)
    BY <1>4, CommandsType
  <1>7. InOrder(Commands(Append(r, e)), s, p, n)
    BY <1>5, <1>6, InOrderGrows DEF OracleFor
  <1>8. /\ DOMAIN Append(r, e) = 1..(Len(r) + 1) /\ Len(r) \in Nat /\ DOMAIN r = 1..Len(r)
        /\ \A k \in 1..Len(r) : Append(r, e)[k] = r[k]
        /\ Append(r, e)[Len(r) + 1] = e
    BY <1>4
  <1>9. \A k \in DOMAIN Append(r, e) :
           Append(r, e)[k] = OracleEntry(s, Append(r, e)[k].cmd.id)
    BY <1>2, <1>3, <1>8 DEF OracleFor
  <1>10. QED
    BY <1>2, <1>4, <1>7, <1>9 DEF OracleFor

LEMMA OracleUpTo ==
    ASSUME NEW s \in Scripts, NEW p \in Proc, NEW f, IsOracle(f, s, p, Len(s)),
           NEW m \in 0..Len(s)
    PROVE  OracleFor(f[m], s, p, m)
  <1> DEFINE T == {n \in 0..Len(s) : ~OracleFor(f[n], s, p, n)}
  <1>0. Len(s) \in Nat
    BY ScriptLength
  <1>1. \A n \in 0..Len(s) : f[n] = OracleAt(f, s, p, n)
    BY <1>0 DEF IsOracle
  <1>2. T = {}
    <2> SUFFICES ASSUME T # {} PROVE FALSE
      OBVIOUS
    <2>1. T \in SUBSET Nat
      BY <1>0
    <2>2. PICK n \in T : \A k \in T : n <= k
      BY <2>1, NatMin
    <2>3. CASE n = 0
      <3>1. f[0] = <<>>
        BY <1>0, <1>1 DEF OracleAt
      <3>2. Commands(<<>>) = <<>> /\ CommandsOf(s, p, 0) = {}
        BY DEF Commands, CommandsOf
      <3>3. InOrder(<<>>, s, p, 0)
        BY <3>2 DEF InOrder
      <3>4. OracleFor(<<>>, s, p, 0)
        BY <3>2, <3>3 DEF OracleFor
      <3>5. QED
        BY <2>2, <2>3, <3>1, <3>4
    <2>4. CASE n # 0
      <3>1. n \in 1..Len(s) /\ n - 1 \in 0..Len(s) /\ ~(n <= n - 1)
        BY <1>0, <2>2, <2>4
      <3>2. n - 1 \notin T
        BY <2>2, <3>1
      <3>3. OracleFor(f[n - 1], s, p, n - 1)
        BY <3>1, <3>2
      <3>4. CASE IsCommand(s, n) /\ Owner(s, n) = p
        <4>1. f[n] = Append(f[n - 1], OracleEntry(s, n))
          BY <1>1, <2>2, <2>4, <3>4 DEF OracleAt
        <4>2. OracleFor(f[n], s, p, n)
          BY <3>1, <3>3, <3>4, <4>1, OracleGrows
        <4>3. QED
          BY <2>2, <4>2
      <3>5. CASE ~(IsCommand(s, n) /\ Owner(s, n) = p)
        <4>1. f[n] = f[n - 1]
          BY <1>1, <2>2, <2>4, <3>5 DEF OracleAt
        <4>2. InOrder(Commands(f[n - 1]), s, p, n)
          BY <3>1, <3>3, <3>5, InOrderStays DEF OracleFor
        <4>3. OracleFor(f[n], s, p, n)
          BY <3>3, <4>1, <4>2 DEF OracleFor
        <4>4. QED
          BY <2>2, <4>3
      <3>6. QED
        BY <3>4, <3>5
    <2>5. QED
      BY <2>3, <2>4
  <1>3. QED
    BY <1>2

(* The oracle holds all the commands of the process, in order, each with   *)
(* the output the script says.                                             *)
LEMMA OracleInOrder ==
    ASSUME NEW s \in Scripts, NEW p \in Proc
    PROVE  OracleFor(Oracle(s, p), s, p, Len(s))
  <1>1. Len(s) \in Nat
    BY ScriptLength
  <1>2. Len(s) \in 0..Len(s)
    BY <1>1
  <1>3. QED
    BY <1>1, <1>2, OracleIsLast, OracleUpTo

(* An output with all the commands of its process has the length of the    *)
(* oracle, and is the oracle when each command left what is expected of it. *)
LEMMA WholeOutput ==
    ASSUME NEW s \in Scripts, NEW p \in Proc, NEW r \in Seq(Entry),
           InOrder(Commands(r), s, p, Len(s))
    PROVE  /\ Len(r) = Len(Oracle(s, p))
           /\ (\A k \in DOMAIN r : r[k].out = OracleOutput(s, r[k].cmd.id)) => r = Oracle(s, p)
  <1>1. PICK o \in Seq(Entry) : o = Oracle(s, p) /\ OracleFor(o, s, p, Len(s))
    BY OracleInOrder DEF OracleFor
  <1>2. Commands(r) \in Seq(Command) /\ Commands(o) \in Seq(Command)
    BY CommandsType
  <1>3. /\ Increasing(Commands(r)) /\ Increasing(Commands(o))
        /\ RangeOf(Commands(r)) = RangeOf(Commands(o))
    BY <1>1 DEF OracleFor, InOrder, Increasing, RangeOf
  <1>4. Commands(r) = Commands(o)
    BY <1>2, <1>3, OneOrder
  <1>5. Len(r) = Len(o) /\ \A k \in 1..Len(r) : r[k].cmd = o[k].cmd
    BY <1>4, CommandsType
  <1>6. ASSUME \A k \in DOMAIN r : r[k].out = OracleOutput(s, r[k].cmd.id)
        PROVE  r = o
    <2>1. DOMAIN r = 1..Len(r) /\ DOMAIN o = 1..Len(o)
      OBVIOUS
    <2>2. ASSUME NEW k \in 1..Len(r)
          PROVE  r[k] = o[k]
      <3>1. r[k] \in Entry /\ o[k] \in Entry
        BY <1>5
      <3>2. o[k] = OracleEntry(s, o[k].cmd.id)
        BY <1>1, <1>5, <2>1 DEF OracleFor
      <3>3. o[k].out = OracleOutput(s, o[k].cmd.id)
        BY <3>2 DEF OracleEntry
      <3>4. r[k].cmd = o[k].cmd /\ r[k].out = o[k].out
        BY <1>5, <1>6, <2>1, <3>3
      <3>5. QED
        BY <3>1, <3>4 DEF Entry
    <2>3. QED
      BY <1>5, <2>2, SeqEqual
  <1>7. QED
    BY <1>1, <1>5, <1>6

-----------------------------------------------------------------------------
(* What the verdict is made of. *)
LEMMA LaborerJudged ==
    ASSUME TypeOK, Placed, EndedInOrder, Judged,
           NEW p \in Proc, LaborerStep(p), UNCHANGED svars
    PROVE  Judged'
  <1>1. lpc[p] \in {"run", "real", "exec"}
    BY LaborerSteps DEF Moves, Ends, Pop
  <1>2. ~AllJoined
    BY <1>1 DEF EndedInOrder
  <1>3. QED
    BY <1>2 DEF Judged, svars, AllJoined

LEMMA ServicerJudged ==
    ASSUME TypeOK, Placed, Held, EndedInOrder, Judged, ServicerStep
    PROVE  Judged'
  <1> DEFINE Seen(n) == \E i \in 1..(n - 1) : script[i].op = "ignore"
  <1>1. CASE UNCHANGED <<ip, script, pc, failed, mIgnore, verdict, mResult, mReData>> /\ pc # "collect"
    BY <1>1 DEF Judged
  <1>2. CASE pc \in {"parse", "wait"} /\ ~Final /\ ip' = ip + 1
             /\ pc' = "parse" /\ UNCHANGED <<script, failed, verdict>>
             /\ mIgnore' = (mIgnore \/ script[ip].op = "ignore")
    <2>1. ip \in Nat /\ ip >= 1
      BY PlaceInScript
    <2>2. 1..(ip' - 1) = 1..(ip - 1) \cup {ip}
      BY <1>2, <2>1
    <2>3. QED
      BY <1>2, <2>2 DEF Judged
  <1>3. CASE pc' \notin {"collect", "judge", "destroy", "done"} /\ verdict = "none"
             /\ UNCHANGED <<ip, script, failed, mIgnore, verdict>>
    BY <1>3 DEF Judged
  <1>4. CASE Load \/ Pwait \/ EndOfScript \/ Flushed \/ LastWaited
    BY <1>3, <1>4 DEF Load, Pwait, EndOfScript, Flushed, LastWaited, At, Judged
  <1>5. CASE LoadFails \/ RunLaborerFails
    BY <1>5 DEF LoadFails, RunLaborerFails, Error, At, Judged
  <1>6. CASE RunLaborer \/ SameLaborer \/ PushP0 \/ PushBuffer \/ Ignore
    BY <1>2, <1>6 DEF RunLaborer, SameLaborer, PushP0, PushBuffer, Ignore, At, TypeOK
  <1>7. CASE Waited
    <2>1. IsPwait(script, ip)
      BY <1>7 DEF Waited, Placed
    <2>2. QED
      BY <1>2, <1>7, <2>1 DEF Waited, IsPwait, TypeOK
  <1>8. CASE Joined
    BY <1>8 DEF Joined, Judged
  <1>9. CASE Ignored
    BY <1>9 DEF Ignored, Judged
  <1>10. CASE Collected
    <2>1. ~failed => \A q \in Proc : mResult[q] = <<>>
      BY <1>10 DEF Collected, Judged, Held
    <2>2. QED
      BY <1>10, <2>1 DEF Collected, Judged, lvars
  <1>11. CASE Judge
    BY <1>11 DEF Judge, Judged, lvars
  <1>12. CASE Destroyed
    BY <1>12 DEF Destroyed, Judged, lvars
  <1>13. ASSUME NEW p \in Proc, Flush(p) \/ Wait(p) \/ EndLaborer(p) \/ Join(p)
         PROVE  Judged'
    BY <1>13 DEF Flush, Wait, EndLaborer, Join, Judged
  <1>14. ASSUME NEW p \in Proc, Collect(p)
         PROVE  Judged'
    BY <1>14 DEF Collect, TakeResult, Judged, TypeOK, LTypeOK
  <1>15. ASSUME NEW p \in Proc, DestroyLaborer(p)
         PROVE  Judged'
    BY <1>1, <1>15 DEF DestroyLaborer, Destroy
  <1>16. ASSUME NEW p \in Proc, DestroyFails(p)
         PROVE  Judged'
    BY <1>16 DEF DestroyFails, Destroy, Judged
  <1>17. QED
    BY <1>4, <1>5, <1>6, <1>7, <1>8, <1>9, <1>10, <1>11, <1>12, <1>13, <1>14, <1>15, <1>16
       DEF ServicerStep

VerdictInv == EndInv /\ Judged

LEMMA VerdictInvariant == Spec => []VerdictInv
  <1>1. Init => Judged
    BY DEF Init, LInit, Judged
  <1>2. EndInv /\ Judged /\ [Next]_vars => Judged'
    <2> SUFFICES ASSUME EndInv, Judged, [Next]_vars PROVE Judged'
      OBVIOUS
    <2> USE DEF EndInv, BarrierInv, OrderInv
    <2>1. CASE ServicerStep
      BY <2>1, ServicerJudged
    <2>2. ASSUME NEW p \in Proc, LaborerStep(p), UNCHANGED svars
          PROVE  Judged'
      BY <2>2, LaborerJudged
    <2>3. CASE UNCHANGED vars
      BY <2>3 DEF vars, lvars, svars, Judged
    <2>4. QED
      BY <2>1, <2>2, <2>3 DEF Next
  <1>3. QED
    BY <1>1, <1>2, EndInvariant, PTL DEF Spec, VerdictInv

-----------------------------------------------------------------------------
(* What was collected is the output, and all of it unless the session died. *)
LEMMA WholeCollected ==
    ASSUME VerdictInv, NEW p \in Proc,
           verdict # "none", ~failed, ~mIgnore
    PROVE  /\ mResult[p] = <<>> /\ cur[p] = <<>>
           /\ mReData[p] \in Seq(Entry) /\ mReData[p] = Output(p)
           /\ ~Dead(p) => InOrder(Commands(mReData[p]), script, p, Len(script))
  <1> USE DEF VerdictInv, EndInv, BarrierInv, OrderInv
  <1>1. pc \in {"destroy", "done"}
    BY DEF Judged
  <1>2. mResult[p] = <<>>
    BY <1>1 DEF Judged
  <1>3. AllJoined /\ Over /\ Final
    BY <1>1 DEF EndedInOrder, AllJoined, Over
  <1>4. cur[p] = <<>> /\ mQuery[p] = <<>>
    BY <1>3 DEF EndedInOrder
  <1>5. mReData[p] \in Seq(Entry) /\ mReData[p] = Output(p)
    BY <1>2, StreamParts, ConcatEmptySeq DEF Output
  <1>6. ASSUME ~Dead(p)
        PROVE  InOrder(Commands(mReData[p]), script, p, Len(script))
    <2>1. queue[p] = <<>>
      BY <1>3, <1>6 DEF EndedInOrder
    <2>2. Commands(Output(p)) \in Seq(Command)
      BY StreamParts
    <2>3. Stream(p) = Commands(Output(p))
      BY <1>4, <2>1, <2>2, ConcatEmptySeq DEF Stream
    <2>4. ip - 1 = Len(script)
      BY <1>3, PlaceInScript DEF Final
    <2>5. QED
      BY <1>5, <2>3, <2>4 DEF CommandsInOrder
  <1>7. QED
    BY <1>2, <1>4, <1>5, <1>6

(* A verdict is about the whole script: unless the run took the error path *)
(* or the case is ignored, what runReal compares with the oracle holds     *)
(* every command of each process, or ends with its session's death.        *)
THEOREM VerdictsComplete == Spec => []VerdictComplete
  <1>1. VerdictInv => VerdictComplete
    <2> SUFFICES ASSUME VerdictInv, verdict # "none", ~failed, ~mIgnore, NEW p \in Proc
                 PROVE  Complete(p)
      BY DEF VerdictComplete
    <2>1. PICK r \in Seq(Entry) : r = mReData[p] /\ r = Output(p)
      BY WholeCollected
    <2>2. CASE Dead(p)
      <3>1. PICK k \in DOMAIN r : r[k].out = "dead" /\ k = Len(r)
        BY <2>1, <2>2 DEF Dead, VerdictInv, EndInv, EndedInOrder
      <3>2. r # <<>>
        BY <3>1
      <3>3. QED
        BY <2>1, <3>1, <3>2 DEF Complete
    <2>3. CASE ~Dead(p)
      <3>1. InOrder(Commands(r), script, p, Len(script))
        BY <2>1, <2>3, WholeCollected
      <3>2. script \in Scripts
        BY DEF VerdictInv, EndInv, BarrierInv, OrderInv, TypeOK
      <3>3. Len(r) = Len(Oracle(script, p))
        BY <3>1, <3>2, WholeOutput
      <3>4. mResult[p] = <<>> /\ cur[p] = <<>>
        BY WholeCollected
      <3>5. QED
        BY <2>1, <3>3, <3>4 DEF Complete
    <2>4. QED
      BY <2>2, <2>3
  <1>2. QED
    BY <1>1, VerdictInvariant, PTL

-----------------------------------------------------------------------------
(* The commands in front of one in execution are those of the output. *)
LEMMA InFront ==
    ASSUME NEW s \in Scripts, NEW p \in Proc, NEW n \in 0..Len(s),
           NEW a \in Seq(Command), NEW c \in Command, NEW b \in Seq(Command),
           InOrder((a \o <<c>>) \o b, s, p, n)
    PROVE  /\ c.id \in 1..n /\ c = CommandAt(s, c.id)
           /\ IsCommand(s, c.id) /\ Owner(s, c.id) = p
           /\ RangeOf(a) = CommandsOf(s, p, c.id - 1)
  <1>0. Len(s) \in Nat
    BY ScriptLength
  <1>1. PICK t \in Seq(Command) : t = (a \o <<c>>) \o b
    <2>1. PICK h \in Seq(Command) : h = a \o <<c>>
      <3>1. a \o <<c>> \in Seq(Command)
        OBVIOUS
      <3>2. QED
        BY <3>1
    <2>2. h \o b \in Seq(Command)
      OBVIOUS
    <2>3. QED
      BY <2>1, <2>2
  <1>2. /\ DOMAIN t = 1..Len(t) /\ Len(t) \in Nat /\ Len(a) \in Nat /\ Len(a) + 1 <= Len(t)
        /\ \A k \in 1..Len(a) : t[k] = a[k]
        /\ t[Len(a) + 1] = c
    <2>1. PICK h \in Seq(Command) : h = a \o <<c>>
      <3>1. a \o <<c>> \in Seq(Command)
        OBVIOUS
      <3>2. QED
        BY <3>1
    <2>2. /\ Len(h) = Len(a) + 1 /\ h[Len(a) + 1] = c /\ Len(a) \in Nat
          /\ \A k \in 1..Len(a) : h[k] = a[k]
      BY <2>1
    <2>3. /\ Len(t) = Len(h) + Len(b) /\ Len(b) \in Nat
          /\ \A k \in 1..Len(h) : t[k] = h[k]
      BY <1>1, <2>1
    <2>4. QED
      BY <2>2, <2>3
  <1>3. Len(a) + 1 \in DOMAIN t /\ \A k \in 1..Len(a) : k \in DOMAIN t
    BY <1>2
  <1>4. /\ \A j, k \in DOMAIN t : j < k => t[j].id < t[k].id
        /\ {t[k] : k \in DOMAIN t} = CommandsOf(s, p, n)
    BY <1>1 DEF InOrder
  <1>5. c \in CommandsOf(s, p, n)
    BY <1>2, <1>3, <1>4
  <1>6. /\ c.id \in 1..n /\ c = CommandAt(s, c.id)
        /\ IsCommand(s, c.id) /\ Owner(s, c.id) = p
    BY <1>5 DEF CommandsOf, CommandAt
  <1>7. ASSUME NEW k \in 1..Len(a)
        PROVE  a[k] \in CommandsOf(s, p, c.id - 1)
    <2>1. a[k].id < c.id
      BY <1>2, <1>3, <1>4
    <2>2. a[k] \in CommandsOf(s, p, n)
      BY <1>2, <1>3, <1>4
    <2>3. PICK i \in 1..n : IsCommand(s, i) /\ Owner(s, i) = p /\ a[k] = CommandAt(s, i)
      BY <2>2 DEF CommandsOf
    <2>4. i \in 1..(c.id - 1)
      BY <1>6, <2>1, <2>3 DEF CommandAt
    <2>5. QED
      BY <2>3, <2>4 DEF CommandsOf
  <1>8. ASSUME NEW d \in CommandsOf(s, p, c.id - 1)
        PROVE  \E k \in 1..Len(a) : a[k] = d
    <2>1. PICK i \in 1..(c.id - 1) : IsCommand(s, i) /\ Owner(s, i) = p /\ d = CommandAt(s, i)
      BY DEF CommandsOf
    <2>2. i \in 1..n /\ d.id = i /\ i < c.id
      BY <1>6, <2>1 DEF CommandAt
    <2>3. d \in CommandsOf(s, p, n)
      BY <2>1, <2>2 DEF CommandsOf
    <2>4. PICK k \in DOMAIN t : t[k] = d
      BY <1>4, <2>3
    <2>5. k # Len(a) + 1
      BY <1>2, <2>2, <2>4, <1>6
    <2>6. ~(Len(a) + 1 < k)
      <3>1. Len(a) + 1 < k => c.id < d.id
        BY <1>2, <1>3, <1>4, <2>4
      <3>2. QED
        BY <3>1, <2>2, <1>6
    <2>7. k \in 1..Len(a)
      BY <1>2, <2>4, <2>5, <2>6
    <2>8. QED
      BY <1>2, <2>4, <2>7
  <1>9. RangeOf(a) = CommandsOf(s, p, c.id - 1)
    <2>1. DOMAIN a = 1..Len(a)
      OBVIOUS
    <2>2. QED
      BY <1>7, <1>8, <2>1 DEF RangeOf
  <1>10. QED
    BY <1>6, <1>9

(* What SKIP is according to a set of commands. *)
SkipsIn(C) == \E c \in C : c.kind = "skip_begin" /\ \A d \in C : d.id >= c.id => d.kind # "skip_end"

LEMMA SkipIsSeen ==
    ASSUME NEW s \in Scripts, NEW p \in Proc, NEW i \in 1..Len(s),
           Owner(s, i) = p, CommandAt(s, i).kind = "sql"
    PROVE  InSkip(s, i) <=> SkipsIn(CommandsOf(s, p, i - 1))
  <1>1. Len(s) \in Nat /\ i \in Nat
    BY ScriptLength
  <1>2. ~IsPwait(s, i) /\ s[i].kind = "sql"
    BY DEF CommandAt
  <1>3. ASSUME InSkip(s, i) PROVE SkipsIn(CommandsOf(s, p, i - 1))
    <2>1. PICK b \in 1..i :
             /\ s[b].op = "cmd" /\ Owner(s, b) = p /\ s[b].kind = "skip_begin"
             /\ \A e \in b..i : s[e].op = "cmd" /\ Owner(s, e) = p => s[e].kind # "skip_end"
      BY <1>3 DEF InSkip
    <2>2. b \in 1..(i - 1) /\ IsCommand(s, b) /\ ~IsPwait(s, b)
      BY <1>1, <1>2, <2>1 DEF IsCommand, IsPwait
    <2>3. CommandAt(s, b) \in CommandsOf(s, p, i - 1)
      BY <2>1, <2>2 DEF CommandsOf
    <2>4. CommandAt(s, b).kind = "skip_begin" /\ CommandAt(s, b).id = b
      BY <2>1, <2>2 DEF CommandAt
    <2>5. ASSUME NEW d \in CommandsOf(s, p, i - 1), d.id >= b
          PROVE  d.kind # "skip_end"
      <3>1. PICK e \in 1..(i - 1) : IsCommand(s, e) /\ Owner(s, e) = p /\ d = CommandAt(s, e)
        BY DEF CommandsOf
      <3>2. e \in b..i
        BY <1>1, <2>5, <3>1, <2>2 DEF CommandAt
      <3>3. QED
        BY <2>1, <3>1, <3>2 DEF CommandAt, IsCommand
    <2>6. QED
      BY <2>3, <2>4, <2>5 DEF SkipsIn
  <1>4. ASSUME SkipsIn(CommandsOf(s, p, i - 1)) PROVE InSkip(s, i)
    <2>1. PICK c \in CommandsOf(s, p, i - 1) :
             /\ c.kind = "skip_begin"
             /\ \A d \in CommandsOf(s, p, i - 1) : d.id >= c.id => d.kind # "skip_end"
      BY <1>4 DEF SkipsIn
    <2>2. PICK b \in 1..(i - 1) : IsCommand(s, b) /\ Owner(s, b) = p /\ c = CommandAt(s, b)
      BY DEF CommandsOf
    <2>3. b \in 1..i /\ c.id = b /\ s[b].op = "cmd" /\ s[b].kind = "skip_begin"
      BY <1>1, <2>1, <2>2 DEF CommandAt, IsCommand
    <2>4. ASSUME NEW e \in b..i, s[e].op = "cmd", Owner(s, e) = p
          PROVE  s[e].kind # "skip_end"
      <3>1. CASE e = i
        BY <3>1, <1>2
      <3>2. CASE e # i
        <4>1. e \in 1..(i - 1) /\ IsCommand(s, e) /\ ~IsPwait(s, e)
          BY <1>1, <2>3, <2>4, <3>2 DEF IsCommand, IsPwait
        <4>2. CommandAt(s, e) \in CommandsOf(s, p, i - 1)
          BY <2>4, <4>1 DEF CommandsOf
        <4>3. CommandAt(s, e).id >= c.id /\ CommandAt(s, e).kind = s[e].kind
          BY <1>1, <2>3, <4>1 DEF CommandAt
        <4>4. QED
          BY <2>1, <4>2, <4>3
      <3>3. QED
        BY <3>1, <3>2
    <2>5. QED
      BY <2>2, <2>3, <2>4 DEF InSkip
  <1>5. QED
    BY <1>3, <1>4

-----------------------------------------------------------------------------
(* An answered command has left what the oracle expects. *)
LEMMA InExecution ==
    ASSUME OrderInv, NEW p \in Proc, NEW c \in Command, cur[p] = <<c>>
    PROVE  /\ c.id \in 1..Len(script) /\ c = CommandAt(script, c.id)
           /\ Owner(script, c.id) = p
           /\ RangeOf(Commands(Output(p))) = CommandsOf(script, p, c.id - 1)
  <1> USE DEF OrderInv
  <1>1. PICK a \in Seq(Command) : a = Commands(Output(p))
    BY StreamParts DEF OrderInv
  <1>2. PICK b \in Seq(Command) : b = queue[p] \o mQuery[p]
    <2>1. queue[p] \in Seq(Command) /\ mQuery[p] \in Seq(Command)
      BY StreamParts
    <2>2. queue[p] \o mQuery[p] \in Seq(Command)
      BY <2>1
    <2>3. QED
      BY <2>2
  <1>3. PICK n \in 0..Len(script) : n = ip - 1
    BY PlaceInScript DEF OrderInv
  <1>4. Stream(p) = (a \o <<c>>) \o b
    <2>1. PICK h \in Seq(Command) : h = a \o <<c>>
      <3>1. a \o <<c>> \in Seq(Command)
        OBVIOUS
      <3>2. QED
        BY <3>1
    <2>2. (h \o queue[p]) \o mQuery[p] = h \o (queue[p] \o mQuery[p])
      <3>1. queue[p] \in Seq(Command) /\ mQuery[p] \in Seq(Command)
        BY StreamParts
      <3>2. \A x, y \in Seq(Command) : (h \o x) \o y = h \o (x \o y)
        <4>1. TAKE x, y \in Seq(Command)
        <4>2. QED
          BY ConcatAssociative, SMTT(60)
      <3>3. QED
        BY <3>1, <3>2
    <2>3. QED
      BY <1>1, <1>2, <2>1, <2>2 DEF Stream
  <1>5. InOrder((a \o <<c>>) \o b, script, p, n)
    BY <1>3, <1>4 DEF OrderInv, CommandsInOrder
  <1>6. script \in Scripts /\ Len(script) \in Nat
    BY PlaceInScript DEF OrderInv
  <1>7. QED
    BY <1>1, <1>5, <1>6, InFront

LEMMA SkippingIsIn ==
    ASSUME TypeOK, NEW p \in Proc
    PROVE  Skipping(p) <=> SkipsIn(RangeOf(Commands(Output(p))))
  BY DEF Skipping, SkipsIn, RangeOf, Commands

(* One more command at the end changes SKIP as its kind says. *)
LEMMA SkipGrows ==
    ASSUME NEW C \in SUBSET Command, NEW c \in Command, \A d \in C : d.id < c.id
    PROVE  SkipsIn(C \cup {c}) <=> IF c.kind \in {"skip_begin", "skip_end"}
                                   THEN c.kind = "skip_begin" ELSE SkipsIn(C)
  <1>1. \A d \in C \cup {c} : d.id \in Nat /\ c.id >= d.id
    BY DEF Command
  <1>2. \A d \in C : ~(d.id >= c.id)
    BY <1>1
  <1>3. CASE c.kind = "skip_begin"
    BY <1>2, <1>3 DEF SkipsIn
  <1>4. CASE c.kind = "skip_end"
    BY <1>1, <1>4 DEF SkipsIn
  <1>5. CASE c.kind \notin {"skip_begin", "skip_end"}
    BY <1>5 DEF SkipsIn
  <1>6. QED
    BY <1>3, <1>4, <1>5

LEMMA LaborerAnswered ==
    ASSUME OrderInv, Answered, NEW p \in Proc, LaborerStep(p), UNCHANGED svars
    PROVE  Answered'
  <1> USE DEF OrderInv
  <1>0. script' = script
    BY DEF svars
  <1>1. CASE Moves(p) \/ Pop(p)
    <2>1. mSbegin' = mSbegin /\ \A q \in Proc : Output(q)' = Output(q)
      BY <1>1 DEF Moves, Pop, Output, svars
    <2>2. \A q \in Proc : Skipping(q)' = Skipping(q)
      BY <2>1 DEF Skipping, Commands
    <2>3. QED
      BY <1>0, <2>1, <2>2 DEF Answered
  <1>2. ASSUME NEW out \in Outputs, Ends(p, out)
        PROVE  Answered'
    <2>1. PICK c \in Command : cur[p] = <<c>> /\ c = Head(cur[p])
      BY <1>2, EndsAppends
    <2>2. PICK e \in Entry : e.cmd = c /\ e.out = out /\ Output(p)' = Append(Output(p), e)
      BY <1>2, <2>1, EndsAppends
    <2>3. \A q \in Proc \ {p} : Output(q)' = Output(q)
      BY <1>2, EndsAppends
    <2>4. \A q \in Proc \ {p} : Skipping(q)' = Skipping(q) /\ mSbegin'[q] = mSbegin[q]
      <3>1. \A q \in Proc \ {p} : mSbegin'[q] = mSbegin[q]
        BY <1>2 DEF Ends, TypeOK, LTypeOK
      <3>2. QED
        BY <2>3, <3>1 DEF Skipping, Commands
    <2>5. PICK r \in Seq(Entry) : r = Output(p)
      BY StreamParts
    <2>6. PICK C \in SUBSET Command :
             C = RangeOf(Commands(r)) /\ C = CommandsOf(script, p, c.id - 1)
      <3>1. Commands(r) \in Seq(Command)
        BY CommandsType
      <3>2. RangeOf(Commands(r)) \in SUBSET Command
        BY <3>1 DEF RangeOf
      <3>3. QED
        BY <2>1, <2>5, <3>2, InExecution
    <2>7. \A d \in C : d.id < c.id
      <3>1. c.id \in Nat
        BY DEF Command
      <3>2. QED
        BY <2>6, <3>1 DEF CommandsOf, CommandAt
    <2>8. Skipping(p)' <=> SkipsIn(C \cup {c})
      <3>1. PICK t \in Seq(Entry) : t = Append(r, e)
        <4>1. Append(r, e) \in Seq(Entry)
          OBVIOUS
        <4>2. QED
          BY <4>1
      <3>2. Output(p)' = t
        BY <2>2, <2>5, <3>1
      <3>3. /\ DOMAIN t = 1..(Len(r) + 1) /\ DOMAIN r = 1..Len(r) /\ Len(r) \in Nat
            /\ \A k \in 1..Len(r) : t[k] = r[k]
            /\ t[Len(r) + 1] = e
        BY <3>1
      <3>4. {t[k].cmd : k \in DOMAIN t} = {r[k].cmd : k \in DOMAIN r} \cup {c}
        BY <2>2, <3>3
      <3>5. C = {r[k].cmd : k \in DOMAIN r}
        BY <2>6 DEF RangeOf, Commands
      <3>6. Skipping(p)' <=> SkipsIn({t[k].cmd : k \in DOMAIN t})
        BY <3>2 DEF Skipping, SkipsIn, Commands
      <3>7. QED
        BY <3>4, <3>5, <3>6
    <2>9. mSbegin[p] <=> SkipsIn(C)
      BY <2>5, <2>6, SkippingIsIn DEF Answered
    <2>10. mSbegin'[p] <=> Skipping(p)'
      BY <1>2, <2>1, <2>7, <2>8, <2>9, SkipGrows DEF Ends, TypeOK, LTypeOK
    <2>11. out \in {"ok", "echo"} => out = OracleOutput(script, c.id)
      <3>1. out \in {"ok", "echo"} => out = IF c.kind = "sql" /\ mSbegin[p] THEN "echo" ELSE "ok"
        BY <1>2, <2>1 DEF Ends
      <3>2. /\ c.id \in 1..Len(script) /\ c = CommandAt(script, c.id)
            /\ Owner(script, c.id) = p
        BY <2>1, InExecution
      <3>3. c.kind = "sql" => (InSkip(script, c.id) <=> SkipsIn(C))
        BY <2>6, <3>2, SkipIsSeen DEF TypeOK
      <3>4. QED
        BY <2>9, <3>1, <3>2, <3>3 DEF OracleOutput
    <2>12. \A k \in DOMAIN Output(p)' : Output(p)'[k].out \in {"ok", "echo"} =>
              Output(p)'[k].out = OracleOutput(script, Output(p)'[k].cmd.id)
      BY <2>2, <2>5, <2>11 DEF Answered
    <2>13. QED
      BY <1>0, <2>3, <2>4, <2>10, <2>12 DEF Answered
  <1>3. QED
    BY <1>1, <1>2, LaborerSteps

LEMMA ServicerAnswered ==
    ASSUME OrderInv, Answered, ServicerStep
    PROVE  Answered'
  <1> USE DEF OrderInv
  <1>1. mSbegin' = mSbegin /\ script' = script
    BY DEF ServicerStep, Load, LoadFails, RunLaborer, RunLaborerFails, SameLaborer, PushP0,
       PushBuffer, Ignore, Pwait, EndOfScript, Flushed, Waited, LastWaited, Joined, Ignored,
       Collected, Judge, Destroyed, Flush, Wait, EndLaborer, Join, DestroyLaborer,
       DestroyFails, Start, PushBack, End, Destroy, Collect, TakeResult, lvars
  <1>2. \A q \in Proc : Output(q)' = Output(q)
    BY ServicerKeepsOutput
  <1>3. \A q \in Proc : Skipping(q)' = Skipping(q)
    BY <1>2 DEF Skipping, Commands
  <1>4. QED
    BY <1>1, <1>2, <1>3 DEF Answered

LEMMA AnsweredInvariant == Spec => []Answered
  <1>1. Init => Answered
    <2> SUFFICES ASSUME Init PROVE Answered
      OBVIOUS
    <2>1. \A p \in Proc : DOMAIN Output(p) = {} /\ ~mSbegin[p]
      <3>1. <<>> \in Seq(Entry) /\ <<>> \o <<>> = <<>>
        BY ConcatEmptySeq
      <3>2. DOMAIN <<>> = {}
        OBVIOUS
      <3>3. QED
        BY <3>1, <3>2 DEF Init, LInit, Output
    <2>2. \A p \in Proc : ~Skipping(p)
      BY <2>1 DEF Skipping
    <2>3. QED
      BY <2>1, <2>2 DEF Answered
  <1>2. OrderInv /\ Answered /\ [Next]_vars => Answered'
    <2> SUFFICES ASSUME OrderInv, Answered, [Next]_vars PROVE Answered'
      OBVIOUS
    <2>1. CASE ServicerStep
      BY <2>1, ServicerAnswered
    <2>2. ASSUME NEW p \in Proc, LaborerStep(p), UNCHANGED svars
          PROVE  Answered'
      BY <2>2, LaborerAnswered
    <2>3. CASE UNCHANGED vars
      <3>1. \A q \in Proc : Output(q)' = Output(q)
        BY <2>3 DEF vars, lvars, svars, Output
      <3>2. \A q \in Proc : Skipping(q)' = Skipping(q)
        BY <3>1 DEF Skipping, Commands
      <3>3. mSbegin' = mSbegin /\ script' = script
        BY <2>3 DEF vars, lvars, svars
      <3>4. QED
        BY <3>1, <3>2, <3>3 DEF Answered
    <2>4. QED
      BY <2>1, <2>2, <2>3 DEF Next
  <1>3. QED
    BY <1>1, <1>2, OrderInvariant, PTL DEF Spec

(* A run in which each session answered and each thread started passes,    *)
(* under every interleaving: the output compared is then the oracle, for   *)
(* every process and every script, SKIP included.                          *)
THEOREM QuietRunsPass == Spec => []QuietRunPasses
  <1>1. VerdictInv /\ Answered => QuietRunPasses
    <2> SUFFICES ASSUME VerdictInv, Answered, verdict # "none", ~failed,
                        \A p \in Proc : \A i \in DOMAIN Output(p) : Good(Output(p)[i]),
                        verdict # "PASS"
                 PROVE  FALSE
      BY DEF QuietRunPasses
    <2> USE DEF VerdictInv, EndInv, BarrierInv, OrderInv
    <2>1. PICK p \in Proc : mReData[p] # Oracle(script, p)
      BY DEF Judged
    <2>2. ~mIgnore
      BY DEF Judged
    <2>3. ~Dead(p)
      BY DEF Dead, Good
    <2>4. PICK r \in Seq(Entry) : r = mReData[p] /\ r = Output(p)
      BY <2>2, WholeCollected
    <2>5. InOrder(Commands(r), script, p, Len(script))
      BY <2>2, <2>3, <2>4, WholeCollected
    <2>6. \A k \in DOMAIN r : r[k].out = OracleOutput(script, r[k].cmd.id)
      BY <2>4 DEF Good, Answered
    <2>7. r = Oracle(script, p)
      BY <2>5, <2>6, WholeOutput DEF TypeOK
    <2>8. QED
      BY <2>1, <2>4, <2>7
  <1>2. QED
    BY <1>1, VerdictInvariant, AnsweredInvariant, PTL

-----------------------------------------------------------------------------
(* The operators of the abstract test case, read in a state of Servicer. *)
BegunBy(p) == Commands(Output(p)) \o cur[p]

LEMMA CaseReads ==
    ASSUME NEW p \in Proc
    PROVE  /\ Case!All(p) = CommandsOf(script, p, Len(script))
           /\ Case!Begun(p) = RangeOf(BegunBy(p))
           /\ Case!Dead(p) <=> Dead(p)
           /\ Case!Finished(p) <=>
                 \/ Dead(p)
                 \/ /\ RangeOf(BegunBy(p)) = CommandsOf(script, p, Len(script))
                    /\ Len(Output(p)) = Len(BegunBy(p))
  <1>1. Case!All(p) = CommandsOf(script, p, Len(script))
    BY DEF Case!All, Case!CommandsOf, CommandsOf, Case!IsCommand, IsCommand, Case!IsPwait,
       IsPwait, Case!Owner, Owner, Case!CommandAt, CommandAt
  <1>2. Case!Begun(p) = RangeOf(BegunBy(p))
    BY DEF Case!Begun, RangeOf, BegunBy
  <1>3. Case!Dead(p) <=> Dead(p)
    BY DEF Case!Dead, Dead
  <1>4. QED
    BY <1>1, <1>2, <1>3 DEF Case!Finished, BegunBy

LEMMA CaseOracle ==
    ASSUME NEW p \in Proc
    PROVE  Case!Oracle(script, p) = Oracle(script, p)
  BY DEF Case!Oracle, Oracle, Case!OracleEntry, OracleEntry, Case!OracleOutput, OracleOutput,
     Case!InSkip, InSkip, Case!IsCommand, IsCommand, Case!IsPwait,
     IsPwait, Case!Owner, Owner, Case!CommandAt, CommandAt

LEMMA CaseScriptReads ==
    /\ Case!IsIgnored(script) <=> IsIgnored(script)
    /\ \A b, p : Case!Barrier(script, b, p) <=> Barrier(script, b, p)
    /\ Case!Outputs = Outputs
  BY DEF Case!IsIgnored, IsIgnored, Case!Barrier, Barrier, Case!IsPwait, IsPwait,
     Case!Outputs, Outputs

-----------------------------------------------------------------------------
(* A step that touches neither the output, nor the command in execution,   *)
(* nor the verdict is invisible.                                           *)
LEMMA Invisible ==
    ASSUME UNCHANGED <<script, verdict, cur>>, \A q \in Proc : Output(q)' = Output(q)
    PROVE  UNCHANGED Case!tvars
  <1>1. \A q \in Proc : Commands(Output(q))' = Commands(Output(q))
    BY DEF Commands
  <1>2. QED
    BY <1>1 DEF Case!tvars

(* What a pop finds in front of the queue is the next of its process. *)
LEMMA PopIsNext ==
    ASSUME VerdictInv, NEW p \in Proc, Pop(p)
    PROVE  \E c \in Command :
              /\ c \in CommandsOf(script, p, Len(script)) \ RangeOf(BegunBy(p))
              /\ c.id \in 1..(ip - 1)
              /\ \A d \in CommandsOf(script, p, Len(script)) \ RangeOf(BegunBy(p)) : c.id <= d.id
              /\ cur[p] = <<>> /\ cur'[p] = <<c>>
  <1> USE DEF VerdictInv, EndInv, BarrierInv, OrderInv
  <1>1. PICK q \in Seq(Command) : q = queue[p] /\ q # <<>>
    BY StreamParts DEF Pop
  <1>2. PICK c \in Command : c = Head(q) /\ cur'[p] = <<c>>
    BY <1>1 DEF Pop, TypeOK, LTypeOK
  <1>3. cur[p] = <<>>
    BY DEF Pop, Placed
  <1>4. PICK a \in Seq(Command) : a = Commands(Output(p)) /\ a = BegunBy(p)
    BY <1>3, StreamParts, ConcatEmptySeq DEF BegunBy
  <1>5. PICK b \in Seq(Command) : b = Tail(q) \o mQuery[p]
    <2>1. Tail(q) \in Seq(Command) /\ mQuery[p] \in Seq(Command)
      BY <1>1, StreamParts
    <2>2. Tail(q) \o mQuery[p] \in Seq(Command)
      BY <2>1
    <2>3. QED
      BY <2>2
  <1>6. Stream(p) = (a \o <<c>>) \o b
    <2>1. (a \o <<>>) \o q = (a \o <<c>>) \o Tail(q)
      BY <1>1, <1>2, PopKeeps
    <2>2. PICK h \in Seq(Command) : h = a \o <<c>>
      <3>1. a \o <<c>> \in Seq(Command)
        OBVIOUS
      <3>2. QED
        BY <3>1
    <2>3. \A x, y \in Seq(Command) : (h \o x) \o y = h \o (x \o y)
      <3>1. TAKE x, y \in Seq(Command)
      <3>2. QED
        BY ConcatAssociative, SMTT(60)
    <2>4. Tail(q) \in Seq(Command) /\ mQuery[p] \in Seq(Command)
      BY <1>1, StreamParts
    <2>5. (h \o Tail(q)) \o mQuery[p] = h \o b
      BY <1>5, <2>3, <2>4
    <2>6. QED
      BY <1>1, <1>3, <1>4, <2>1, <2>2, <2>5 DEF Stream
  <1>7. PICK n \in 0..Len(script) : n = ip - 1
    BY PlaceInScript
  <1>8. InOrder((a \o <<c>>) \o b, script, p, n)
    BY <1>6, <1>7 DEF CommandsInOrder
  <1>9. script \in Scripts /\ Len(script) \in Nat
    BY PlaceInScript
  <1>10. /\ c.id \in 1..n /\ c = CommandAt(script, c.id)
         /\ IsCommand(script, c.id) /\ Owner(script, c.id) = p
         /\ RangeOf(a) = CommandsOf(script, p, c.id - 1)
    BY <1>8, <1>9, InFront
  <1>11. c \in CommandsOf(script, p, Len(script)) \ RangeOf(a)
    <2>1. c.id \in 1..Len(script) /\ c.id \notin 1..(c.id - 1)
      BY <1>7, <1>9, <1>10
    <2>2. QED
      BY <1>10, <2>1 DEF CommandsOf, CommandAt
  <1>12. \A d \in CommandsOf(script, p, Len(script)) \ RangeOf(a) : c.id <= d.id
    BY <1>9, <1>10 DEF CommandsOf, CommandAt
  <1>13. QED
    BY <1>2, <1>3, <1>4, <1>7, <1>10, <1>11, <1>12

(* What a process still has to begin behind the Servicer's place in the    *)
(* script is in its queue or its buffer.                                   *)
LEMMA NotBegun ==
    ASSUME OrderInv, NEW q \in Proc,
           NEW d \in CommandsOf(script, q, Len(script)) \ RangeOf(BegunBy(q)), d.id < ip
    PROVE  \E k \in DOMAIN (queue[q] \o mQuery[q]) : (queue[q] \o mQuery[q])[k] = d
  <1> USE DEF OrderInv
  <1>1. PICK a \in Seq(Command) : a = BegunBy(q)
    BY StreamParts DEF BegunBy
  <1>2. PICK b \in Seq(Command) : b = queue[q] \o mQuery[q]
    <2>1. queue[q] \in Seq(Command) /\ mQuery[q] \in Seq(Command)
      BY StreamParts
    <2>2. queue[q] \o mQuery[q] \in Seq(Command)
      BY <2>1
    <2>3. QED
      BY <2>2
  <1>3. PICK t \in Seq(Command) : t = Stream(q) /\ t = a \o b
    <2>1. \A x, y \in Seq(Command) : (a \o x) \o y = a \o (x \o y)
      <3>1. TAKE x, y \in Seq(Command)
      <3>2. QED
        BY ConcatAssociative, SMTT(60)
    <2>2. QED
      BY <1>1, <1>2, <2>1, StreamParts DEF Stream, BegunBy
  <1>4. d \in CommandsOf(script, q, ip - 1)
    BY PlaceInScript DEF CommandsOf, CommandAt
  <1>5. PICK k \in DOMAIN t : t[k] = d
    BY <1>3, <1>4 DEF CommandsInOrder, InOrder
  <1>6. /\ DOMAIN t = 1..(Len(a) + Len(b)) /\ Len(a) \in Nat /\ Len(b) \in Nat
        /\ DOMAIN a = 1..Len(a) /\ DOMAIN b = 1..Len(b)
        /\ \A j \in 1..Len(a) : t[j] = a[j]
        /\ \A j \in 1..Len(b) : t[Len(a) + j] = b[j]
    BY <1>3
  <1>7. k \notin 1..Len(a)
    BY <1>1, <1>5, <1>6 DEF RangeOf
  <1>8. k - Len(a) \in 1..Len(b) /\ Len(a) + (k - Len(a)) = k
    BY <1>5, <1>6, <1>7
  <1>9. QED
    BY <1>2, <1>5, <1>6, <1>8

-----------------------------------------------------------------------------
(* A pop begins the next command, and the barriers in front of it hold.    *)
LEMMA PopBegins ==
    ASSUME VerdictInv, NEW p \in Proc, Pop(p), UNCHANGED svars
    PROVE  Case!Begin(p)
  <1> USE DEF VerdictInv, EndInv, BarrierInv, OrderInv
  <1>1. PICK c \in Command :
           /\ c \in CommandsOf(script, p, Len(script)) \ RangeOf(BegunBy(p))
           /\ c.id \in 1..(ip - 1)
           /\ \A d \in CommandsOf(script, p, Len(script)) \ RangeOf(BegunBy(p)) : c.id <= d.id
           /\ cur[p] = <<>> /\ cur'[p] = <<c>>
    BY PopIsNext
  <1>2. ~Dead(p)
    BY DEF Pop, EndedInOrder
  <1>3. ~Over
    BY <1>2 DEF Pop, EndedInOrder
  <1>4. Commands(Output(p)) \in Seq(Command) /\ Len(Commands(Output(p))) = Len(Output(p))
    BY StreamParts, CommandsType
  <1>5. Commands(Output(p)) \o cur[p] = Commands(Output(p))
    BY <1>1, <1>4, ConcatEmptySeq
  <1>6. Len(Output(p)) = Len(Commands(Output(p)) \o cur[p])
    BY <1>4, <1>5
  <1>7. ASSUME NEW b \in 1..(c.id - 1), NEW q \in Proc, Barrier(script, b, q), ~Dead(q),
               NEW d \in CommandsOf(script, q, Len(script)) \ RangeOf(BegunBy(q))
        PROVE  d.id >= b
    <2>1. b \in Nat /\ b \in 1..(ip - 1) /\ ip \in Nat /\ c.id \in Nat
      BY <1>1, PlaceInScript
    <2>2. ~mEnd[q]
      BY <1>3, <1>7 DEF EndedInOrder
    <2>3. \A k \in DOMAIN (queue[q] \o mQuery[q]) : (queue[q] \o mQuery[q])[k].id >= b
      BY <1>7, <2>1, <2>2 DEF BarrierHolds
    <2>4. d.id \in Nat
      BY DEF CommandsOf, CommandAt
    <2>5. CASE d.id < ip
      BY <2>3, <2>5, NotBegun
    <2>6. CASE ~(d.id < ip)
      BY <2>1, <2>4, <2>6
    <2>7. QED
      BY <2>5, <2>6
  <1>8. \A q \in Proc : Output(q)' = Output(q)
    BY DEF Pop, Output, svars
  <1>9. \A q \in Proc : Commands(Output(q))' = Commands(Output(q))
    BY <1>8 DEF Commands
  <1>10. \A q \in Proc \ {p} : cur'[q] = cur[q]
    BY DEF Pop, TypeOK, LTypeOK
  <1>11. Commands(Output(p)) \o <<c>> = Append(Commands(Output(p)) \o cur[p], c)
    BY <1>1, <1>4, <1>5, AppendIsConcat
  <1>12. [r \in Proc |-> Commands(Output(r)) \o cur[r]]'
            = [[r \in Proc |-> Commands(Output(r)) \o cur[r]] EXCEPT ![p] = Append(@, c)]
    BY <1>1, <1>9, <1>10, <1>11
  <1>13. [r \in Proc |-> Output(r)]' = [r \in Proc |-> Output(r)]
    BY <1>8
  <1>14. script' = script /\ verdict' = verdict
    BY DEF svars
  <1>15. \A q \in Proc : /\ Case!All(q) = CommandsOf(script, q, Len(script))
                         /\ Case!Begun(q) = RangeOf(BegunBy(q))
                         /\ Case!Dead(q) <=> Dead(q)
    BY CaseReads
  <1>16. c \in Case!All(p) \ Case!Begun(p) /\ \A d \in Case!All(p) \ Case!Begun(p) : c.id <= d.id
    BY <1>1, <1>15
  <1>17. \A b \in 1..(c.id - 1), q \in Proc :
            Case!Barrier(script, b, q) =>
                Case!Dead(q) \/ \A d \in Case!All(q) \ Case!Begun(q) : d.id >= b
    BY <1>7, <1>15, CaseScriptReads
  <1>18. QED
    BY <1>2, <1>6, <1>12, <1>13, <1>14, <1>15, <1>16, <1>17 DEF Case!Begin

(* The end of a command, well or by the death of its session, completes it. *)
LEMMA EndCompletes ==
    ASSUME OrderInv, NEW p \in Proc, NEW out \in Outputs, Ends(p, out), UNCHANGED svars
    PROVE  Case!Complete(p)
  <1> USE DEF OrderInv
  <1>1. PICK c \in Command : cur[p] = <<c>> /\ c = Head(cur[p])
    BY EndsAppends
  <1>2. PICK e \in Entry : e = [cmd |-> c, out |-> out]
    BY DEF Entry
  <1>3. Output(p)' = Append(Output(p), e) /\ \A q \in Proc \ {p} : Output(q)' = Output(q)
    BY <1>1, <1>2, EndsAppends
  <1>4. PICK r \in Seq(Entry) : r = Output(p)
    BY StreamParts
  <1>5. cur'[p] = <<>> /\ \A q \in Proc \ {p} : cur'[q] = cur[q]
    BY DEF Ends, TypeOK, LTypeOK
  <1>6. Commands(Append(r, e)) = Commands(r) \o <<c>>
    BY <1>2, CommandsAppend
  <1>7. PICK a \in Seq(Command) : a = Commands(r) /\ Len(a) = Len(r)
    BY CommandsType
  <1>8. PICK h \in Seq(Command) : h = a \o <<c>> /\ Len(h) = Len(r) + 1 /\ h[Len(h)] = c
    <2>1. a \o <<c>> \in Seq(Command)
      OBVIOUS
    <2>2. Len(a \o <<c>>) = Len(a) + 1 /\ (a \o <<c>>)[Len(a) + 1] = c
      OBVIOUS
    <2>3. QED
      BY <1>7, <2>1, <2>2
  <1>9. (Commands(Output(p)) \o cur[p])' = h /\ Commands(Output(p)) \o cur[p] = h
    <2>1. Commands(Output(p))' = h
      BY <1>3, <1>4, <1>6, <1>7, <1>8 DEF Commands
    <2>2. h \o <<>> = h
      BY ConcatEmptySeq
    <2>3. QED
      BY <1>1, <1>4, <1>5, <1>7, <1>8, <2>1, <2>2
  <1>10. \A q \in Proc : (Commands(Output(q)) \o cur[q])' = Commands(Output(q)) \o cur[q]
    BY <1>3, <1>5, <1>9 DEF Commands
  <1>11. Len(Output(p)) < Len(h) /\ Output(p)' = Append(Output(p), [cmd |-> h[Len(h)], out |-> out])
    BY <1>2, <1>3, <1>4, <1>8
  <1>12. script' = script /\ verdict' = verdict
    BY DEF svars
  <1>13. [q \in Proc |-> Output(q)]' = [[q \in Proc |-> Output(q)] EXCEPT ![p] =
                                           Append(@, [cmd |-> h[Len(h)], out |-> out])]
    BY <1>3, <1>11
  <1>14. [q \in Proc |-> Commands(Output(q)) \o cur[q]]'
            = [q \in Proc |-> Commands(Output(q)) \o cur[q]]
    BY <1>10
  <1>15. QED
    BY <1>9, <1>11, <1>12, <1>13, <1>14, CaseScriptReads DEF Case!Complete

-----------------------------------------------------------------------------
(* When the laborers of a run have been joined, each process has finished. *)
LEMMA AllFinished ==
    ASSUME VerdictInv, NEW p \in Proc, AllJoined
    PROVE  Case!Finished(p)
  <1> USE DEF VerdictInv, EndInv, BarrierInv, OrderInv
  <1>1. SUFFICES ASSUME ~Dead(p)
                 PROVE  /\ RangeOf(BegunBy(p)) = CommandsOf(script, p, Len(script))
                        /\ Len(Output(p)) = Len(BegunBy(p))
    BY CaseReads
  <1>2. Over /\ Final /\ cur[p] = <<>>
    BY DEF AllJoined, Over, EndedInOrder
  <1>3. queue[p] = <<>> /\ mQuery[p] = <<>>
    BY <1>1, <1>2 DEF EndedInOrder
  <1>4. PICK a \in Seq(Command) : a = Commands(Output(p)) /\ Len(a) = Len(Output(p))
    BY StreamParts, CommandsType
  <1>5. BegunBy(p) = a /\ Stream(p) = a
    BY <1>2, <1>3, <1>4, ConcatEmptySeq DEF BegunBy, Stream
  <1>6. ip - 1 = Len(script)
    BY <1>2, PlaceInScript DEF Final
  <1>7. InOrder(a, script, p, Len(script))
    BY <1>5, <1>6 DEF CommandsInOrder
  <1>8. QED
    BY <1>4, <1>5, <1>7 DEF InOrder, RangeOf

(* enqueueData reports once, what TestCase reports. *)
LEMMA JudgeReports ==
    ASSUME VerdictInv, Judge \/ Ignored
    PROVE  Case!Report \/ Case!ReportError
  <1> USE DEF VerdictInv, EndInv, BarrierInv, OrderInv
  <1>1. verdict = "none" /\ script' = script
    BY DEF Judge, Ignored, Judged
  <1>2. \A q \in Proc : Output(q)' = Output(q)
    BY ServicerKeepsOutput DEF ServicerStep
  <1>3. cur' = cur
    BY DEF Judge, Ignored, lvars
  <1>4. [q \in Proc |-> Output(q)]' = [q \in Proc |-> Output(q)]
    BY <1>2
  <1>5. \A q \in Proc : Commands(Output(q))' = Commands(Output(q))
    BY <1>2 DEF Commands
  <1>6. [q \in Proc |-> Commands(Output(q)) \o cur[q]]'
           = [q \in Proc |-> Commands(Output(q)) \o cur[q]]
    BY <1>3, <1>5
  <1>7. CASE Judge /\ failed
    BY <1>1, <1>4, <1>6, <1>7 DEF Judge, Case!ReportError
  <1>8. CASE Judge /\ ~failed
    <2>1. AllJoined /\ ~mIgnore
      BY <1>8 DEF Judge, AllJoined, Judged
    <2>2. \A q \in Proc : Case!Finished(q)
      BY <2>1, AllFinished
    <2>3. \A q \in Proc : mReData[q] = Output(q)
      <3>1. \A q \in Proc : mResult[q] = <<>> /\ mReData[q] \in Seq(Entry)
        BY <1>8, <2>1, StreamParts DEF Judge, Judged
      <3>2. QED
        BY <3>1, ConcatEmptySeq DEF Output
    <2>4. ~IsIgnored(script)
      <3>1. ip - 1 = Len(script) /\ DOMAIN script = 1..Len(script)
        BY <2>1, PlaceInScript DEF AllJoined, Over, EndedInOrder, Final
      <3>2. QED
        BY <2>1, <3>1 DEF Judged, IsIgnored
    <2>5. (\A q \in Proc : mReData[q] = Oracle(script, q))
             <=> \A q \in Proc : Output(q) = Case!Oracle(script, q)
      BY <2>3, CaseOracle
    <2>6. verdict' \in IF \A q \in Proc : Output(q) = Case!Oracle(script, q) THEN {"PASS"}
                       ELSE IF Case!IsIgnored(script) THEN {"PASS"}
                       ELSE {"FAIL", "FATAL"}
      BY <1>8, <2>4, <2>5, CaseScriptReads DEF Judge
    <2>7. Case!Report
      BY <1>1, <1>4, <1>6, <2>2, <2>6 DEF Case!Report
    <2>8. QED
      BY <2>7
  <1>9. CASE Ignored
    <2>1. AllJoined /\ mIgnore
      BY <1>9 DEF Ignored, AllJoined
    <2>2. \A q \in Proc : Case!Finished(q)
      BY <2>1, AllFinished
    <2>3. Case!IsIgnored(script)
      <3>1. DOMAIN script = 1..Len(script) /\ \A i \in 1..(ip - 1) : i \in 1..Len(script)
        BY PlaceInScript
      <3>2. QED
        BY <2>1, <3>1, CaseScriptReads DEF Judged, IsIgnored
    <2>4. Case!Report
      BY <1>1, <1>4, <1>6, <1>9, <2>2, <2>3 DEF Ignored, Case!Report
    <2>5. QED
      BY <2>4
  <1>10. QED
    BY <1>7, <1>8, <1>9

-----------------------------------------------------------------------------
(* The run of the threads is a run of the abstract test case, for every    *)
(* set of processes, scripts and faults: commands begin in the order of    *)
(* the script and behind its barriers, each leaves one entry, and the      *)
(* verdict is about all of them.                                           *)
THEOREM ServicerImplementsTestCase == Spec => ImplementsTestCase
  <1>1. Init => Case!Init
    <2> SUFFICES ASSUME Init PROVE Case!Init
      OBVIOUS
    <2>1. \A q \in Proc : mReData[q] = <<>> /\ mResult[q] = <<>> /\ cur[q] = <<>>
      BY DEF Init, LInit
    <2>2. <<>> \o <<>> = <<>> /\ Commands(<<>>) = <<>>
      BY DEF Commands
    <2>3. \A q \in Proc : Output(q) = <<>> /\ Commands(Output(q)) \o cur[q] = <<>>
      BY <2>1, <2>2 DEF Output
    <2>4. script \in Scripts /\ verdict = "none"
      BY DEF Init
    <2>5. QED
      BY <2>3, <2>4 DEF Case!Init
  <1>2. VerdictInv /\ [Next]_vars => [Case!Next]_(Case!tvars)
    <2> SUFFICES ASSUME VerdictInv, [Next]_vars PROVE Case!Next \/ UNCHANGED Case!tvars
      OBVIOUS
    <2> USE DEF VerdictInv, EndInv, BarrierInv, OrderInv
    <2>1. CASE Judge \/ Ignored
      BY <2>1, JudgeReports DEF Case!Next
    <2>2. CASE ServicerStep /\ ~Judge /\ ~Ignored
      <3>1. UNCHANGED <<script, verdict, cur>>
        BY <2>2 DEF ServicerStep, Load, LoadFails, RunLaborer, RunLaborerFails, SameLaborer,
           PushP0, PushBuffer, Ignore, Pwait, EndOfScript, Flushed, Waited, LastWaited,
           Joined, Collected, Destroyed, Flush, Wait, EndLaborer, Join, DestroyLaborer,
           DestroyFails, Start, PushBack, End, Destroy, Collect, TakeResult, lvars
      <3>2. \A q \in Proc : Output(q)' = Output(q)
        BY <2>2, ServicerKeepsOutput
      <3>3. QED
        BY <3>1, <3>2, Invisible
    <2>3. ASSUME NEW p \in Proc, LaborerStep(p), UNCHANGED svars
          PROVE  Case!Next \/ UNCHANGED Case!tvars
      <3>1. CASE Moves(p)
        <4>1. UNCHANGED <<script, verdict, cur>> /\ \A q \in Proc : Output(q)' = Output(q)
          BY <2>3, <3>1 DEF Moves, Output, svars
        <4>2. QED
          BY <4>1, Invisible
      <3>2. CASE Pop(p)
        BY <2>3, <3>2, PopBegins DEF Case!Next
      <3>3. ASSUME NEW out \in Outputs, Ends(p, out)
            PROVE  Case!Next
        BY <2>3, <3>3, EndCompletes DEF Case!Next
      <3>4. QED
        BY <2>3, <3>1, <3>2, <3>3, LaborerSteps
    <2>4. CASE UNCHANGED vars
      <3>1. UNCHANGED <<script, verdict, cur>> /\ \A q \in Proc : Output(q)' = Output(q)
        BY <2>4 DEF vars, lvars, svars, Output
      <3>2. QED
        BY <3>1, Invisible
    <2>5. QED
      BY <2>1, <2>2, <2>3, <2>4 DEF Next
  <1>3. QED
    BY <1>1, <1>2, VerdictInvariant, PTL DEF Spec, ImplementsTestCase, Case!Spec
=============================================================================
