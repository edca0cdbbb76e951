-------------------------- MODULE RemoteSystemProofs --------------------------
(***************************************************************************)
(* Host and agent stay in step on every connection, and SUCCESS is true of *)
(* the other machine: theorems about RemoteSystem for every number of      *)
(* laborers, commands, blocks and limits.                                  *)
(***************************************************************************)
EXTENDS RemoteSystem, SequenceTheorems, TLAPS

-----------------------------------------------------------------------------
(* What can be taken from and added to a line with few messages. *)
LEMMA OneMessage ==
    ASSUME NEW m \in Message
    PROVE  /\ <<m>> \in Seq(Message) /\ <<>> \in Seq(Message)
           /\ <<m>> # <<>> /\ Head(<<m>>) = m /\ Tail(<<m>>) = <<>>
           /\ Append(<<>>, m) = <<m>> /\ <<>> \o <<m>> = <<m>>
  OBVIOUS

LEMMA TwoMessages ==
    ASSUME NEW m \in Message, NEW n \in Message
    PROVE  /\ <<m, n>> \in Seq(Message)
           /\ <<m, n>> # <<>> /\ Head(<<m, n>>) = m /\ Tail(<<m, n>>) = <<n>>
           /\ <<>> \o <<m, n>> = <<m, n>> /\ <<m>> \o <<n>> = <<m, n>>
  <1>1. <<m, n>> \in Seq(Message)
    OBVIOUS
  <1>2. <<m, n>> # <<>> /\ Head(<<m, n>>) = m
    OBVIOUS
  <1>3. Tail(<<m, n>>) = <<n>>
    OBVIOUS
  <1>4. <<>> \o <<m, n>> = <<m, n>>
    BY <1>1, ConcatEmptySeq
  <1>5. <<m>> \o <<n>> = <<m, n>>
    <2>1. <<m>> \in Seq(Message) /\ <<n>> \in Seq(Message) /\ Len(<<m>>) = 1 /\ Len(<<n>>) = 1
      OBVIOUS
    <2>2. <<m>> \o <<n>> \in Seq(Message) /\ Len(<<m>> \o <<n>>) = 2 /\ Len(<<m, n>>) = 2
      BY <2>1
    <2>3. (<<m>> \o <<n>>)[1] = m /\ (<<m>> \o <<n>>)[2] = n
      BY <2>1
    <2>4. \A k \in 1..2 : (<<m>> \o <<n>>)[k] = <<m, n>>[k]
      BY <2>3
    <2>5. QED
      BY <1>1, <2>2, <2>4, SeqEqual
  <1>6. QED
    BY <1>1, <1>2, <1>3, <1>4, <1>5

(* The messages the two sides send. *)
LEMMA MessageType ==
    ASSUME NEW t \in Wire, NEW n \in Nat
    PROVE  /\ Msg(t, n) \in Message
           /\ Msg(t, n).type = t /\ Msg(t, n).size = n
  BY DEF Msg, Message

(* A request's header says a number of blocks, or 0 or 1. *)
LEMMA SizesAreBlocks ==
    ASSUME NEW o \in Operations
    PROVE  Sizes(o) \subseteq Blocks /\ Blocks \subseteq Nat
  <1>1. 0 \in Blocks /\ 1 \in Blocks /\ Blocks \subseteq Nat
    BY BoundsAssumption DEF Blocks
  <1>2. QED
    BY <1>1 DEF Sizes

-----------------------------------------------------------------------------
(* A step of a laborer keeps the types. *)
LEMMA SendTyped ==
    ASSUME TypeOK, NEW p \in Proc, NEW t \in Wire, NEW n \in Nat, Send(p, Msg(t, n))
    PROVE  toAgent' \in [Proc -> Seq(Message)]
  <1>1. Msg(t, n) \in Message
    BY MessageType
  <1>2. toAgent \in [Proc -> Seq(Message)]
    BY DEF TypeOK
  <1>3. QED
    BY <1>1, <1>2 DEF Send

LEMMA ReceiveTyped ==
    ASSUME TypeOK, NEW p \in Proc, Receives(p), Taken(p)
    PROVE  /\ toHost' \in [Proc -> Seq(Message)]
           /\ Received(p) \in Message /\ Received(p).size \in Nat /\ Received(p).type \in Wire
  <1>1. toHost \in [Proc -> Seq(Message)] /\ toHost[p] \in Seq(Message) /\ toHost[p] # <<>>
    BY DEF TypeOK, Receives
  <1>2. Head(toHost[p]) \in Message /\ Tail(toHost[p]) \in Seq(Message)
    BY <1>1
  <1>3. QED
    BY <1>1, <1>2 DEF Taken, Received, Message

LEMMA LaborerTyped ==
    ASSUME TypeOK, NEW p \in Proc, LaborerStep(p)
    PROVE  TypeOK'
  <1> USE DEF TypeOK, Go, Returns, HostPlaces, Results, avars
  <1>0. limit' = limit /\ count[p] + 1 \in Nat /\ left[p] - 1 \in Int
    BY DEF LaborerStep
  <1>c. Counted(p) => count' \in [Proc -> Nat]
    BY <1>0 DEF Counted
  <1>1. CASE LogonRsystem(p)
    <2>1. Append(backlog, p) \in Seq(Proc)
      OBVIOUS
    <2>2. QED
      BY <1>0, <1>1, <2>1, <1>c DEF LogonRsystem, ConnectServer
  <1>2. CASE \/ ExecuteFails(p) \/ GetFails(p) \/ PutFails(p) \/ NothingAsked(p) \/ RecvFails(p)
             \/ PutReadFails(p) \/ Join(p)
    BY <1>0, <1>c, <1>2 DEF ExecuteFails, GetFails, PutFails, NothingAsked, NotSent, RecvFails,
       PutReadFails, Join, Operations
  <1>3. ASSUME NEW o \in Ops, Request(p, o)
        PROVE  TypeOK'
    <2>1. o \in Operations /\ o \in Wire
      BY OpsAssumption DEF Wire
    <2>2. \A n \in Sizes(o) : n \in Nat
      BY <2>1, SizesAreBlocks
    <2>3. toAgent' \in [Proc -> Seq(Message)] /\ left' \in [Proc -> Int]
      BY <1>3, <2>1, <2>2, SendTyped DEF Request
    <2>4. QED
      BY <1>0, <1>c, <1>3, <2>1, <2>3 DEF Request
  <1>4. CASE ExecuteOpt(p) \/ GetBlock(p)
    <2>1. toHost' \in [Proc -> Seq(Message)]
      BY <1>4, ReceiveTyped DEF ExecuteOpt, GetBlock
    <2>2. toAgent' \in [Proc -> Seq(Message)]
      BY <1>4, SendTyped DEF ExecuteOpt, GetBlock, Wire
    <2>3. left' \in [Proc -> Int]
      <3>1. left' = left \/ left' = [left EXCEPT ![p] = @ - 1]
        BY <1>4 DEF ExecuteOpt, GetBlock
      <3>2. QED
        BY <1>0, <3>1
    <2>4. QED
      BY <1>0, <1>4, <2>1, <2>2, <2>3 DEF ExecuteOpt, GetBlock
  <1>5. CASE ManageOpt(p) \/ GetOpt(p) \/ Got(p) \/ PutOpt(p) \/ PutAck(p) \/ Disconnect(p)
    <2>1. toHost' \in [Proc -> Seq(Message)] /\ Received(p).size \in Int
      <3>1. Receives(p) /\ Taken(p)
        BY <1>5 DEF ManageOpt, GetOpt, Got, PutOpt, PutAck, Disconnect
      <3>2. toHost' \in [Proc -> Seq(Message)] /\ Received(p).size \in Nat
        BY <3>1, ReceiveTyped
      <3>3. QED
        BY <3>2
    <2>2. CASE ManageOpt(p) \/ Got(p)
      <3>1. CopyRc(Received(p).type) \in Results
        BY DEF CopyRc
      <3>2. PICK rc \in Results : Returns(p, rc)
        BY <2>2, <3>1 DEF ManageOpt, Got
      <3>3. QED
        BY <1>0, <2>1, <2>2, <3>2 DEF ManageOpt, Got
    <2>3. CASE GetOpt(p)
      <3>1. left' \in [Proc -> Int]
        BY <2>1, <2>3 DEF GetOpt
      <3>2. QED
        BY <1>0, <2>1, <2>3, <3>1 DEF GetOpt
    <2>4. CASE PutOpt(p) \/ PutAck(p)
      BY <1>0, <2>1, <2>4 DEF PutOpt, PutAck
    <2>5. CASE Disconnect(p)
      <3>1. /\ hpc' = [hpc EXCEPT ![p] = "idle"] /\ \E rc \in Results : result' = [result EXCEPT ![p] = rc]
            /\ UNCHANGED <<count, op, left, mRsysFds, toAgent, backlog, avars>>
        BY <2>5 DEF Disconnect
      <3>2. conn' \in [Proc -> {"none", "open", "reset", "closed", "left"}]
        BY <2>5 DEF Disconnect
      <3>3. QED
        BY <1>0, <2>1, <3>1, <3>2
    <2>6. QED
      BY <1>5, <2>2, <2>3, <2>4, <2>5
  <1>6. CASE PutBlock(p) \/ Destroy(p)
    <2>1. toAgent' \in [Proc -> Seq(Message)]
      BY <1>6, SendTyped DEF PutBlock, Destroy, Wire, Operations
    <2>2. CASE PutBlock(p)
      <3>1. left' \in [Proc -> Int]
        BY <1>0, <2>2 DEF PutBlock
      <3>2. hpc' \in [Proc -> HostPlaces] /\ result' \in [Proc -> Results]
        BY <2>2 DEF PutBlock
      <3>3. QED
        BY <1>0, <2>1, <2>2, <3>1, <3>2 DEF PutBlock
    <2>3. CASE Destroy(p)
      BY <1>0, <2>1, <2>3 DEF Destroy
    <2>4. QED
      BY <1>6, <2>2, <2>3
  <1>7. CASE Destroyed(p)
    <2>1. toHost' \in [Proc -> Seq(Message)]
      BY <1>7, ReceiveTyped DEF Destroyed
    <2>2. QED
      BY <1>0, <1>7, <2>1 DEF Destroyed
  <1>8. QED
    BY <1>1, <1>2, <1>3, <1>4, <1>5, <1>6, <1>7 DEF LaborerStep

(* A step of the agent keeps the types. *)
LEMMA AgentTyped ==
    ASSUME TypeOK, AgentStep
    PROVE  TypeOK'
  <1> USE DEF TypeOK, AgentPlaces, hvars
  <1>0. limit' = limit /\ aleft - 1 \in Int
    BY DEF AgentStep
  <1>1. Proc \cap {Nobody} = {} /\ (served # Nobody => served \in Proc)
    BY ProcAssumption DEF Nobody
  <1>2. ASSUME NEW ms \in Seq(Message), Answers(ms)
        PROVE  toHost' \in [Proc -> Seq(Message)]
    <2>1. \A q \in Proc : toHost[q] \o ms \in Seq(Message)
      BY <1>2
    <2>2. QED
      BY <1>2, <2>1 DEF Answers
  <1>3. ASSUME Took, toAgent[served] # <<>>, served \in Proc
        PROVE  toAgent' \in [Proc -> Seq(Message)]
    BY <1>3 DEF Took
  <1>4. \A yes \in BOOLEAN : Ok(yes) => did' \in [Proc -> {"none", "yes", "no"}]
    BY DEF Ok
  <1>5. \A t \in Wire, n \in Nat : <<Msg(t, n)>> \in Seq(Message)
    BY MessageType
  <1>6. \A t, u \in Wire, n \in Nat : <<Msg(t, n), Msg(u, 0)>> \in Seq(Message)
    <2>1. \A t, u \in Wire, n \in Nat : Msg(t, n) \in Message /\ Msg(u, 0) \in Message
      BY MessageType
    <2>2. QED
      BY <2>1
  <1>7. Blocks \subseteq Nat /\ {"SUCCESS", "FAILURE", "MESSAGE", "info", "block", "stray", "QUIT", "TERMINATE"} \subseteq Wire
    BY DEF Blocks, Wire, Operations
  <1>8. CASE Accept
    <2>1. backlog \in Seq(Proc) /\ backlog # <<>>
      BY <1>8 DEF Accept
    <2>2. Head(backlog) \in Proc /\ Tail(backlog) \in Seq(Proc)
      BY <2>1
    <2>3. QED
      BY <1>0, <1>8, <2>2 DEF Accept
  <1>9. CASE HandleFile \/ CopyFile \/ Exec \/ GetFile \/ PutFile
    <2>1. served \in Proc /\ toAgent' \in [Proc -> Seq(Message)]
      BY <1>1, <1>3, <1>9 DEF HandleFile, CopyFile, Exec, GetFile, PutFile, AtPlace, Asked
    <2>2. toHost' \in [Proc -> Seq(Message)]
      <3>1. CASE HandleFile \/ CopyFile
        <4>1. PICK ok \in BOOLEAN : Answered(ok)
          BY <3>1 DEF HandleFile, CopyFile
        <4>2. PICK t \in {"SUCCESS", "FAILURE"} : Answers(<<Msg(t, 0)>>)
          BY <4>1 DEF Answered
        <4>3. QED
          BY <1>2, <1>5, <1>7, <4>2
      <3>2. CASE Exec \/ GetFile \/ PutFile
        BY <1>2, <1>5, <1>6, <1>7, <3>2 DEF Exec, GetFile, PutFile
      <3>3. QED
        BY <1>9, <3>1, <3>2
    <2>3. did' \in [Proc -> {"none", "yes", "no"}]
      BY <1>4, <1>9 DEF HandleFile, CopyFile, Exec, GetFile, PutFile
    <2>4. Head(toAgent[served]).size \in Nat
      <3>1. toAgent[served] \in Seq(Message) /\ toAgent[served] # <<>>
        BY <1>9, <2>1 DEF HandleFile, CopyFile, Exec, GetFile, PutFile, Asked
      <3>2. Head(toAgent[served]) \in Message
        BY <3>1
      <3>3. QED
        BY <3>2 DEF Message
    <2>5. aleft' \in Int /\ apc' \in AgentPlaces
      <3>1. aleft \in Int /\ apc \in AgentPlaces /\ \A n \in Blocks \cup {0} : n \in Int
        BY <1>7
      <3>2. CASE HandleFile \/ CopyFile
        BY <3>1, <3>2 DEF HandleFile, CopyFile
      <3>3. CASE Exec
        BY <3>1, <3>3 DEF Exec
      <3>4. CASE GetFile
        BY <3>1, <3>4 DEF GetFile
      <3>5. CASE PutFile
        <4>1. Head(toAgent[served]).size \in Int
          BY <2>4
        <4>2. QED
          BY <3>1, <3>5, <4>1 DEF PutFile
      <3>6. QED
        BY <1>9, <3>2, <3>3, <3>4, <3>5
    <2>6. QED
      BY <1>0, <1>9, <2>1, <2>2, <2>3, <2>5 DEF HandleFile, CopyFile, Exec, GetFile, PutFile
  <1>10. CASE ExecAck \/ BlockAcknowledged \/ WriteBlock \/ WriteFails \/ PutEnds
    <2>1. served \in Proc /\ toAgent' \in [Proc -> Seq(Message)]
      BY <1>1, <1>3, <1>10 DEF ExecAck, BlockAcknowledged, WriteBlock, WriteFails,
         PutEnds, AtPlace, Asked
    <2>2. toHost' \in [Proc -> Seq(Message)]
      BY <1>2, <1>5, <1>6, <1>7, <1>10 DEF ExecAck, BlockAcknowledged, WriteBlock, WriteFails, PutEnds
    <2>3. did' \in [Proc -> {"none", "yes", "no"}]
      BY <1>4, <1>10 DEF ExecAck, BlockAcknowledged, WriteBlock, WriteFails, PutEnds
    <2>4. QED
      BY <1>0, <1>10, <2>1, <2>2, <2>3 DEF ExecAck, BlockAcknowledged, WriteBlock, WriteFails, PutEnds
  <1>11. CASE ExecMessage \/ ExecEnds \/ SendBlock \/ GetReadFails
    <2>1. toHost' \in [Proc -> Seq(Message)]
      BY <1>2, <1>5, <1>7, <1>11 DEF ExecMessage, ExecEnds, SendBlock, GetReadFails
    <2>2. did' \in [Proc -> {"none", "yes", "no"}]
      BY <1>4, <1>11 DEF ExecMessage, ExecEnds, SendBlock, GetReadFails
    <2>3. QED
      BY <1>0, <1>11, <2>1, <2>2 DEF ExecMessage, ExecEnds, SendBlock, GetReadFails
  <1>12. CASE Quit \/ Terminate
    <2>1. served \in Proc /\ toAgent' \in [Proc -> Seq(Message)]
      BY <1>1, <1>3, <1>12 DEF Quit, Terminate, AtPlace, Asked
    <2>2. toHost' \in [Proc -> Seq(Message)]
      BY <1>2, <1>5, <1>7, <1>12 DEF Quit, Terminate
    <2>3. conn' \in [Proc -> {"none", "open", "reset", "closed", "left"}]
      <3>1. CASE Quit
        BY <3>1 DEF Quit
      <3>2. CASE Terminate
        BY <3>2 DEF Terminate
      <3>3. QED
        BY <1>12, <3>1, <3>2
    <2>4. <<>> \in Seq(Proc)
      OBVIOUS
    <2>5. QED
      BY <1>0, <1>12, <2>1, <2>2, <2>3, <2>4 DEF Quit, Terminate
  <1>13. QED
    BY <1>8, <1>9, <1>10, <1>11, <1>12 DEF AgentStep

-----------------------------------------------------------------------------
(* The agent's queue. *)
LEMMA QueueParts ==
    ASSUME TypeOK
    PROVE  /\ DOMAIN backlog = 1..Len(backlog) /\ Len(backlog) \in Nat
           /\ served # Nobody => served \in Proc
           /\ Nobody \notin Proc
  BY ProcAssumption DEF TypeOK, Nobody

LEMMA LaborerQueue ==
    ASSUME TypeOK, Queue, NEW p \in Proc, LaborerStep(p)
    PROVE  Queue'
  <1>1. CASE LogonRsystem(p) /\ apc # "exited"
    <2>1. /\ ~mRsysFds[p] /\ backlog' = Append(backlog, p)
          /\ mRsysFds' = [mRsysFds EXCEPT ![p] = TRUE]
          /\ conn' = [conn EXCEPT ![p] = "open"]
          /\ UNCHANGED <<hpc, op, count, apc, served>>
      BY <1>1 DEF LogonRsystem, ConnectServer, avars
    <2>2. /\ DOMAIN backlog' = 1..(Len(backlog) + 1) /\ Len(backlog) \in Nat
          /\ DOMAIN backlog = 1..Len(backlog)
          /\ \A i \in 1..Len(backlog) : backlog'[i] = backlog[i]
          /\ backlog'[Len(backlog) + 1] = p
      BY <2>1 DEF TypeOK
    <2>3. served # p /\ \A i \in 1..Len(backlog) : backlog[i] # p
      BY <2>1, <2>2 DEF Queue, Queued
    <2>4. \A i, j \in DOMAIN backlog' : backlog'[i] = backlog'[j] => i = j
      BY <2>2, <2>3 DEF Queue
    <2>5. \A i \in DOMAIN backlog' : backlog'[i] # served
      BY <2>2, <2>3 DEF Queue
    <2>6. \A q \in Proc : ~mRsysFds'[q] => conn'[q] = "none" /\ served # q /\ ~Queued(q)'
      <3>1. ASSUME NEW q \in Proc, ~mRsysFds'[q]
            PROVE  conn'[q] = "none" /\ served # q /\ ~Queued(q)'
        <4>1. q # p /\ ~mRsysFds[q] /\ conn'[q] = conn[q]
          BY <2>1, <3>1 DEF TypeOK
        <4>2. conn[q] = "none" /\ served # q /\ \A i \in 1..Len(backlog) : backlog[i] # q
          BY <2>2, <4>1 DEF Queue, Queued
        <4>3. \A i \in DOMAIN backlog' : backlog'[i] # q
          BY <2>2, <4>1, <4>2
        <4>4. QED
          BY <4>1, <4>2, <4>3 DEF Queued
      <3>2. QED
        BY <3>1
    <2>7. \A q \in Proc : mRsysFds[q] => mRsysFds'[q]
      BY <2>1 DEF TypeOK
    <2>8. QED
      BY <1>1, <2>1, <2>4, <2>5, <2>6, <2>7 DEF Queue
  <1>2. ASSUME UNCHANGED <<backlog, apc, served, mRsysFds>>,
               \A q \in Proc : op'[q] # "none" => count'[q] > 0,
               \A q \in Proc : hpc'[q] \in {"idle", "joined", "destroyed"} \/ mRsysFds[q],
               \A q \in Proc : ~mRsysFds[q] => conn'[q] = conn[q]
        PROVE  Queue'
    <2>1. \A q \in Proc : Queued(q)' <=> Queued(q)
      BY <1>2 DEF Queued
    <2>2. QED
      BY <1>2, <2>1 DEF Queue
  <1>3. \A q \in Proc : count[q] \in Nat
    BY DEF TypeOK
  <1>4. CASE LogonRsystem(p) /\ apc = "exited"
    <2>1. UNCHANGED <<backlog, apc, served, mRsysFds, hpc, conn, op>> /\ Counted(p)
      BY <1>4 DEF LogonRsystem, ConnectServer, avars
    <2>2. \A q \in Proc : count[q] > 0 => count'[q] > 0
      BY <1>3, <2>1 DEF Counted, TypeOK
    <2>3. QED
      BY <1>2, <2>1, <2>2 DEF Queue
  <1>5. ASSUME NEW o \in Operations \cup {"none"}, UNCHANGED <<backlog, apc, served, mRsysFds, conn>>,
               mRsysFds[p], Counted(p), op' = [op EXCEPT ![p] = o],
               \A q \in Proc \ {p} : hpc'[q] = hpc[q]
        PROVE  Queue'
    <2>1. \A q \in Proc : op'[q] # "none" => count'[q] > 0
      BY <1>3, <1>5 DEF Counted, TypeOK, Queue
    <2>2. QED
      BY <1>2, <1>5, <2>1 DEF Queue
  <1>6. \A place : Go(p, place) => \A q \in Proc \ {p} : hpc'[q] = hpc[q]
    BY DEF Go, TypeOK
  <1>7. ASSUME NEW o \in Ops, Request(p, o)
        PROVE  Queue'
    BY <1>5, <1>6, <1>7, OpsAssumption DEF Request, Returns
  <1>8. CASE ExecuteFails(p) \/ GetFails(p) \/ PutFails(p) \/ NothingAsked(p)
    <2>1. PICK o \in {"EXECUTE", "GET", "PUT", "none"}, rc \in Results : NotSent(p, o, rc)
      BY <1>8 DEF ExecuteFails, GetFails, PutFails, NothingAsked, Results
    <2>2. o \in Operations \cup {"none"}
      BY DEF Operations
    <2>3. QED
      BY <1>5, <1>6, <2>1, <2>2 DEF NotSent, Returns, avars
  <1>9. ASSUME UNCHANGED <<backlog, avars, mRsysFds, op, count>>,
               mRsysFds[p] \/ (conn' = conn /\ hpc'[p] \in {"idle", "joined", "destroyed"}),
               \A q \in Proc \ {p} : hpc'[q] = hpc[q] /\ conn'[q] = conn[q]
        PROVE  Queue'
    BY <1>2, <1>9 DEF Queue, avars
  <1>10. CASE \/ RecvFails(p) \/ ExecuteOpt(p) \/ ManageOpt(p) \/ GetOpt(p) \/ GetBlock(p)
              \/ Got(p) \/ PutOpt(p) \/ PutBlock(p) \/ PutAck(p) \/ Disconnect(p)
              \/ PutReadFails(p) \/ Destroyed(p)
    <2>1. mRsysFds[p]
      BY <1>10 DEF RecvFails, ExecuteOpt, ManageOpt, GetOpt, GetBlock, Got, PutOpt, PutBlock,
         PutReadFails, PutAck, Disconnect, Destroyed, Queue
    <2>2. \A q \in Proc \ {p} : hpc'[q] = hpc[q] /\ conn'[q] = conn[q]
      BY <1>6, <1>10 DEF RecvFails, ExecuteOpt, ManageOpt, GetOpt, GetBlock, Got, PutOpt, PutBlock,
         PutReadFails, PutAck, Disconnect, Destroyed, Returns, TypeOK
    <2>3. UNCHANGED <<backlog, avars, mRsysFds, op, count>>
      BY <1>10 DEF RecvFails, ExecuteOpt, ManageOpt, GetOpt, GetBlock, Got, PutOpt, PutBlock,
         PutReadFails, PutAck, Disconnect, Destroyed
    <2>4. QED
      BY <1>9, <2>1, <2>2, <2>3
  <1>11. CASE Join(p) \/ Destroy(p)
    BY <1>6, <1>9, <1>11 DEF Join, Destroy, Go, TypeOK
  <1>12. QED
    BY <1>1, <1>4, <1>7, <1>8, <1>10, <1>11 DEF LaborerStep

LEMMA AgentQueue ==
    ASSUME TypeOK, Queue, AgentStep
    PROVE  Queue'
  <1> USE DEF hvars
  <1>1. CASE Accept
    <2>1. /\ backlog \in Seq(Proc) /\ backlog # <<>>
          /\ served' = Head(backlog) /\ backlog' = Tail(backlog) /\ apc' = "header"
          /\ UNCHANGED <<hpc, op, count, mRsysFds, conn>>
      BY <1>1 DEF Accept, TypeOK
    <2>2. /\ DOMAIN backlog = 1..Len(backlog) /\ Len(backlog) \in Nat /\ Len(backlog) > 0
          /\ DOMAIN backlog' = 1..(Len(backlog) - 1)
          /\ \A i \in 1..(Len(backlog) - 1) : backlog'[i] = backlog[i + 1]
          /\ served' = backlog[1] /\ served' \in Proc
      BY <2>1
    <2>3. \A i, j \in 1..Len(backlog) : backlog[i] = backlog[j] => i = j
      BY <2>2 DEF Queue
    <2>4. \A i, j \in DOMAIN backlog' : backlog'[i] = backlog'[j] => i = j
      <3>1. \A i, j \in 1..(Len(backlog) - 1) :
               i + 1 \in 1..Len(backlog) /\ j + 1 \in 1..Len(backlog) /\ (i + 1 = j + 1 => i = j)
        BY <2>2
      <3>2. QED
        BY <2>2, <2>3, <3>1
    <2>5. \A i \in DOMAIN backlog' : backlog'[i] # served'
      <3>1. \A i \in 1..(Len(backlog) - 1) : i + 1 \in 1..Len(backlog) /\ i + 1 # 1
        BY <2>2
      <3>2. 1 \in 1..Len(backlog)
        BY <2>2
      <3>3. QED
        BY <2>2, <2>3, <3>1, <3>2
    <2>6. \A q \in Proc : Queued(q)' \/ served' = q => Queued(q)
      <3>1. \A i \in 1..(Len(backlog) - 1) : i + 1 \in DOMAIN backlog
        BY <2>2
      <3>2. 1 \in DOMAIN backlog
        BY <2>2
      <3>3. QED
        BY <2>2, <3>1, <3>2 DEF Queued
    <2>7. served' # Nobody
      BY <2>2, QueueParts
    <2>8. QED
      BY <2>1, <2>4, <2>5, <2>6, <2>7 DEF Queue
  <1>2. ASSUME UNCHANGED <<hpc, op, count, mRsysFds, conn, served, backlog>>,
               apc \notin {"accept", "exited"}, apc' \notin {"accept", "exited"}
        PROVE  Queue'
    BY <1>2 DEF Queue, Queued
  <1>3. CASE HandleFile \/ CopyFile \/ Exec \/ GetFile \/ PutFile
    BY <1>2, <1>3 DEF HandleFile, CopyFile, Exec, GetFile, PutFile, AtPlace
  <1>4. CASE \/ ExecMessage \/ ExecAck \/ ExecEnds
             \/ SendBlock \/ GetReadFails \/ BlockAcknowledged
    BY <1>2, <1>4 DEF ExecMessage, ExecAck, ExecEnds, SendBlock, GetReadFails, BlockAcknowledged,
       AtPlace
  <1>5. CASE WriteBlock \/ WriteFails \/ PutEnds
    BY <1>2, <1>5 DEF WriteBlock, WriteFails, PutEnds, AtPlace
  <1>6. CASE Quit
    <2>1. /\ served' = Nobody /\ apc' = "accept"
          /\ UNCHANGED <<hpc, op, count, mRsysFds, backlog>>
          /\ \A q \in Proc : q # served => conn'[q] = conn[q]
      BY <1>6 DEF Quit, TypeOK
    <2>2. \A i \in DOMAIN backlog : backlog[i] # Nobody
      <3>1. \A i \in 1..Len(backlog) : backlog[i] \in Proc
        BY DEF TypeOK
      <3>2. QED
        BY <3>1, QueueParts
    <2>3. QED
      BY <2>1, <2>2, QueueParts DEF Queue, Queued
  <1>7. CASE Terminate
    <2>1. /\ served' = Nobody /\ apc' = "exited" /\ backlog' = <<>>
          /\ UNCHANGED <<hpc, op, count, mRsysFds>>
          /\ \A q \in Proc : q # served /\ ~Queued(q) => conn'[q] = conn[q]
      BY <1>7 DEF Terminate, Queued
    <2>2. DOMAIN backlog' = {}
      BY <2>1
    <2>3. QED
      BY <2>1, <2>2, QueueParts DEF Queue, Queued
  <1>8. QED
    BY <1>1, <1>3, <1>4, <1>5, <1>6, <1>7 DEF AgentStep

-----------------------------------------------------------------------------
(* A step of one laborer, or of the agent for one laborer, leaves the      *)
(* other connections as they are.                                          *)
LEMMA SameLine ==
    ASSUME NEW q \in Proc, Ordered(q), limit' = limit,
           hpc'[q] = hpc[q], op'[q] = op[q], left'[q] = left[q], conn'[q] = conn[q],
           result'[q] = result[q],
           toAgent'[q] = toAgent[q], toHost'[q] = toHost[q], did'[q] = did[q],
           (served = q)' <=> served = q,
           served = q => UNCHANGED <<apc, aleft>>,
           mRsysFds'[q] = mRsysFds[q], Queued(q)' <=> Queued(q)
    PROVE  Ordered(q)'
  <1> USE DEF Between, Requesting, AllTaken, Sent, Back
  <1>1. CASE Apart(q)
    BY <1>1 DEF Apart, Spoilt, BrokenOff, Ordered
  <1>2. CASE Pending(q)
    BY <1>2 DEF Pending, Ordered
  <1>3. CASE Parted(q)
    BY <1>3 DEF Parted, Ordered
  <1>4. CASE Attended(q)
    <2>1. served = q /\ served' = q /\ apc' = apc /\ aleft' = aleft
      BY <1>4 DEF Attended
    <2>2. /\ Executing(q) => Executing(q)'
          /\ Managing(q) => Managing(q)'
      BY <2>1 DEF Executing, Managing, Unchecked
    <2>3. Getting(q) => Getting(q)'
      BY <2>1 DEF Getting
    <2>4. Putting(q) => Putting(q)'
      BY <2>1 DEF Putting
    <2>5. Attended(q)'
      BY <1>4, <2>1, <2>2, <2>3, <2>4 DEF Attended
    <2>6. QED
      BY <2>5 DEF Ordered
  <1>5. QED
    BY <1>1, <1>2, <1>3, <1>4 DEF Ordered

LEMMA LaborerOthers ==
    ASSUME TypeOK, Queue, NEW p \in Proc, LaborerStep(p), NEW q \in Proc \ {p}, Ordered(q)
    PROVE  Ordered(q)'
  <1> USE DEF TypeOK, Go, Returns, Send, Taken
  <1>1. limit' = limit
    BY DEF LaborerStep
  <1>2. CASE LogonRsystem(p)
    <2>1. UNCHANGED <<hpc, op, left, toAgent, toHost, served, apc, aleft, did>>
      BY <1>2 DEF LogonRsystem, avars
    <2>2. conn'[q] = conn[q] /\ mRsysFds'[q] = mRsysFds[q] /\ result'[q] = result[q]
      BY <1>2 DEF LogonRsystem, ConnectServer
    <2>3. Queued(q)' <=> Queued(q)
      <3>1. CASE backlog' = Append(backlog, p)
        <4>1. /\ DOMAIN backlog' = 1..(Len(backlog) + 1) /\ Len(backlog) \in Nat
              /\ DOMAIN backlog = 1..Len(backlog)
              /\ \A i \in 1..Len(backlog) : backlog'[i] = backlog[i]
              /\ backlog'[Len(backlog) + 1] = p
          BY <3>1
        <4>2. ASSUME NEW i \in DOMAIN backlog', backlog'[i] = q
              PROVE  \E j \in DOMAIN backlog : backlog[j] = q
          <5>1. i # Len(backlog) + 1 /\ i \in 1..(Len(backlog) + 1)
            BY <4>1, <4>2
          <5>2. i \in 1..Len(backlog)
            BY <4>1, <5>1
          <5>3. i \in DOMAIN backlog /\ backlog[i] = q
            BY <4>1, <4>2, <5>2
          <5>4. QED
            BY <5>3
        <4>3. ASSUME NEW i \in DOMAIN backlog, backlog[i] = q
              PROVE  \E j \in DOMAIN backlog' : backlog'[j] = q
          BY <4>1, <4>3
        <4>4. QED
          BY <4>2, <4>3 DEF Queued
      <3>2. QED
        BY <1>2, <3>1 DEF LogonRsystem, ConnectServer, Queued
    <2>4. QED
      BY <1>1, <2>1, <2>2, <2>3, SameLine
  <1>3. ASSUME UNCHANGED <<backlog, served, apc, aleft>>,
               hpc'[q] = hpc[q], op'[q] = op[q], left'[q] = left[q], conn'[q] = conn[q],
               toAgent'[q] = toAgent[q], toHost'[q] = toHost[q], did'[q] = did[q],
               mRsysFds'[q] = mRsysFds[q], result'[q] = result[q]
        PROVE  Ordered(q)'
    <2>1. Queued(q)' <=> Queued(q)
      BY <1>3 DEF Queued
    <2>2. QED
      BY <1>1, <1>3, <2>1, SameLine
  <1>4. ASSUME NEW o \in Ops, Request(p, o)
        PROVE  Ordered(q)'
    BY <1>3, <1>4 DEF Request
  <1>5. CASE ExecuteFails(p) \/ GetFails(p) \/ PutFails(p) \/ NothingAsked(p)
    BY <1>3, <1>5 DEF ExecuteFails, GetFails, PutFails, NothingAsked, NotSent, avars
  <1>6. CASE RecvFails(p) \/ ExecuteOpt(p) \/ ManageOpt(p) \/ GetOpt(p) \/ Got(p)
    BY <1>3, <1>6 DEF RecvFails, ExecuteOpt, ManageOpt, GetOpt, Got, avars
  <1>7. CASE GetBlock(p)
    BY <1>3, <1>7 DEF GetBlock, avars
  <1>8. CASE PutOpt(p) \/ PutReadFails(p) \/ PutBlock(p) \/ PutAck(p)
    BY <1>3, <1>8 DEF PutOpt, PutReadFails, PutBlock, PutAck, avars
  <1>9. CASE Disconnect(p) \/ Join(p) \/ Destroy(p) \/ Destroyed(p)
    BY <1>3, <1>9 DEF Disconnect, Join, Destroy, Destroyed, avars
  <1>10. QED
    BY <1>2, <1>4, <1>5, <1>6, <1>7, <1>8, <1>9 DEF LaborerStep

-----------------------------------------------------------------------------
(* The laborer's own steps, by the operation it is in. *)
LEMMA LaborerAgentSame ==
    ASSUME NEW p \in Proc, UNCHANGED <<backlog, apc, served, aleft>>
    PROVE  (Queued(p)' <=> Queued(p))
  BY DEF Queued

(* What has been received is the head of what was on the way. *)
LEMMA ReceivedOne ==
    ASSUME TypeOK, NEW p \in Proc, Receives(p), Taken(p), NEW t \in Wire, NEW n \in Nat,
           Back(p, <<Msg(t, n)>>)
    PROVE  Received(p).type = t /\ Received(p).size = n /\ Back(p, <<>>)'
  <1>1. toHost[p] = <<Msg(t, n)>> /\ toHost'[p] = Tail(toHost[p])
    BY DEF Back, Taken, TypeOK
  <1>2. Msg(t, n) \in Message /\ Msg(t, n).type = t /\ Msg(t, n).size = n
    BY MessageType
  <1>3. Head(<<Msg(t, n)>>) = Msg(t, n) /\ Tail(<<Msg(t, n)>>) = <<>>
    BY <1>2, OneMessage
  <1>4. QED
    BY <1>1, <1>2, <1>3 DEF Received, Back

LEMMA ReceivedTwo ==
    ASSUME TypeOK, NEW p \in Proc, Receives(p), Taken(p),
           NEW t \in Wire, NEW n \in Nat, NEW u \in Wire, NEW k \in Nat,
           Back(p, <<Msg(t, n), Msg(u, k)>>)
    PROVE  Received(p).type = t /\ Received(p).size = n /\ Back(p, <<Msg(u, k)>>)'
  <1>1. toHost[p] = <<Msg(t, n), Msg(u, k)>> /\ toHost'[p] = Tail(toHost[p])
    BY DEF Back, Taken, TypeOK
  <1>2. Msg(t, n) \in Message /\ Msg(u, k) \in Message /\ Msg(t, n).type = t /\ Msg(t, n).size = n
    BY MessageType
  <1>3. /\ Head(<<Msg(t, n), Msg(u, k)>>) = Msg(t, n)
        /\ Tail(<<Msg(t, n), Msg(u, k)>>) = <<Msg(u, k)>>
    BY <1>2, TwoMessages
  <1>4. QED
    BY <1>1, <1>2, <1>3 DEF Received, Back

LEMMA SentOne ==
    ASSUME TypeOK, NEW p \in Proc, NEW t \in Wire, NEW n \in Nat,
           Send(p, Msg(t, n)), conn[p] = "open", Sent(p, <<>>)
    PROVE  Sent(p, <<Msg(t, n)>>)'
  <1>1. toAgent'[p] = Append(toAgent[p], Msg(t, n)) /\ toAgent[p] = <<>>
    BY DEF Send, Sent, TypeOK
  <1>2. Append(<<>>, Msg(t, n)) = <<Msg(t, n)>>
    BY MessageType, OneMessage
  <1>3. QED
    BY <1>1, <1>2 DEF Sent

LEMMA WireHas ==
    /\ Operations \subseteq Wire
    /\ {"SUCCESS", "FAILURE", "MESSAGE", "info", "block", "stray", "QUIT", "TERMINATE"} \subseteq Wire
    /\ 0 \in Blocks /\ 1 \in Blocks /\ Blocks \subseteq Nat
  <1>1. 0 \in Blocks /\ 1 \in Blocks /\ Blocks \subseteq Nat
    BY BoundsAssumption DEF Blocks
  <1>2. QED
    BY <1>1 DEF Wire, Operations

(* Nothing is received in a state with nothing on the way. *)
LEMMA NothingBack ==
    ASSUME NEW p \in Proc, Receives(p)
    PROVE  ~Back(p, <<>>)
  BY DEF Receives, Back

(* A put after which the connection may be out of step is the last command *)
(* of its laborer.                                                         *)
LEMMA ApartLast ==
    ASSUME TypeOK, Queue, NEW p \in Proc, Apart(p)
    PROVE  ~HasCommand(p)
  <1>1. op[p] = "PUT" /\ limit \in Limits /\ {"host reads", "agent writes"} \cap limit.fails # {}
    BY DEF Apart, Spoilt, BrokenOff, TypeOK
  <1>2. limit.ops = 1 /\ count[p] > 0 /\ count[p] \in Nat
    BY <1>1, LimitsAssumption DEF Queue, TypeOK
  <1>3. QED
    BY <1>2 DEF HasCommand

(* What such a laborer still does leaves it there. *)
LEMMA ApartStays ==
    ASSUME TypeOK, NEW p \in Proc, Apart(p), LaborerStep(p), ~HasCommand(p)
    PROVE  Apart(p)' /\ Truthful(p)'
  <1>1. limit' = limit /\ op' = op
    BY DEF LaborerStep, LogonRsystem, ExecuteFails, GetFails, PutFails, NothingAsked, NotSent,
       Request, RecvFails, ExecuteOpt, ManageOpt, GetOpt, GetBlock, Got, PutOpt, PutReadFails,
       PutBlock, PutAck, Disconnect, Join, Destroy, Destroyed
  <1>2. CASE Spoilt(p)
    BY <1>1, <1>2 DEF Apart, Spoilt, Truthful, Unchecked
  <1>3. CASE BrokenOff(p)
    <2>1. Join(p) \/ Destroy(p) \/ Destroyed(p)
      BY <1>3 DEF BrokenOff, LaborerStep, LogonRsystem, ExecuteFails, GetFails, PutFails,
         NothingAsked, NotSent, Request, RecvFails, ExecuteOpt, ManageOpt, GetOpt, GetBlock, Got,
         PutOpt, PutReadFails, PutBlock, PutAck, Disconnect
    <2>2. result' = result /\ hpc'[p] \in {"joined", "destroy", "destroyed"}
      BY <2>1 DEF Join, Destroy, Destroyed, Go, TypeOK
    <2>3. QED
      BY <1>1, <1>3, <2>2 DEF Apart, BrokenOff, Truthful
  <1>4. QED
    BY <1>2, <1>3 DEF Apart

(* A laborer that has connected and is between two commands has nothing on *)
(* the way, unless its connection is broken.                               *)
LEMMA IdleBetween ==
    ASSUME NEW p \in Proc, Ordered(p), ~Apart(p), hpc[p] \in {"idle", "joined"},
           mRsysFds[p], conn[p] \notin {"reset", "closed"}
    PROVE  conn[p] = "open" /\ Between(p)
  <1>1. CASE Attended(p)
    <2>1. ~Executing(p) /\ ~Managing(p) /\ ~Putting(p) /\ ~Requesting(p)
      BY DEF Executing, Managing, Putting, Requesting
    <2>2. ~Getting(p)
      BY DEF Getting
    <2>3. QED
      BY <1>1, <2>1, <2>2 DEF Attended
  <1>2. CASE Pending(p)
    BY <1>2 DEF Pending, Requesting
  <1>3. CASE Parted(p)
    BY <1>3 DEF Parted
  <1>4. QED
    BY <1>1, <1>2, <1>3 DEF Ordered

(* Asking: the request goes out on a connection that is open, and is not   *)
(* sent on one that is broken; none is sent on one the agent has left.     *)
LEMMA RequestOrdered ==
    ASSUME TypeOK, Queue, NEW p \in Proc, Ordered(p), NEW o \in Ops, Request(p, o), limit' = limit
    PROVE  Ordered(p)'
  <1>1. /\ hpc[p] = "idle" /\ count[p] < limit.ops /\ mRsysFds[p]
        /\ op' = [op EXCEPT ![p] = o] /\ o \in Operations /\ o \in Wire
        /\ UNCHANGED <<conn, toHost, backlog, apc, served, aleft>>
    BY OpsAssumption, WireHas DEF Request, HasCommand
  <1>2. op'[p] = o
    BY <1>1 DEF TypeOK
  <1>3. ~Apart(p)
    BY ApartLast DEF Request
  <1>4. CASE Broken(p)
    <2>1. hpc'[p] = "idle" /\ toAgent' = toAgent
      BY <1>1, <1>4 DEF Request, Returns, Go, TypeOK
    <2>2. Parted(p)
      BY <1>3, <1>4 DEF Ordered, Attended, Pending, Broken
    <2>3. Parted(p)'
      BY <1>1, <1>4, <2>1, <2>2, LaborerAgentSame DEF Parted, Broken, Back
    <2>4. QED
      BY <2>3 DEF Ordered
  <1>5. CASE ~Broken(p)
    <2>1. PICK n \in Sizes(o) : /\ Send(p, Msg(o, n))
                                /\ left' = [left EXCEPT ![p] = IF o = "PUT" THEN n ELSE 0]
                                /\ hpc' = [hpc EXCEPT ![p] = "reply"]
      BY <1>5 DEF Request, Go
    <2>2. n \in Blocks /\ n \in Nat
      BY <1>1, SizesAreBlocks
    <2>3. conn[p] = "open" /\ Between(p)
      BY <1>1, <1>3, <1>5, IdleBetween DEF Broken
    <2>4. Sent(p, <<Msg(o, n)>>)'
      BY <1>1, <2>1, <2>2, <2>3, SentOne DEF Between, AllTaken
    <2>5. Back(p, <<>>)'
      BY <1>1, <2>3 DEF Between, AllTaken, Back
    <2>6. hpc'[p] = "reply" /\ (o = "PUT" => left'[p] = n)
      BY <2>1 DEF TypeOK
    <2>7. Requesting(p)'
      BY <1>2, <2>2, <2>4, <2>5, <2>6 DEF Requesting, Sent
    <2>8. (Attended(p) /\ apc = "header") \/ Pending(p)
      BY <1>1, <1>3, <2>3 DEF Ordered, Parted, Attended, Executing, Managing, Getting, Putting
    <2>9. Attended(p)' \/ Pending(p)'
      BY <1>1, <2>7, <2>8, LaborerAgentSame DEF Attended, Pending
    <2>10. QED
      BY <2>9 DEF Ordered
  <1>6. QED
    BY <1>4, <1>5

(* A command that ends before anything is sent, or whose connect fails. *)
LEMMA UnsentOrdered ==
    ASSUME TypeOK, Queue, NEW p \in Proc, Ordered(p), Truthful(p), limit' = limit,
           \/ ExecuteFails(p) \/ GetFails(p) \/ PutFails(p) \/ NothingAsked(p)
    PROVE  Ordered(p)' /\ Truthful(p)'
  <1>1. PICK o \in {"EXECUTE", "GET", "PUT", "none"}, rc \in {"FAILURE", "NOTHING"} : NotSent(p, o, rc)
    BY DEF ExecuteFails, GetFails, PutFails, NothingAsked
  <1>2. /\ hpc[p] = "idle" /\ hpc'[p] = "idle" /\ op'[p] = o /\ result'[p] = rc /\ mRsysFds[p]
        /\ UNCHANGED <<left, mRsysFds, conn, toAgent, toHost, backlog, apc, served, aleft, did>>
    BY <1>1 DEF NotSent, HasCommand, Returns, Go, TypeOK, avars
  <1>3. Truthful(p)'
    BY <1>2 DEF Truthful
  <1>4. Queued(p)' <=> Queued(p)
    BY <1>2, LaborerAgentSame
  <1>5. CASE Apart(p)
    BY <1>1, <1>5, ApartLast DEF NotSent
  <1>6. CASE ~Apart(p) /\ Broken(p)
    <2>1. Parted(p)
      BY <1>6 DEF Ordered, Attended, Pending, Broken
    <2>2. Parted(p)'
      BY <1>2, <1>4, <1>6, <2>1 DEF Parted, Broken, Back
    <2>3. QED
      BY <1>3, <2>2 DEF Ordered
  <1>7. CASE ~Apart(p) /\ ~Broken(p)
    <2>1. conn[p] = "open" /\ Between(p)
      BY <1>2, <1>7, IdleBetween DEF Broken
    <2>2. (Attended(p) /\ apc = "header") \/ Pending(p)
      BY <1>2, <1>7, <2>1 DEF Ordered, Parted, Attended, Executing, Managing, Getting, Putting
    <2>3. Between(p)'
      BY <1>2, <2>1 DEF Between, AllTaken, Sent, Back
    <2>4. Attended(p)' \/ Pending(p)'
      BY <1>2, <1>4, <2>1, <2>2, <2>3 DEF Attended, Pending
    <2>5. QED
      BY <1>3, <2>4 DEF Ordered
  <1>8. QED
    BY <1>5, <1>6, <1>7

LEMMA LogonOrdered ==
    ASSUME TypeOK, Queue, NEW p \in Proc, Ordered(p), Truthful(p), LogonRsystem(p), limit' = limit
    PROVE  Ordered(p)' /\ Truthful(p)'
  <1>1. /\ hpc[p] = "idle" /\ ~mRsysFds[p] /\ conn[p] = "none" /\ served # p /\ ~Queued(p)
        /\ UNCHANGED <<hpc, op, left, toAgent, toHost, apc, served, aleft, did>>
    BY DEF LogonRsystem, HasCommand, Queue, avars
  <1>2. result'[p] \in {result[p], "FAILURE"}
    BY DEF LogonRsystem, TypeOK
  <1>3. Truthful(p)'
    BY <1>1, <1>2 DEF Truthful, Unchecked
  <1>4. ~Apart(p)
    BY ApartLast DEF LogonRsystem
  <1>5. Parted(p) /\ AllTaken(p)
    BY <1>1, <1>4 DEF Ordered, Attended, Pending, Parted
  <1>6. CASE Parted(p) /\ AllTaken(p) /\ apc = "exited"
    <2>1. UNCHANGED <<mRsysFds, conn, backlog>>
      BY <1>6 DEF LogonRsystem, ConnectServer
    <2>2. Parted(p)'
      BY <1>1, <1>6, <2>1, LaborerAgentSame DEF Parted, AllTaken, Sent, Back
    <2>3. QED
      BY <1>3, <2>2 DEF Ordered
  <1>7. CASE Parted(p) /\ AllTaken(p) /\ apc # "exited"
    <2>1. conn'[p] = "open" /\ backlog' = Append(backlog, p)
      BY <1>7 DEF LogonRsystem, ConnectServer, TypeOK
    <2>2. Queued(p)'
      <3>1. Len(backlog) + 1 \in DOMAIN backlog' /\ backlog'[Len(backlog) + 1] = p
        BY <2>1 DEF TypeOK
      <3>2. QED
        BY <3>1 DEF Queued
    <2>3. Pending(p)'
      BY <1>1, <1>7, <2>1, <2>2 DEF Pending, Between, AllTaken, Sent, Back
    <2>4. QED
      BY <1>3, <2>3 DEF Ordered
  <1>8. QED
    BY <1>5, <1>6, <1>7

(* The laborer goes on in an operation of which the agent knows, or is     *)
(* between two while the agent waits for a request.                        *)
LEMMA StillAttended ==
    ASSUME NEW p \in Proc, Attended(p), conn'[p] = conn[p], served' = served,
           \/ apc' = "header" /\ Between(p)'
           \/ Executing(p)' \/ Managing(p)' \/ Getting(p)' \/ Putting(p)'
    PROVE  Ordered(p)'
  BY DEF Attended, Ordered

(* Where a laborer is that has something to receive. *)
LEMMA Receiving ==
    ASSUME TypeOK, NEW p \in Proc, Ordered(p), ~Apart(p), Receives(p)
    PROVE  \/ /\ Attended(p)
              /\ Executing(p) \/ Managing(p) \/ Getting(p) \/ Putting(p)
           \/ /\ Parted(p) /\ conn[p] = "left"
  BY DEF Ordered, Attended, Pending, Parted, Between, AllTaken, Requesting, Receives, Back

LEMMA ExecuteOptOrdered ==
    ASSUME TypeOK, NEW p \in Proc, Ordered(p), ~Apart(p), ExecuteOpt(p), limit' = limit
    PROVE  Ordered(p)' /\ Truthful(p)'
  <1>1. /\ hpc[p] = "reply" /\ op[p] = "EXECUTE" /\ op'[p] = "EXECUTE" /\ Receives(p) /\ Taken(p)
        /\ UNCHANGED <<conn, apc, served, aleft, did>>
    BY DEF ExecuteOpt, avars
  <1>2. Attended(p) /\ Executing(p)
    BY <1>1, Receiving DEF Parted, Managing, Getting, Putting
  <1>3. Truthful(p)'
    BY <1>1 DEF Truthful
  <1>4. CASE apc = "execack"
    <2>1. Sent(p, <<>>) /\ Back(p, <<Msg("MESSAGE", 1)>>)
      BY <1>1, <1>2, <1>4, NothingBack DEF Executing, AllTaken
    <2>2. Received(p).type = "MESSAGE" /\ Back(p, <<>>)'
      BY <1>1, <2>1, ReceivedOne, WireHas
    <2>3. Send(p, Msg("SUCCESS", 0)) /\ hpc'[p] = "reply"
      BY <1>1, <2>2 DEF ExecuteOpt
    <2>4. Sent(p, <<Msg("SUCCESS", 0)>>)'
      BY <1>2, <2>1, <2>3, SentOne, WireHas DEF Attended
    <2>5. Executing(p)'
      BY <1>1, <1>4, <2>2, <2>3, <2>4 DEF Executing
    <2>6. QED
      BY <1>1, <1>2, <1>3, <2>5, StillAttended
  <1>5. CASE apc # "execack"
    <2>1. apc = "header" /\ Sent(p, <<>>) /\ \E t \in {"SUCCESS", "FAILURE"} : Back(p, <<Msg(t, 0)>>)
      BY <1>1, <1>2, <1>5, NothingBack DEF Executing, AllTaken
    <2>2. PICK t \in {"SUCCESS", "FAILURE"} : Back(p, <<Msg(t, 0)>>)
      BY <2>1
    <2>3. Received(p).type = t /\ Back(p, <<>>)'
      BY <1>1, <2>2, ReceivedOne, WireHas
    <2>4. hpc'[p] = "idle" /\ toAgent' = toAgent
      BY <1>1, <2>3 DEF ExecuteOpt, Returns, Go, TypeOK
    <2>5. Between(p)'
      BY <2>1, <2>3, <2>4 DEF Between, AllTaken, Sent
    <2>6. QED
      BY <1>1, <1>2, <1>3, <2>1, <2>5, StillAttended
  <1>6. QED
    BY <1>4, <1>5

LEMMA ManageOptOrdered ==
    ASSUME TypeOK, NEW p \in Proc, Ordered(p), ~Apart(p), ManageOpt(p), limit' = limit
    PROVE  Ordered(p)' /\ Truthful(p)'
  <1>1. /\ hpc[p] = "reply" /\ op[p] \in {"MANAGE", "COPY"} /\ Receives(p) /\ Taken(p)
        /\ Returns(p, CopyRc(Received(p).type))
        /\ UNCHANGED <<op, conn, toAgent, apc, served, aleft, did>>
    BY DEF ManageOpt, avars
  <1>2. Attended(p) /\ Managing(p)
    BY <1>1, Receiving DEF Parted, Executing, Getting, Putting
  <1>3. PICK t \in {"SUCCESS", "FAILURE"} :
           Back(p, <<Msg(t, 0)>>) /\ (t = "SUCCESS" => did[p] = "yes" \/ Unchecked(p))
    BY <1>2 DEF Managing
  <1>4. Received(p).type = t /\ Back(p, <<>>)'
    BY <1>1, <1>3, ReceivedOne, WireHas
  <1>5. hpc'[p] = "idle" /\ result'[p] = t
    BY <1>1, <1>4 DEF Returns, Go, CopyRc, TypeOK
  <1>6. Between(p)'
    BY <1>1, <1>2, <1>4, <1>5 DEF Between, AllTaken, Sent, Managing
  <1>7. Truthful(p)'
    BY <1>1, <1>3, <1>5 DEF Truthful, Unchecked
  <1>8. QED
    BY <1>1, <1>2, <1>6, <1>7, StillAttended DEF Managing

LEMMA GetOptOrdered ==
    ASSUME TypeOK, NEW p \in Proc, Ordered(p), ~Apart(p), GetOpt(p), limit' = limit
    PROVE  Ordered(p)' /\ Truthful(p)'
  <1>1. /\ hpc[p] = "reply" /\ op[p] = "GET" /\ op'[p] = "GET" /\ Receives(p) /\ Taken(p)
        /\ UNCHANGED <<conn, toAgent, apc, served, aleft, did>>
    BY DEF GetOpt, avars
  <1>2. Attended(p) /\ Getting(p)
    BY <1>1, Receiving DEF Parted, Executing, Managing, Putting
  <1>3. aleft \in Int /\ (aleft > 0 => aleft \in Nat /\ aleft # 0)
    BY DEF TypeOK
  <1>4. CASE apc = "header" /\ Back(p, <<Msg("FAILURE", 0)>>)
    <2>1. Received(p).type = "FAILURE" /\ Back(p, <<>>)'
      BY <1>1, <1>4, ReceivedOne, WireHas
    <2>2. hpc'[p] = "idle" /\ result'[p] = "FAILURE"
      BY <2>1 DEF GetOpt, Returns, Go, TypeOK
    <2>3. Between(p)'
      BY <1>1, <1>2, <1>4, <2>1, <2>2 DEF Between, AllTaken, Sent, Getting
    <2>4. QED
      BY <1>1, <1>2, <1>4, <2>2, <2>3, StillAttended DEF Truthful
  <1>5. ASSUME Received(p).type = "info", NEW n \in Nat, Received(p).size = n
        PROVE  left'[p] = n /\ hpc'[p] = IF n = 0 THEN "got" ELSE "get"
    BY <1>5 DEF GetOpt, Go, TypeOK
  <1>6. CASE apc = "header" /\ Back(p, <<Msg("info", 0), Msg("SUCCESS", 0)>>) /\ did[p] = "yes"
    <2>1. Received(p).type = "info" /\ Received(p).size = 0 /\ Back(p, <<Msg("SUCCESS", 0)>>)'
      BY <1>1, <1>6, ReceivedTwo, WireHas
    <2>2. hpc'[p] = "got"
      BY <1>5, <2>1
    <2>3. Getting(p)'
      BY <1>1, <1>2, <1>6, <2>1, <2>2 DEF Getting, Sent
    <2>4. QED
      BY <1>1, <1>2, <2>2, <2>3, StillAttended DEF Truthful
  <1>7. CASE apc = "get" /\ aleft > 0 /\ Sent(p, <<>>) /\ Back(p, <<Msg("info", aleft)>>)
    <2>1. Received(p).type = "info" /\ Received(p).size = aleft /\ Back(p, <<>>)'
      BY <1>1, <1>3, <1>7, ReceivedOne, WireHas
    <2>2. left'[p] = aleft /\ hpc'[p] = "get"
      BY <1>3, <1>5, <1>7, <2>1
    <2>3. Getting(p)'
      BY <1>1, <1>3, <1>7, <2>1, <2>2 DEF Getting, Sent
    <2>4. QED
      BY <1>1, <1>2, <2>2, <2>3, StillAttended DEF Truthful
  <1>11. CASE apc = "header" /\ aleft > 0 /\ Back(p, <<Msg("info", aleft)>>)
    <2>1. Received(p).type = "info" /\ Received(p).size = aleft /\ Back(p, <<>>)'
      BY <1>1, <1>3, <1>11, ReceivedOne, WireHas
    <2>2. hpc'[p] = "get" /\ Sent(p, <<>>)
      BY <1>1, <1>2, <1>3, <1>5, <1>11, <2>1 DEF Getting
    <2>3. Getting(p)'
      BY <1>1, <1>11, <2>1, <2>2 DEF Getting, Sent
    <2>4. QED
      BY <1>1, <1>2, <2>2, <2>3, StillAttended DEF Truthful
  <1>8. CASE /\ apc = "getack" /\ aleft > 0 /\ Sent(p, <<>>)
             /\ Back(p, <<Msg("info", aleft), Msg("block", 0)>>)
    <2>1. Received(p).type = "info" /\ Received(p).size = aleft /\ Back(p, <<Msg("block", 0)>>)'
      BY <1>1, <1>3, <1>8, ReceivedTwo, WireHas
    <2>2. left'[p] = aleft /\ hpc'[p] = "get"
      BY <1>3, <1>5, <1>8, <2>1
    <2>3. Getting(p)'
      BY <1>1, <1>3, <1>8, <2>1, <2>2 DEF Getting, Sent
    <2>4. QED
      BY <1>1, <1>2, <2>2, <2>3, StillAttended DEF Truthful
  <1>9. ~Back(p, <<>>)
    BY <1>1, NothingBack
  <1>10. QED
    BY <1>1, <1>2, <1>4, <1>6, <1>7, <1>8, <1>9, <1>11 DEF Getting

LEMMA GetBlockOrdered ==
    ASSUME TypeOK, NEW p \in Proc, Ordered(p), ~Apart(p), GetBlock(p), limit' = limit
    PROVE  Ordered(p)' /\ Truthful(p)'
  <1>1. /\ hpc[p] = "get" /\ op' = op /\ Receives(p) /\ Taken(p)
        /\ UNCHANGED <<conn, apc, served, aleft, did>>
    BY DEF GetBlock, avars
  <1>2. Attended(p) /\ Getting(p) /\ ~Back(p, <<>>)
    BY <1>1, Receiving, NothingBack DEF Parted, Executing, Managing, Putting
  <1>3. CASE apc = "header" /\ Sent(p, <<>>) /\ Back(p, <<Msg("SUCCESS", 0)>>)
    <2>1. Received(p).type = "SUCCESS" /\ Back(p, <<>>)'
      BY <1>1, <1>3, ReceivedOne, WireHas
    <2>2. hpc'[p] = "idle" /\ result'[p] = "FAILURE" /\ toAgent' = toAgent
      BY <2>1 DEF GetBlock, Returns, Go, TypeOK
    <2>3. Between(p)'
      BY <1>3, <2>1, <2>2 DEF Between, AllTaken, Sent
    <2>4. QED
      BY <1>1, <1>2, <1>3, <2>2, <2>3, StillAttended DEF Truthful
  <1>4. CASE /\ apc = "getack" /\ aleft > 0 /\ Sent(p, <<>>) /\ Back(p, <<Msg("block", 0)>>)
             /\ left[p] >= aleft
    <2>1. Received(p).type = "block" /\ Back(p, <<>>)'
      BY <1>1, <1>4, ReceivedOne, WireHas
    <2>2. /\ left' = [left EXCEPT ![p] = @ - 1] \/ left' = left
          /\ Send(p, Msg("SUCCESS", 0)) /\ Go(p, IF left'[p] = 0 THEN "got" ELSE "get")
      BY <2>1 DEF GetBlock
    <2>3. left[p] \in Int /\ aleft \in Int /\ left'[p] \in {left[p], left[p] - 1}
      BY <2>2 DEF TypeOK
    <2>4. left'[p] >= aleft - 1
      BY <1>4, <2>3
    <2>5. hpc'[p] = IF left'[p] = 0 THEN "got" ELSE "get"
      BY <2>2 DEF Go, TypeOK
    <2>6. Sent(p, <<Msg("SUCCESS", 0)>>)'
      BY <1>2, <1>4, <2>2, SentOne, WireHas DEF Attended
    <2>7. Getting(p)'
      BY <1>1, <1>2, <1>4, <2>1, <2>4, <2>5, <2>6 DEF Getting
    <2>8. QED
      BY <1>1, <1>2, <2>5, <2>7, StillAttended DEF Truthful
  <1>5. QED
    BY <1>1, <1>2, <1>3, <1>4 DEF Getting

LEMMA GotOrdered ==
    ASSUME TypeOK, NEW p \in Proc, Ordered(p), ~Apart(p), Got(p), limit' = limit
    PROVE  Ordered(p)' /\ Truthful(p)'
  <1>1. /\ hpc[p] = "got" /\ Receives(p) /\ Taken(p) /\ Returns(p, "SUCCESS")
        /\ UNCHANGED <<op, conn, toAgent, apc, served, aleft, did>>
    BY DEF Got, avars
  <1>2. Attended(p) /\ Getting(p) /\ ~Back(p, <<>>)
    BY <1>1, Receiving, NothingBack DEF Parted, Executing, Managing, Putting
  <1>3. apc = "header" /\ Sent(p, <<>>) /\ Back(p, <<Msg("SUCCESS", 0)>>) /\ did[p] = "yes"
    BY <1>1, <1>2 DEF Getting
  <1>4. Back(p, <<>>)'
    BY <1>1, <1>3, ReceivedOne, WireHas
  <1>5. hpc'[p] = "idle"
    BY <1>1 DEF Returns, Go, TypeOK
  <1>6. Between(p)'
    BY <1>1, <1>3, <1>4, <1>5 DEF Between, AllTaken, Sent
  <1>7. QED
    BY <1>1, <1>2, <1>3, <1>6, StillAttended DEF Truthful

LEMMA PutAnswerOrdered ==
    ASSUME TypeOK, NEW p \in Proc, Ordered(p), ~Apart(p), PutOpt(p) \/ PutAck(p), limit' = limit
    PROVE  Ordered(p)' /\ Truthful(p)'
  <1>1. /\ hpc[p] \in {"reply", "putack"} /\ (hpc[p] = "reply" => op[p] = "PUT")
        /\ Receives(p) /\ Taken(p)
        /\ UNCHANGED <<op, left, conn, toAgent, apc, served, aleft, did>>
    BY DEF PutOpt, PutAck, avars
  <1>2. Attended(p) /\ Putting(p) /\ ~Back(p, <<>>)
    BY <1>1, Receiving, NothingBack DEF Parted, Executing, Managing, Getting
  <1>3. CASE apc = "header" /\ Sent(p, <<>>) /\ Back(p, <<Msg("FAILURE", 0)>>) /\ hpc[p] = "reply"
    <2>1. Received(p).type = "FAILURE" /\ Back(p, <<>>)'
      BY <1>1, <1>3, ReceivedOne, WireHas
    <2>2. hpc'[p] = "idle" /\ result'[p] = "FAILURE"
      BY <1>3, <2>1 DEF PutOpt, PutAck, Returns, Go, TypeOK
    <2>3. Between(p)'
      BY <1>1, <1>3, <2>1, <2>2 DEF Between, AllTaken, Sent
    <2>4. QED
      BY <1>1, <1>2, <1>3, <2>2, <2>3, StillAttended DEF Truthful
  <1>4. CASE /\ apc = "header" /\ Sent(p, <<>>) /\ Back(p, <<Msg("SUCCESS", 0)>>)
             /\ left[p] = 0 /\ did[p] = "yes"
    <2>1. Received(p).type = "SUCCESS" /\ Back(p, <<>>)'
      BY <1>1, <1>4, ReceivedOne, WireHas
    <2>2. hpc'[p] = "idle"
      BY <1>4, <2>1 DEF PutOpt, PutAck, Returns, Go, TypeOK
    <2>3. Between(p)'
      BY <1>1, <1>4, <2>1, <2>2 DEF Between, AllTaken, Sent
    <2>4. QED
      BY <1>1, <1>2, <1>4, <2>3, StillAttended DEF Truthful
  <1>5. CASE /\ apc = "put" /\ aleft > 0 /\ Sent(p, <<>>) /\ Back(p, <<Msg("SUCCESS", 0)>>)
             /\ left[p] = aleft
    <2>1. Received(p).type = "SUCCESS" /\ Back(p, <<>>)'
      BY <1>1, <1>5, ReceivedOne, WireHas
    <2>2. left[p] # 0
      BY <1>5 DEF TypeOK
    <2>3. hpc'[p] = "put"
      BY <2>1, <2>2 DEF PutOpt, PutAck, Go, TypeOK
    <2>4. Putting(p)'
      BY <1>1, <1>2, <1>5, <2>1, <2>3 DEF Putting, AllTaken, Sent
    <2>5. QED
      BY <1>1, <1>2, <2>3, <2>4, StillAttended DEF Truthful
  <1>6. QED
    BY <1>1, <1>2, <1>3, <1>4, <1>5 DEF Putting, AllTaken

LEMMA PutBlockOrdered ==
    ASSUME TypeOK, NEW p \in Proc, Ordered(p), ~Apart(p), PutBlock(p), limit' = limit
    PROVE  Ordered(p)' /\ Truthful(p)'
  <1>1. hpc[p] = "put" /\ UNCHANGED <<op, conn, toHost, apc, served, aleft, did>>
    BY DEF PutBlock, avars
  <1>2. Attended(p) /\ Putting(p)
    BY <1>1 DEF Ordered, Attended, Pending, Parted, Between, Requesting, Executing, Managing, Getting
  <1>3. apc = "put" /\ aleft > 0 /\ AllTaken(p) /\ left[p] = aleft
    BY <1>1, <1>2 DEF Putting
  <1>4. conn[p] = "open" /\ ~Broken(p)
    BY <1>2 DEF Attended, Broken
  <1>5. Send(p, Msg("block", 0)) /\ left' = [left EXCEPT ![p] = @ - 1] /\ hpc'[p] = "putack"
    BY <1>4 DEF PutBlock, Go, TypeOK
  <1>6. left'[p] = aleft - 1
    BY <1>3, <1>5 DEF TypeOK
  <1>7. Sent(p, <<Msg("block", 0)>>)' /\ Back(p, <<>>)'
    BY <1>1, <1>3, <1>4, <1>5, SentOne, WireHas DEF AllTaken, Back
  <1>8. Putting(p)'
    BY <1>1, <1>2, <1>3, <1>5, <1>6, <1>7 DEF Putting
  <1>9. QED
    BY <1>1, <1>2, <1>5, <1>8, StillAttended DEF Truthful

(* The host breaks the put off. *)
LEMMA PutReadFailsOrdered ==
    ASSUME TypeOK, NEW p \in Proc, Ordered(p), ~Apart(p), PutReadFails(p), limit' = limit
    PROVE  Ordered(p)' /\ Truthful(p)'
  <1>1. /\ hpc[p] = "put" /\ op' = op /\ "host reads" \in limit.fails
        /\ hpc'[p] = "idle" /\ result'[p] = "FAILURE"
    BY DEF PutReadFails, Returns, Go, TypeOK
  <1>2. op[p] = "PUT"
    BY <1>1 DEF Ordered, Attended, Pending, Parted, Between, Requesting, Executing, Managing,
       Getting, Putting
  <1>3. BrokenOff(p)'
    BY <1>1, <1>2 DEF BrokenOff
  <1>4. QED
    BY <1>1, <1>3 DEF Ordered, Apart, Truthful

(* The connection of the laborer is no longer the agent's. *)
LEMMA RecvFailsOrdered ==
    ASSUME TypeOK, NEW p \in Proc, Ordered(p), ~Apart(p), RecvFails(p), limit' = limit
    PROVE  Ordered(p)' /\ Truthful(p)'
  <1>1. /\ conn[p] = "reset" /\ hpc'[p] = "idle" /\ result'[p] = "FAILURE"
        /\ UNCHANGED <<op, mRsysFds, conn, toHost, backlog, served>>
    BY DEF RecvFails, Returns, Go, TypeOK, avars
  <1>2. Parted(p)
    BY <1>1 DEF Ordered, Attended, Pending
  <1>3. Parted(p)'
    BY <1>1, <1>2 DEF Parted, Queued, Back
  <1>4. QED
    BY <1>1, <1>3 DEF Ordered, Truthful

LEMMA DisconnectOrdered ==
    ASSUME TypeOK, NEW p \in Proc, Ordered(p), ~Apart(p), Disconnect(p), limit' = limit
    PROVE  Ordered(p)' /\ Truthful(p)'
  <1>1. /\ hpc[p] = "reply" /\ op[p] \in {"QUIT", "TERMINATE"} /\ op' = op
        /\ Receives(p) /\ Taken(p) /\ UNCHANGED <<backlog, served>>
    BY DEF Disconnect, avars
  <1>2. Parted(p) /\ conn[p] = "left" /\ Back(p, <<Msg(op[p], 0)>>)
    BY <1>1, Receiving DEF Executing, Managing, Getting, Putting, Parted
  <1>3. Received(p).type = op[p] /\ Back(p, <<>>)'
    BY <1>1, <1>2, ReceivedOne, WireHas
  <1>4. conn'[p] = "closed" /\ hpc'[p] = "idle"
    BY <1>3 DEF Disconnect, Returns, Go, TypeOK
  <1>5. Parted(p)'
    BY <1>1, <1>2, <1>3, <1>4 DEF Parted, Queued
  <1>6. QED
    BY <1>1, <1>5 DEF Ordered, Truthful

LEMMA EndingOrdered ==
    ASSUME TypeOK, Queue, NEW p \in Proc, Ordered(p), ~Apart(p), Join(p) \/ Destroy(p) \/ Destroyed(p),
           limit' = limit
    PROVE  Ordered(p)' /\ Truthful(p)'
  <1>1. /\ hpc'[p] \in {"joined", "destroy", "destroyed"}
        /\ UNCHANGED <<op, left, mRsysFds, backlog, apc, served, aleft, did>>
    BY DEF Join, Destroy, Destroyed, Go, TypeOK, avars
  <1>2. Truthful(p)'
    BY <1>1 DEF Truthful
  <1>3. Queued(p)' <=> Queued(p)
    BY <1>1, LaborerAgentSame
  <1>4. CASE Join(p)
    <2>1. hpc[p] = "idle" /\ hpc'[p] = "joined" /\ UNCHANGED <<conn, toAgent, toHost>>
      BY <1>4 DEF Join, Go, TypeOK
    <2>2. CASE Parted(p)
      BY <1>1, <1>2, <1>3, <2>1, <2>2 DEF Ordered, Parted, AllTaken, Sent, Back
    <2>3. CASE ~Parted(p)
      <3>1. ((Attended(p) /\ apc = "header") \/ Pending(p)) /\ Between(p)
        BY <2>1, <2>3 DEF Ordered, Attended, Pending, Executing, Managing, Getting, Putting, Requesting
      <3>2. Between(p)'
        BY <2>1, <3>1 DEF Between, AllTaken, Sent, Back
      <3>3. QED
        BY <1>1, <1>2, <1>3, <2>1, <3>1, <3>2 DEF Ordered, Attended, Pending
    <2>4. QED
      BY <2>2, <2>3
  <1>5. CASE Destroy(p) /\ (~mRsysFds[p] \/ Broken(p))
    <2>1. hpc[p] = "joined" /\ hpc'[p] = "destroyed" /\ UNCHANGED <<conn, toAgent, toHost>>
      BY <1>5 DEF Destroy, Turn, Go, TypeOK
    <2>2. Parted(p)
      BY <1>5 DEF Ordered, Attended, Pending, Broken, Queue
    <2>3. QED
      BY <1>1, <1>2, <1>3, <2>1, <2>2 DEF Ordered, Parted, AllTaken, Sent, Back
  <1>6. CASE Destroy(p) /\ mRsysFds[p] /\ ~Broken(p)
    <2>1. /\ hpc[p] = "joined" /\ hpc'[p] = "destroy" /\ Send(p, Msg("QUIT", 0))
          /\ UNCHANGED <<conn, toHost>>
      BY <1>6 DEF Destroy, Turn, Go, TypeOK
    <2>2. conn[p] = "open" /\ Between(p)
      BY <1>6, <2>1, IdleBetween DEF Broken
    <2>3. (Attended(p) /\ apc = "header") \/ Pending(p)
      BY <2>1, <2>2 DEF Ordered, Parted, Attended, Executing, Managing, Getting, Putting
    <2>4. Sent(p, <<Msg("QUIT", 0)>>)' /\ Back(p, <<>>)'
      BY <2>1, <2>2, SentOne, WireHas DEF Between, AllTaken, Back
    <2>5. Requesting(p)'
      BY <2>1, <2>4 DEF Requesting
    <2>6. QED
      BY <1>1, <1>2, <1>3, <2>1, <2>2, <2>3, <2>5 DEF Ordered, Attended, Pending
  <1>7. CASE Destroyed(p) /\ Receives(p)
    <2>1. hpc[p] = "destroy" /\ hpc'[p] = "destroyed" /\ Taken(p)
      BY <1>7 DEF Destroyed, Go, TypeOK
    <2>2. Parted(p) /\ conn[p] = "left" /\ Back(p, <<Msg("QUIT", 0)>>)
      BY <1>7, <2>1, Receiving DEF Executing, Managing, Getting, Putting, Parted
    <2>3. Received(p).type = "QUIT" /\ Back(p, <<>>)'
      BY <1>7, <2>1, <2>2, ReceivedOne, WireHas
    <2>4. conn'[p] = "closed"
      BY <1>7, <2>3 DEF Destroyed, TypeOK
    <2>5. Parted(p)'
      BY <1>1, <1>3, <2>1, <2>2, <2>3, <2>4 DEF Parted
    <2>6. QED
      BY <1>2, <2>5 DEF Ordered
  <1>8. CASE Destroyed(p) /\ ~Receives(p)
    <2>1. conn[p] = "reset" /\ hpc'[p] = "destroyed" /\ UNCHANGED <<conn, toHost>>
      BY <1>8 DEF Destroyed, Go, TypeOK
    <2>2. Parted(p)
      BY <2>1 DEF Ordered, Attended, Pending
    <2>3. QED
      BY <1>1, <1>2, <1>3, <2>1, <2>2 DEF Ordered, Parted, Back
  <1>9. QED
    BY <1>4, <1>5, <1>6, <1>7, <1>8

(* A step of a laborer, for its own connection and for the others. *)
LEMMA LaborerOrdered ==
    ASSUME TypeOK, Queue, NEW p \in Proc, Ordered(p), Truthful(p), LaborerStep(p)
    PROVE  Ordered(p)' /\ Truthful(p)'
  <1>0. limit' = limit
    BY DEF LaborerStep
  <1>1. CASE LogonRsystem(p)
    BY <1>0, <1>1, LogonOrdered
  <1>2. CASE ExecuteFails(p) \/ GetFails(p) \/ PutFails(p) \/ NothingAsked(p)
    BY <1>0, <1>2, UnsentOrdered
  <1>3. ASSUME NEW o \in Ops, Request(p, o)
        PROVE  Ordered(p)' /\ Truthful(p)'
    <2>1. Ordered(p)'
      BY <1>0, <1>3, RequestOrdered
    <2>2. hpc'[p] = "reply" \/ result'[p] = "FAILURE"
      BY <1>3 DEF Request, Returns, Go, TypeOK
    <2>3. QED
      BY <2>1, <2>2 DEF Truthful
  <1>4. CASE ~Apart(p) /\ \/ RecvFails(p) \/ ExecuteOpt(p) \/ ManageOpt(p) \/ GetOpt(p)
                           \/ GetBlock(p) \/ Got(p) \/ PutOpt(p) \/ PutReadFails(p)
                           \/ PutBlock(p) \/ PutAck(p) \/ Disconnect(p)
                           \/ Join(p) \/ Destroy(p) \/ Destroyed(p)
    BY <1>0, <1>4, RecvFailsOrdered, ExecuteOptOrdered, ManageOptOrdered, GetOptOrdered,
       GetBlockOrdered, GotOrdered, PutAnswerOrdered, PutReadFailsOrdered, PutBlockOrdered,
       DisconnectOrdered, EndingOrdered
  <1>6. CASE Apart(p)
    BY <1>6, ApartLast, ApartStays DEF Ordered
  <1>5. QED
    BY <1>1, <1>2, <1>3, <1>4, <1>6 DEF LaborerStep

LEMMA LaborerOthersTruthful ==
    ASSUME TypeOK, NEW p \in Proc, LaborerStep(p), NEW q \in Proc \ {p}, Truthful(q)
    PROVE  Truthful(q)'
  <1> USE DEF TypeOK, Go, Returns
  <1>1. limit' = limit
    BY DEF LaborerStep
  <1>2. ASSUME hpc'[q] = hpc[q], op'[q] = op[q], result'[q] = result[q], did'[q] = did[q]
        PROVE  Truthful(q)'
    BY <1>1, <1>2 DEF Truthful, Unchecked
  <1>3. ASSUME NEW o \in Ops, Request(p, o)
        PROVE  Truthful(q)'
    BY <1>2, <1>3 DEF Request
  <1>4. CASE LogonRsystem(p) \/ ExecuteFails(p) \/ GetFails(p) \/ PutFails(p) \/ NothingAsked(p)
    BY <1>2, <1>4 DEF LogonRsystem, ExecuteFails, GetFails, PutFails, NothingAsked, NotSent, avars
  <1>5. CASE RecvFails(p) \/ ExecuteOpt(p) \/ ManageOpt(p) \/ GetOpt(p) \/ GetBlock(p) \/ Got(p)
    BY <1>2, <1>5 DEF RecvFails, ExecuteOpt, ManageOpt, GetOpt, GetBlock, Got, avars
  <1>6. CASE PutOpt(p) \/ PutReadFails(p) \/ PutBlock(p) \/ PutAck(p)
    BY <1>2, <1>6 DEF PutOpt, PutReadFails, PutBlock, PutAck, avars
  <1>7. CASE Disconnect(p) \/ Join(p) \/ Destroy(p) \/ Destroyed(p)
    BY <1>2, <1>7 DEF Disconnect, Join, Destroy, Destroyed, avars
  <1>8. QED
    BY <1>3, <1>4, <1>5, <1>6, <1>7 DEF LaborerStep

-----------------------------------------------------------------------------
(* The agent's steps. *)
LEMMA AnsweredOne ==
    ASSUME TypeOK, NEW p \in Proc, served = p, NEW t \in Wire, NEW n \in Nat,
           Answers(<<Msg(t, n)>>), Back(p, <<>>)
    PROVE  Back(p, <<Msg(t, n)>>)'
  <1>1. toHost'[p] = toHost[p] \o <<Msg(t, n)>> /\ toHost[p] = <<>>
    BY DEF Answers, Back, TypeOK
  <1>2. <<>> \o <<Msg(t, n)>> = <<Msg(t, n)>>
    BY MessageType, OneMessage
  <1>3. QED
    BY <1>1, <1>2 DEF Back

LEMMA AnsweredTwo ==
    ASSUME TypeOK, NEW p \in Proc, served = p,
           NEW t \in Wire, NEW n \in Nat, NEW u \in Wire, NEW k \in Nat,
           Answers(<<Msg(t, n), Msg(u, k)>>), Back(p, <<>>)
    PROVE  Back(p, <<Msg(t, n), Msg(u, k)>>)'
  <1>1. toHost'[p] = toHost[p] \o <<Msg(t, n), Msg(u, k)>> /\ toHost[p] = <<>>
    BY DEF Answers, Back, TypeOK
  <1>2. <<>> \o <<Msg(t, n), Msg(u, k)>> = <<Msg(t, n), Msg(u, k)>>
    BY MessageType, TwoMessages
  <1>3. QED
    BY <1>1, <1>2 DEF Back

LEMMA AnsweredMore ==
    ASSUME TypeOK, NEW p \in Proc, served = p,
           NEW t \in Wire, NEW n \in Nat, NEW u \in Wire, NEW k \in Nat,
           Answers(<<Msg(u, k)>>), Back(p, <<Msg(t, n)>>)
    PROVE  Back(p, <<Msg(t, n), Msg(u, k)>>)'
  <1>1. toHost'[p] = toHost[p] \o <<Msg(u, k)>> /\ toHost[p] = <<Msg(t, n)>>
    BY DEF Answers, Back, TypeOK
  <1>2. <<Msg(t, n)>> \o <<Msg(u, k)>> = <<Msg(t, n), Msg(u, k)>>
    BY MessageType, TwoMessages
  <1>3. QED
    BY <1>1, <1>2 DEF Back

(* What the agent reads as a request is the request of its laborer. *)
LEMMA Requested ==
    ASSUME TypeOK, NEW p \in Proc, served = p, Attended(p), AtPlace("header"),
           NEW types, Asked(types), Took
    PROVE  /\ Back(p, <<>>) /\ Sent(p, <<>>)' /\ Head(toAgent[p]).type \in types
           /\ \/ /\ hpc[p] = "reply" /\ Head(toAgent[p]).type = op[p]
                 /\ Head(toAgent[p]).size \in Blocks
                 /\ op[p] = "PUT" => left[p] = Head(toAgent[p]).size
              \/ hpc[p] = "destroy" /\ Head(toAgent[p]).type = "QUIT"
  <1>1. toAgent[p] # <<>> /\ Head(toAgent[p]).type \in types
    BY DEF Asked
  <1>2. Requesting(p)
    BY <1>1 DEF Attended, AtPlace, Between, AllTaken, Executing, Managing, Getting, Putting, Sent
  <1>3. \A t : \A n \in Blocks : /\ Head(<<Msg(t, n)>>).type = t /\ Head(<<Msg(t, n)>>).size = n
                                 /\ Tail(<<Msg(t, n)>>) = <<>>
    BY DEF Msg
  <1>4. toAgent'[p] = Tail(toAgent[p])
    BY DEF Took, TypeOK
  <1>5. CASE hpc[p] = "reply"
    <2>1. PICK n \in Blocks : toAgent[p] = <<Msg(op[p], n)>> /\ (op[p] = "PUT" => left[p] = n)
      BY <1>2, <1>5 DEF Requesting, Sent
    <2>2. /\ Head(toAgent[p]).type = op[p] /\ Head(toAgent[p]).size = n /\ Tail(toAgent[p]) = <<>>
      BY <1>3, <2>1
    <2>3. QED
      BY <1>1, <1>2, <1>4, <1>5, <2>1, <2>2 DEF Requesting, Sent
  <1>6. CASE hpc[p] = "destroy"
    <2>1. toAgent[p] = <<Msg("QUIT", 0)>> /\ 0 \in Blocks
      BY <1>2, <1>6, WireHas DEF Requesting, Sent
    <2>2. Head(toAgent[p]).type = "QUIT" /\ Tail(toAgent[p]) = <<>>
      BY <1>3, <2>1
    <2>3. QED
      BY <1>1, <1>2, <1>4, <1>6, <2>2 DEF Requesting, Sent
  <1>7. QED
    BY <1>2, <1>5, <1>6 DEF Requesting

(* No step of the agent that is about a laborer between two commands. *)
LEMMA AgentIdle ==
    ASSUME TypeOK, Queue, NEW p \in Proc, served = p, Ordered(p), ~Apart(p), hpc[p] = "idle"
    PROVE  ~AgentStep
  <1>1. Attended(p) /\ Between(p) /\ apc = "header"
    BY DEF Ordered, Attended, Pending, Parted, Requesting, Executing, Managing, Getting, Putting
  <1>2. toAgent[served] = <<>>
    BY <1>1 DEF Between, AllTaken, Sent
  <1>3. QED
    BY <1>1, <1>2 DEF AgentStep, Accept, HandleFile, CopyFile, Exec, ExecMessage, ExecAck, ExecEnds,
       GetFile, SendBlock, GetReadFails, BlockAcknowledged, PutFile, WriteBlock, WriteFails, PutEnds,
       Quit, Terminate, AtPlace, Asked

LEMMA ExecOrdered ==
    ASSUME TypeOK, NEW p \in Proc, served = p, Attended(p),
           limit' = limit,
           HandleFile \/ CopyFile \/ Exec \/ ExecMessage \/ ExecAck \/ ExecEnds
    PROVE  Ordered(p)'
  <1>1. UNCHANGED <<hvars, conn, served>>
    BY DEF HandleFile, CopyFile, Exec, ExecMessage, ExecAck, ExecEnds
  <1>2. CASE HandleFile \/ CopyFile
    <2>1. /\ hpc[p] = "reply" /\ op[p] \in {"MANAGE", "COPY"} /\ (CopyFile => op[p] = "COPY")
          /\ Back(p, <<>>) /\ Sent(p, <<>>)' /\ apc' = "header"
      <3>1. CASE CopyFile
        <4>1. AtPlace("header") /\ Asked({"COPY"}) /\ Took /\ apc' = apc /\ apc = "header"
          BY <3>1 DEF CopyFile, AtPlace
        <4>2. /\ Back(p, <<>>) /\ Sent(p, <<>>)' /\ hpc[p] = "reply" /\ op[p] = "COPY"
          BY <4>1, Requested
        <4>3. QED
          BY <4>1, <4>2
      <3>2. CASE HandleFile /\ ~CopyFile
        BY <3>2, Requested DEF HandleFile, AtPlace
      <3>3. QED
        BY <1>2, <3>1, <3>2
    <2>3. PICK ok \in BOOLEAN, did_ \in BOOLEAN :
             /\ Ok(did_) /\ Answers(<<Msg(IF ok THEN "SUCCESS" ELSE "FAILURE", 0)>>)
             /\ ok /\ ~did_ => /\ op[p] = "COPY"
                              /\ {"agent reads", "agent writes"} \cap limit.fails # {}
      <3>1. CASE HandleFile
        BY <3>1 DEF HandleFile, Answered
      <3>2. CASE CopyFile
        <4>1. PICK ok, whole \in BOOLEAN :
                 /\ whole \/ {"agent reads", "agent writes"} \cap limit.fails # {}
                 /\ Ok(ok /\ whole) /\ Answered(ok)
          BY <3>2 DEF CopyFile
        <4>2. (ok /\ whole) \in BOOLEAN
          OBVIOUS
        <4>3. QED
          BY <2>1, <3>2, <4>1, <4>2 DEF Answered
      <3>3. QED
        BY <1>2, <3>1, <3>2
    <2>4. ok => did'[p] = "yes" \/ Unchecked(p)'
      BY <1>1, <2>3 DEF Ok, Unchecked, TypeOK, hvars
    <2>5. PICK t \in {"SUCCESS", "FAILURE"} :
             Answers(<<Msg(t, 0)>>) /\ (t = "SUCCESS" => did'[p] = "yes" \/ Unchecked(p)')
      BY <2>3, <2>4
    <2>6. Back(p, <<Msg(t, 0)>>)'
      BY <2>1, <2>5, AnsweredOne, WireHas
    <2>7. Managing(p)'
      BY <1>1, <2>1, <2>5, <2>6 DEF Managing, hvars
    <2>8. QED
      BY <1>1, <2>7, StillAttended
  <1>3. CASE Exec
    <2>1. hpc[p] = "reply" /\ op[p] = "EXECUTE" /\ Back(p, <<>>) /\ Sent(p, <<>>)' /\ apc = "header"
      BY <1>3, Requested DEF Exec, AtPlace
    <2>2. CASE Answers(<<Msg("FAILURE", 0)>>) /\ UNCHANGED apc
      <3>1. Back(p, <<Msg("FAILURE", 0)>>)'
        BY <2>1, <2>2, AnsweredOne, WireHas
      <3>2. Executing(p)'
        BY <1>1, <2>1, <2>2, <3>1 DEF Executing, hvars
      <3>3. QED
        BY <1>1, <3>2, StillAttended
    <2>3. CASE apc' = "exec" /\ UNCHANGED toHost
      <3>1. Executing(p)'
        BY <1>1, <2>1, <2>3 DEF Executing, AllTaken, Back, hvars
      <3>2. QED
        BY <1>1, <3>1, StillAttended
    <2>4. QED
      BY <1>3, <2>2, <2>3 DEF Exec
  <1>4. CASE ExecMessage \/ ExecEnds
    <2>1. Executing(p) /\ AllTaken(p) /\ apc = "exec" /\ UNCHANGED toAgent
      BY <1>4 DEF ExecMessage, ExecEnds, AtPlace, Attended, Executing, Managing, Getting, Putting
    <2>2. CASE ExecMessage
      <3>1. Back(p, <<Msg("MESSAGE", 1)>>)' /\ apc' = "execack"
        BY <2>1, <2>2, AnsweredOne, WireHas DEF ExecMessage, AllTaken
      <3>2. Executing(p)'
        BY <1>1, <2>1, <3>1 DEF Executing, AllTaken, Sent, hvars
      <3>3. QED
        BY <1>1, <3>2, StillAttended
    <2>3. CASE ExecEnds
      <3>1. Back(p, <<Msg("SUCCESS", 0)>>)' /\ apc' = "header"
        BY <2>1, <2>3, AnsweredOne, WireHas DEF ExecEnds, AllTaken
      <3>2. Executing(p)'
        BY <1>1, <2>1, <3>1 DEF Executing, AllTaken, Sent, hvars
      <3>3. QED
        BY <1>1, <3>2, StillAttended
    <2>4. QED
      BY <1>4, <2>2, <2>3
  <1>5. CASE ExecAck
    <2>1. apc = "execack" /\ toAgent[p] # <<>> /\ Took /\ apc' = "exec" /\ UNCHANGED toHost
      BY <1>5 DEF ExecAck, AtPlace
    <2>2. Executing(p) /\ Sent(p, <<Msg("SUCCESS", 0)>>) /\ Back(p, <<>>)
      BY <2>1 DEF Attended, Executing, Managing, Getting, Putting, Sent, AllTaken
    <2>3. Tail(<<Msg("SUCCESS", 0)>>) = <<>>
      BY MessageType, OneMessage, WireHas
    <2>4. Sent(p, <<>>)'
      BY <2>1, <2>2, <2>3 DEF Took, Sent, TypeOK
    <2>5. Executing(p)'
      BY <1>1, <2>1, <2>2, <2>4 DEF Executing, AllTaken, Back, hvars
    <2>6. QED
      BY <1>1, <2>5, StillAttended
  <1>6. QED
    BY <1>2, <1>3, <1>4, <1>5

LEMMA GetFileOrdered ==
    ASSUME TypeOK, NEW p \in Proc, served = p, Attended(p), GetFile
    PROVE  Ordered(p)'
  <1>1. UNCHANGED <<hvars, conn, served>>
    BY DEF GetFile
  <1>2. hpc[p] = "reply" /\ op[p] = "GET" /\ Back(p, <<>>) /\ Sent(p, <<>>)' /\ apc = "header"
    BY Requested DEF GetFile, AtPlace
  <1>3. CASE Answers(<<Msg("FAILURE", 0)>>) /\ UNCHANGED apc
    <2>1. Back(p, <<Msg("FAILURE", 0)>>)'
      BY <1>2, <1>3, AnsweredOne, WireHas
    <2>2. Getting(p)'
      BY <1>1, <1>2, <1>3, <2>1 DEF Getting, hvars
    <2>3. QED
      BY <1>1, <2>2, StillAttended
  <1>4. CASE Answers(<<Msg("info", 0), Msg("SUCCESS", 0)>>) /\ Ok(TRUE) /\ UNCHANGED apc
    <2>1. Back(p, <<Msg("info", 0), Msg("SUCCESS", 0)>>)'
      BY <1>2, <1>4, AnsweredTwo, WireHas
    <2>2. did'[p] = "yes"
      BY <1>4 DEF Ok, TypeOK
    <2>3. Getting(p)'
      BY <1>1, <1>2, <1>4, <2>1, <2>2 DEF Getting, hvars
    <2>4. QED
      BY <1>1, <2>3, StillAttended
  <1>5. ASSUME NEW n \in Blocks \ {0}, Answers(<<Msg("info", n)>>), aleft' = n, apc' = "get"
        PROVE  Ordered(p)'
    <2>1. n \in Nat /\ n > 0
      BY <1>5 DEF Blocks
    <2>2. Back(p, <<Msg("info", n)>>)'
      BY <1>2, <1>5, <2>1, AnsweredOne, WireHas
    <2>3. Getting(p)'
      BY <1>1, <1>2, <1>5, <2>1, <2>2 DEF Getting, hvars
    <2>4. QED
      BY <1>1, <2>3, StillAttended
  <1>6. QED
    BY <1>3, <1>4, <1>5 DEF GetFile

LEMMA SendBlockOrdered ==
    ASSUME TypeOK, NEW p \in Proc, served = p, Attended(p), SendBlock
    PROVE  Ordered(p)'
  <1>1. UNCHANGED <<hvars, conn, toAgent, served, aleft>> /\ Answers(<<Msg("block", 0)>>)
    BY DEF SendBlock
  <1>2. apc = "get" /\ apc' = "getack" /\ Getting(p) /\ aleft > 0 /\ aleft \in Nat /\ Sent(p, <<>>)
    BY DEF SendBlock, AtPlace, Attended, Executing, Managing, Getting, Putting, TypeOK
  <1>3. CASE hpc[p] = "reply" /\ Back(p, <<Msg("info", aleft)>>)
    <2>1. Back(p, <<Msg("info", aleft), Msg("block", 0)>>)'
      BY <1>1, <1>2, <1>3, AnsweredMore, WireHas
    <2>2. Getting(p)'
      BY <1>1, <1>2, <1>3, <2>1 DEF Getting, Sent, Back, hvars
    <2>3. QED
      BY <1>1, <2>2, StillAttended
  <1>4. CASE hpc[p] = "get" /\ Back(p, <<>>) /\ left[p] >= aleft
    <2>1. Back(p, <<Msg("block", 0)>>)'
      BY <1>1, <1>4, AnsweredOne, WireHas
    <2>2. Getting(p)'
      BY <1>1, <1>2, <1>4, <2>1 DEF Getting, Sent, Back, hvars
    <2>3. QED
      BY <1>1, <2>2, StillAttended
  <1>5. QED
    BY <1>2, <1>3, <1>4 DEF Getting

(* The agent breaks the get off. *)
LEMMA GetReadFailsOrdered ==
    ASSUME TypeOK, NEW p \in Proc, served = p, Attended(p), GetReadFails
    PROVE  Ordered(p)'
  <1>1. UNCHANGED <<hvars, conn, toAgent, toHost, served, aleft>> /\ apc' = "header"
    BY DEF GetReadFails
  <1>2. apc = "get" /\ Getting(p)
    BY DEF GetReadFails, AtPlace, Attended, Executing, Managing, Putting
  <1>3. Getting(p)'
    BY <1>1, <1>2 DEF Getting, Sent, Back, hvars
  <1>4. QED
    BY <1>1, <1>3, StillAttended

LEMMA BlockAcknowledgedOrdered ==
    ASSUME TypeOK, NEW p \in Proc, served = p, Attended(p), BlockAcknowledged
    PROVE  Ordered(p)'
  <1>1. UNCHANGED <<hvars, conn, served>> /\ Took /\ toAgent[p] # <<>> /\ aleft' = aleft - 1
    BY DEF BlockAcknowledged
  <1>2. apc = "getack" /\ Getting(p) /\ aleft > 0
    BY DEF BlockAcknowledged, AtPlace, Attended, Executing, Managing, Getting, Putting
  <1>3. /\ Sent(p, <<Msg("SUCCESS", 0)>>) /\ Back(p, <<>>)
        /\ left[p] >= aleft - 1 /\ hpc[p] = IF left[p] = 0 THEN "got" ELSE "get"
    BY <1>1, <1>2 DEF Getting, Sent
  <1>4. Tail(<<Msg("SUCCESS", 0)>>) = <<>>
    BY MessageType, OneMessage, WireHas
  <1>5. Sent(p, <<>>)'
    BY <1>1, <1>3, <1>4 DEF Took, Sent, TypeOK
  <1>6. CASE aleft = 1
    <2>1. Answers(<<Msg("SUCCESS", 0)>>) /\ did'[p] = "yes" /\ apc' = "header"
      BY <1>6 DEF BlockAcknowledged, Ok, TypeOK
    <2>2. Back(p, <<Msg("SUCCESS", 0)>>)'
      BY <1>3, <2>1, AnsweredOne, WireHas
    <2>3. left[p] = 0 \/ left[p] > 0
      BY <1>3, <1>6 DEF TypeOK
    <2>4. Getting(p)'
      BY <1>1, <1>2, <1>3, <1>5, <2>1, <2>2, <2>3 DEF Getting, hvars
    <2>5. QED
      BY <1>1, <2>4, StillAttended
  <1>7. CASE aleft # 1
    <2>1. apc' = "get" /\ UNCHANGED toHost
      BY <1>7 DEF BlockAcknowledged
    <2>2. aleft' > 0 /\ left[p] >= aleft' /\ left[p] # 0
      BY <1>1, <1>2, <1>3, <1>7 DEF TypeOK
    <2>3. Getting(p)'
      BY <1>1, <1>2, <1>3, <1>5, <2>1, <2>2 DEF Getting, Back, hvars
    <2>4. QED
      BY <1>1, <2>3, StillAttended
  <1>8. QED
    BY <1>6, <1>7

LEMMA PutFileOrdered ==
    ASSUME TypeOK, NEW p \in Proc, served = p, Attended(p), PutFile
    PROVE  Ordered(p)'
  <1>1. UNCHANGED <<hvars, conn, served>>
    BY DEF PutFile
  <1>2. /\ hpc[p] = "reply" /\ op[p] = "PUT" /\ Back(p, <<>>) /\ Sent(p, <<>>)' /\ apc = "header"
        /\ left[p] = Head(toAgent[p]).size /\ left[p] \in Blocks
    BY Requested DEF PutFile, AtPlace
  <1>3. CASE Answers(<<Msg("FAILURE", 0)>>) /\ UNCHANGED apc
    <2>1. Back(p, <<Msg("FAILURE", 0)>>)'
      BY <1>2, <1>3, AnsweredOne, WireHas
    <2>2. Putting(p)'
      BY <1>1, <1>2, <1>3, <2>1 DEF Putting, hvars
    <2>3. QED
      BY <1>1, <2>2, StillAttended
  <1>4. CASE /\ Answers(<<Msg("SUCCESS", 0)>>)
             /\ IF left[p] = 0 THEN Ok(TRUE) /\ UNCHANGED <<apc, aleft>>
                ELSE apc' = "put" /\ aleft' = left[p]
    <2>1. Back(p, <<Msg("SUCCESS", 0)>>)'
      BY <1>2, <1>4, AnsweredOne, WireHas
    <2>2. CASE left[p] = 0
      <3>1. did'[p] = "yes" /\ apc' = "header"
        BY <1>2, <1>4, <2>2 DEF Ok, TypeOK
      <3>2. Putting(p)'
        BY <1>1, <1>2, <2>1, <2>2, <3>1 DEF Putting, hvars
      <3>3. QED
        BY <1>1, <3>2, StillAttended
    <2>3. CASE left[p] # 0
      <3>1. apc' = "put" /\ aleft' = left[p] /\ left[p] > 0
        BY <1>2, <1>4, <2>3 DEF Blocks
      <3>2. Putting(p)'
        BY <1>1, <1>2, <2>1, <3>1 DEF Putting, hvars
      <3>3. QED
        BY <1>1, <3>2, StillAttended
    <2>4. QED
      BY <2>2, <2>3
  <1>5. QED
    BY <1>2, <1>3, <1>4 DEF PutFile

LEMMA WriteBlockOrdered ==
    ASSUME TypeOK, NEW p \in Proc, served = p, Attended(p), ~Spoilt(p), WriteBlock
    PROVE  Ordered(p)'
  <1>2. apc = "put" /\ Putting(p) /\ aleft > 0
    BY DEF WriteBlock, AtPlace, Attended, Executing, Managing, Getting, Putting
  <1>1. /\ UNCHANGED <<hvars, conn, served>> /\ Took /\ toAgent[p] # <<>> /\ aleft' = aleft - 1
        /\ Answers(<<Msg("SUCCESS", 0)>>)
    BY <1>2 DEF WriteBlock, Asked, Spoilt, Putting
  <1>3. /\ Sent(p, <<Msg("block", 0)>>) /\ Back(p, <<>>) /\ left[p] = aleft - 1 /\ hpc[p] = "putack"
    BY <1>1, <1>2 DEF Putting, AllTaken, Sent
  <1>4. Tail(<<Msg("block", 0)>>) = <<>>
    BY MessageType, OneMessage, WireHas
  <1>5. Sent(p, <<>>)' /\ Back(p, <<Msg("SUCCESS", 0)>>)'
    BY <1>1, <1>3, <1>4, AnsweredOne, WireHas DEF Took, Sent, TypeOK
  <1>6. CASE aleft = 1
    <2>1. did'[p] = "yes" /\ apc' = "header" /\ left[p] = 0
      BY <1>1, <1>3, <1>6 DEF WriteBlock, Ok, TypeOK
    <2>2. Putting(p)'
      BY <1>1, <1>2, <1>3, <1>5, <2>1 DEF Putting, hvars
    <2>3. QED
      BY <1>1, <2>2, StillAttended
  <1>7. CASE aleft # 1
    <2>1. apc' = "put" /\ aleft' > 0
      BY <1>1, <1>2, <1>7 DEF WriteBlock, TypeOK
    <2>2. Putting(p)'
      BY <1>1, <1>2, <1>3, <1>5, <2>1 DEF Putting, hvars
    <2>3. QED
      BY <1>1, <2>2, StillAttended
  <1>8. QED
    BY <1>6, <1>7

(* The agent leaves the connection. *)
LEMMA LeavingOrdered ==
    ASSUME TypeOK, Queue, NEW p \in Proc, served = p, Attended(p), Quit \/ Terminate
    PROVE  Ordered(p)'
  <1>1. /\ UNCHANGED <<hpc, op, mRsysFds>> /\ conn'[p] = "left" /\ served' # p
    BY QueueParts DEF Quit, Terminate, hvars, TypeOK
  <1>2. ~Queued(p)'
    <2>1. CASE Quit
      <3>1. backlog' = backlog /\ \A i \in DOMAIN backlog : backlog[i] # served
        BY <2>1 DEF Quit, Queue
      <3>2. QED
        BY <3>1 DEF Queued
    <2>2. CASE Terminate
      BY <2>2 DEF Terminate, Queued
    <2>3. QED
      BY <2>1, <2>2
  <1>3. CASE Quit
    <2>1. /\ Back(p, <<>>) /\ Sent(p, <<>>)'
          /\ hpc[p] = "destroy" \/ (hpc[p] = "reply" /\ op[p] = "QUIT")
      BY <1>3, Requested DEF Quit
    <2>2. Back(p, <<Msg("QUIT", 0)>>)'
      BY <1>3, <2>1, AnsweredOne, WireHas DEF Quit
    <2>3. Parted(p)'
      BY <1>1, <1>2, <2>1, <2>2 DEF Parted, Back
    <2>4. QED
      BY <2>3 DEF Ordered
  <1>4. CASE Terminate
    <2>1. /\ Back(p, <<>>) /\ Sent(p, <<>>)' /\ hpc[p] = "reply" /\ op[p] = "TERMINATE"
      BY <1>4, Requested DEF Terminate
    <2>2. Back(p, <<Msg("TERMINATE", 0)>>)'
      BY <1>4, <2>1, AnsweredOne, WireHas DEF Terminate
    <2>3. Parted(p)'
      BY <1>1, <1>2, <2>1, <2>2 DEF Parted, Back
    <2>4. QED
      BY <2>3 DEF Ordered
  <1>5. QED
    BY <1>3, <1>4

(* A step of the agent for the laborer it serves, for the one it accepts,  *)
(* and for those whose connections it resets or does not touch.            *)
LEMMA ServedOrdered ==
    ASSUME TypeOK, Queue, NEW p \in Proc, served = p, Ordered(p), Truthful(p), AgentStep
    PROVE  Ordered(p)' /\ Truthful(p)'
  <1>0. limit' = limit /\ hpc' = hpc /\ op' = op /\ result' = result
    BY DEF AgentStep, Accept, HandleFile, CopyFile, Exec, ExecMessage, ExecAck, ExecEnds, GetFile,
       SendBlock, GetReadFails, BlockAcknowledged, PutFile, WriteBlock, WriteFails, PutEnds, Quit,
       Terminate, hvars
  <1>1. CASE Apart(p)
    BY <1>0, <1>1 DEF Apart, Spoilt, BrokenOff, Ordered, Truthful, Unchecked
  <1>2. CASE ~Apart(p)
    <2>1. hpc[p] # "idle"
      BY <1>2, AgentIdle
    <2>2. Truthful(p)'
      BY <1>0, <2>1 DEF Truthful
    <2>3. Attended(p) /\ ~Spoilt(p)
      BY <1>2 DEF Ordered, Pending, Parted, Apart
    <2>4. ~Accept
      BY QueueParts DEF Accept, Queue
    <2>5. ~WriteFails /\ ~PutEnds
      <3>1. apc = "put" => Putting(p)
        BY <2>3 DEF Attended, Executing, Managing, Getting
      <3>2. ~WriteFails
        BY <2>3, <3>1 DEF WriteFails, AtPlace, Spoilt, Putting
      <3>3. ASSUME PutEnds PROVE FALSE
        <4>1. toAgent[p] = <<Msg("block", 0)>>
          BY <3>1, <3>3 DEF PutEnds, AtPlace, Asked, Putting, AllTaken, Sent
        <4>2. Head(toAgent[p]) = Msg("block", 0) /\ Msg("block", 0).type = "block"
          BY <4>1, MessageType, OneMessage, WireHas
        <4>3. QED
          BY <3>3, <4>2 DEF PutEnds, Asked
      <3>4. QED
        BY <3>2, <3>3
    <2>6. QED
      BY <1>0, <2>2, <2>3, <2>4, <2>5, ExecOrdered, GetFileOrdered, SendBlockOrdered,
         GetReadFailsOrdered, BlockAcknowledgedOrdered, PutFileOrdered, WriteBlockOrdered,
         LeavingOrdered DEF AgentStep
  <1>3. QED
    BY <1>1, <1>2

LEMMA AcceptOrdered ==
    ASSUME TypeOK, Queue, NEW q \in Proc, Ordered(q), Accept, limit' = limit
    PROVE  Ordered(q)'
  <1>1. /\ backlog \in Seq(Proc) /\ backlog # <<>> /\ served = Nobody /\ q # Nobody
        /\ served' = Head(backlog) /\ backlog' = Tail(backlog) /\ apc' = "header"
        /\ UNCHANGED <<hpc, op, left, result, mRsysFds, conn, toAgent, toHost, aleft, did>>
    BY QueueParts DEF Accept, Queue, TypeOK, hvars
  <1>2. /\ DOMAIN backlog = 1..Len(backlog) /\ Len(backlog) \in Nat /\ Len(backlog) > 0
        /\ DOMAIN backlog' = 1..(Len(backlog) - 1)
        /\ \A i \in 1..(Len(backlog) - 1) : backlog'[i] = backlog[i + 1]
        /\ served' = backlog[1]
    BY <1>1
  <1>3. CASE served' = q
    <2>1. Queued(q)
      <3>1. 1 \in DOMAIN backlog /\ backlog[1] = q
        BY <1>2, <1>3
      <3>2. QED
        BY <3>1 DEF Queued
    <2>2. CASE Apart(q)
      BY <1>1, <2>2 DEF Apart, Spoilt, BrokenOff, Ordered
    <2>3. CASE ~Apart(q)
      <3>1. Pending(q)
        BY <1>1, <2>1, <2>3 DEF Ordered, Attended, Parted
      <3>2. Attended(q)'
        BY <1>1, <1>3, <3>1 DEF Pending, Attended, Between, Requesting, AllTaken, Sent, Back
      <3>3. QED
        BY <3>2 DEF Ordered
    <2>4. QED
      BY <2>2, <2>3
  <1>4. CASE served' # q
    <2>1. ASSUME NEW i \in DOMAIN backlog', backlog'[i] = q
          PROVE  \E j \in DOMAIN backlog : backlog[j] = q
      <3>1. i + 1 \in DOMAIN backlog /\ backlog[i + 1] = q
        BY <1>2, <2>1
      <3>2. QED
        BY <3>1
    <2>2. ASSUME NEW i \in DOMAIN backlog, backlog[i] = q
          PROVE  \E j \in DOMAIN backlog' : backlog'[j] = q
      <3>1. i \in 1..Len(backlog) /\ i # 1
        BY <1>2, <1>4, <2>2
      <3>2. i - 1 \in 1..(Len(backlog) - 1) /\ (i - 1) + 1 = i
        BY <1>2, <3>1
      <3>3. i - 1 \in DOMAIN backlog' /\ backlog'[i - 1] = q
        BY <1>2, <2>2, <3>2
      <3>4. QED
        BY <3>3
    <2>3. Queued(q)' <=> Queued(q)
      BY <2>1, <2>2 DEF Queued
    <2>4. QED
      BY <1>1, <1>4, <2>3, SameLine
  <1>5. QED
    BY <1>3, <1>4

LEMMA AgentOthers ==
    ASSUME TypeOK, Queue, NEW q \in Proc, served # q, Ordered(q), Truthful(q), AgentStep
    PROVE  Ordered(q)' /\ Truthful(q)'
  <1>0. limit' = limit /\ UNCHANGED hvars
    BY DEF AgentStep, Accept, HandleFile, CopyFile, Exec, ExecMessage, ExecAck, ExecEnds, GetFile,
       SendBlock, GetReadFails, BlockAcknowledged, PutFile, WriteBlock, WriteFails, PutEnds, Quit,
       Terminate
  <1>1. toAgent'[q] = toAgent[q] /\ toHost'[q] = toHost[q] /\ did'[q] = did[q]
    <2>1. /\ \A ms : Answers(ms) => toHost'[q] = toHost[q]
          /\ Took => toAgent'[q] = toAgent[q]
          /\ \A yes \in BOOLEAN : Ok(yes) => did'[q] = did[q]
      BY DEF Answers, Took, Ok, TypeOK
    <2>2. CASE Accept \/ HandleFile \/ CopyFile \/ Exec \/ ExecMessage \/ ExecAck \/ ExecEnds
      BY <2>1, <2>2 DEF Accept, HandleFile, CopyFile, Answered, Exec, ExecMessage, ExecAck, ExecEnds
    <2>3. CASE GetFile \/ SendBlock \/ GetReadFails \/ BlockAcknowledged
      BY <2>1, <2>3 DEF GetFile, SendBlock, GetReadFails, BlockAcknowledged
    <2>4. CASE PutFile \/ WriteBlock \/ WriteFails \/ PutEnds \/ Quit \/ Terminate
      BY <2>1, <2>4 DEF PutFile, WriteBlock, WriteFails, PutEnds, Quit, Terminate
    <2>5. QED
      BY <2>2, <2>3, <2>4 DEF AgentStep
  <1>2. Truthful(q)'
    BY <1>0, <1>1 DEF Truthful, Unchecked, hvars
  <1>3. CASE Accept
    BY <1>0, <1>2, <1>3, AcceptOrdered
  <1>4. q # Nobody
    BY QueueParts
  <1>5. ASSUME conn'[q] = conn[q], backlog' = backlog, served' # q
        PROVE  Ordered(q)' /\ Truthful(q)'
    <2>1. Queued(q)' <=> Queued(q)
      BY <1>5 DEF Queued
    <2>2. QED
      BY <1>0, <1>1, <1>2, <1>5, <2>1, SameLine DEF hvars
  <1>6. CASE HandleFile \/ CopyFile \/ Exec \/ ExecMessage \/ ExecAck \/ ExecEnds \/ GetFile
    BY <1>5, <1>6 DEF HandleFile, CopyFile, Exec, ExecMessage, ExecAck, ExecEnds, GetFile
  <1>7. CASE \/ SendBlock \/ GetReadFails \/ BlockAcknowledged
             \/ PutFile \/ WriteBlock \/ WriteFails \/ PutEnds
    BY <1>5, <1>7 DEF SendBlock, GetReadFails, BlockAcknowledged, PutFile, WriteBlock, WriteFails,
       PutEnds
  <1>8. CASE Quit
    BY <1>4, <1>5, <1>8 DEF Quit, TypeOK
  <1>9. CASE Terminate
    <2>1. /\ served' # q /\ ~Queued(q)'
          /\ conn'[q] = IF Queued(q) THEN "reset" ELSE conn[q]
      BY <1>4, <1>9 DEF Terminate, Queued
    <2>2. CASE Queued(q)
      <3>1. Apart(q) \/ Pending(q)
        BY <2>2 DEF Ordered, Attended, Parted
      <3>2. CASE Apart(q)
        BY <1>0, <1>2, <3>2 DEF Apart, Spoilt, BrokenOff, Ordered, hvars
      <3>3. CASE Pending(q)
        <4>1. Parted(q)'
          BY <1>0, <1>1, <2>1, <2>2, <3>3 DEF Pending, Between, Requesting, AllTaken, Back, Parted, hvars
        <4>2. QED
          BY <1>2, <4>1 DEF Ordered
      <3>4. QED
        BY <3>1, <3>2, <3>3
    <2>3. CASE ~Queued(q)
      BY <1>0, <1>1, <1>2, <2>1, <2>3, SameLine DEF hvars
    <2>4. QED
      BY <2>2, <2>3
  <1>10. QED
    BY <1>3, <1>6, <1>7, <1>8, <1>9 DEF AgentStep

-----------------------------------------------------------------------------
Inv == TypeOK /\ Queue /\ InProtocol /\ SuccessIsTrue

LEMMA InitInv == Init => Inv
  <1> SUFFICES ASSUME Init PROVE Inv
    OBVIOUS
  <1>1. <<>> \in Seq(Message) /\ <<>> \in Seq(Proc)
    OBVIOUS
  <1>2. TypeOK
    BY <1>1 DEF Init, TypeOK, HostPlaces, AgentPlaces, Results
  <1>3. DOMAIN backlog = {} /\ Nobody \notin Proc
    BY QueueParts, <1>2 DEF Init
  <1>4. Queue
    BY <1>3 DEF Init, Queue, Queued
  <1>5. \A p \in Proc : Parted(p) /\ Truthful(p)
    BY <1>3 DEF Init, Parted, Truthful, Queued, AllTaken, Sent, Back
  <1>6. QED
    BY <1>2, <1>4, <1>5 DEF Inv, InProtocol, Ordered, SuccessIsTrue

LEMMA NextInv == Inv /\ [Next]_vars => Inv'
  <1> SUFFICES ASSUME Inv, [Next]_vars PROVE Inv'
    OBVIOUS
  <1> USE DEF Inv, InProtocol, SuccessIsTrue
  <1>1. ASSUME NEW p \in Proc, LaborerStep(p)
        PROVE  Inv'
    <2>1. TypeOK' /\ Queue'
      BY <1>1, LaborerTyped, LaborerQueue
    <2>2. ASSUME NEW q \in Proc
          PROVE  Ordered(q)' /\ Truthful(q)'
      BY <1>1, LaborerOrdered, LaborerOthers, LaborerOthersTruthful
    <2>3. QED
      BY <2>1, <2>2
  <1>2. CASE AgentStep
    <2>1. TypeOK' /\ Queue'
      BY <1>2, AgentTyped, AgentQueue
    <2>2. ASSUME NEW q \in Proc
          PROVE  Ordered(q)' /\ Truthful(q)'
      BY <1>2, ServedOrdered, AgentOthers
    <2>3. QED
      BY <2>1, <2>2
  <1>3. CASE UNCHANGED vars
    <2>1. UNCHANGED <<limit, hpc, count, op, left, result, mRsysFds, conn, toAgent, toHost, backlog,
                      apc, served, aleft, did>>
      BY <1>3 DEF vars, hvars, avars
    <2>2. TypeOK' /\ \A q \in Proc : (Queued(q)' <=> Queued(q)) /\ Truthful(q)'
      BY <2>1 DEF TypeOK, Queued, Truthful, Unchecked
    <2>3. Queue'
      BY <2>1, <2>2 DEF Queue
    <2>4. \A q \in Proc : Ordered(q)'
      BY <2>1, <2>2, SameLine
    <2>5. QED
      BY <2>2, <2>3, <2>4
  <1>4. QED
    BY <1>1, <1>2, <1>3 DEF Next

THEOREM Invariance == Spec => []Inv
  BY InitInv, NextInv, PTL DEF Spec

(* Host and agent stay in step, but for a put the host breaks off or whose *)
(* blocks the agent does not write: after any other operation of a laborer *)
(* the agent waits for its next request, and that one finds nothing on the *)
(* connection that an earlier one has left there.                          *)
THEOREM StaysInStep == Spec => []InStep
  <1>1. Inv => InStep
    <2> SUFFICES ASSUME Inv, NEW p \in Proc, hpc[p] \in {"idle", "joined"}, served = p, ~MayPart(p)
                 PROVE  apc = "header" /\ toAgent[p] = <<>> /\ toHost[p] = <<>>
      BY DEF InStep
    <2>1. Attended(p)
      BY DEF Inv, InProtocol, Ordered, Apart, Spoilt, BrokenOff, MayPart, Pending, Parted
    <2>2. apc = "header" /\ Between(p)
      BY <2>1 DEF Attended, Requesting, Executing, Managing, Getting, Putting
    <2>3. QED
      BY <2>2 DEF Between, AllTaken, Sent, Back
  <1>2. QED
    BY <1>1, Invariance, PTL

(* When an RSYSTEM command that manages or transfers files has returned    *)
(* SUCCESS the agent has done what it was asked for, but for a put whose   *)
(* blocks it has not written and a copy whose reads or writes have failed. *)
THEOREM SuccessMeansDone == Spec => []SuccessIsTrue
  <1>1. Inv => SuccessIsTrue
    BY DEF Inv
  <1>2. QED
    BY <1>1, Invariance, PTL
=============================================================================
