----------------------------- MODULE RemoteSystem ----------------------------
(***************************************************************************)
(* RSYSTEM commands: a laborer works on another machine through its target *)
(* agent (Laborer::runRsystem, ats2/host.cpp and                           *)
(* target_agent/target/target.cpp).  Host and agent take turns on a TCP    *)
(* connection, and each knows the meaning of the next message only from    *)
(* its own place in the protocol.                                          *)
(*                                                                         *)
(* The laborer keeps its connection (mRsysFds) until the Servicer destroys *)
(* it after all the laborers are joined.  The agent serves one connection  *)
(* at a time; the others wait in its backlog.                              *)
(*                                                                         *)
(* A message is a header and what its size announces.  MKDIR, RMDIR and    *)
(* DELETE have one form, here "MANAGE"; a file is the number of its blocks *)
(* of MAX_BUF_SIZE bytes, and stays the same while it is transferred.      *)
(***************************************************************************)
EXTENDS Integers, Sequences

CONSTANTS Proc,         \* the laborers that use the agent, in the order of mLaborer
          Ops,          \* the commands of the scripts
          CommandLines, \* what the scripts give EXECUTE: sequences of words
          MaxArgs,      \* MAX_ARGS
          MaxBlocks,    \* the longest file, and the longest output
          Limits        \* how many commands each laborer has, and which
                        \* reads and writes of files may fail

Operations == {"EXECUTE", "MANAGE", "COPY", "GET", "PUT", "QUIT", "TERMINATE"}

ASSUME OpsAssumption    == Ops \subseteq Operations
ASSUME BoundsAssumption == MaxBlocks \in Nat \ {0}
ASSUME ProcAssumption   == Proc \subseteq Nat

(* A command line of EXECUTE: a program, "args" and up to MaxArgs words,    *)
(* "envs" and as many, "return" and "stdout".  ok is whether there is      *)
(* something to send, and returns whether the output comes back.           *)
Words(ws, i, ends) ==
    LET stops == {j \in i..(Len(ws) + 1) : j > Len(ws) \/ ws[j] \in ends \/ j - i >= MaxArgs}
    IN  CHOOSE j \in stops : \A h \in stops : j <= h
Parsed(ws) ==
    LET At(i, w)  == i <= Len(ws) /\ ws[i] = w
        args      == IF At(2, "args") THEN Words(ws, 3, {"envs", "return"}) ELSE 2
        envs      == IF At(args, "envs") THEN Words(ws, args + 1, {"return"}) ELSE args
        returns   == At(envs, "return") /\ At(envs + 1, "stdout")
        last      == IF returns THEN envs + 1 ELSE IF At(envs, "return") THEN envs ELSE envs - 1
    IN  [ok |-> ws # <<>> /\ last >= Len(ws), returns |-> returns]
Accepted == {Parsed(ws).returns : ws \in {w \in CommandLines : Parsed(w).ok}}
Rejected == {w \in CommandLines : ~Parsed(w).ok}

(* A put that fails on the way leaves bytes on the connection which no     *)
(* operation expects (MessageReceived), or an agent that takes the next    *)
(* request for a block; what becomes of a later request, but for the QUIT  *)
(* of the end, is not followed.                                            *)
FileFailures == {"host reads", "host writes", "agent reads", "agent writes"}
ASSUME LimitsAssumption ==
    \A l \in Limits : /\ l.ops \in Nat \ {0}
                      /\ l.fails \subseteq FileFailures
                      /\ {"host reads", "agent writes"} \cap l.fails # {} => l.ops = 1

VARIABLES limit,     \* the one of Limits this behaviour is about
          hpc,       \* where each laborer is
          count,     \* the commands it has begun
          op,        \* the command it is in
          left,      \* the blocks the host still expects or has to send
          result,    \* what execute has returned for the last command
          mRsysFds,  \* whether the laborer has a descriptor for the agent
          conn,      \* the connection behind it
          toAgent,   \* the messages on their way, for each connection
          toHost,
          backlog,   \* the connections the agent has not accepted
          apc,       \* where the agent is
          served,    \* whose connection it has accepted
          aleft,     \* the blocks the agent has to send or still expects
          did        \* whether the agent has done what it was asked for

hvars == <<hpc, count, op, left, result, mRsysFds>>
avars == <<apc, served, aleft, did>>
vars  == <<limit, hvars, conn, toAgent, toHost, backlog, avars>>

Nobody == -1
Blocks == 0..MaxBlocks

(* What can be on the way: an operation, "SUCCESS", "FAILURE", "MESSAGE",  *)
(* "info", "block", or "stray" bytes that are no header.  A host's request *)
(* carries the length of its file, or 1 to have the output returned, an    *)
(* agent's "info" that of its own file.                                    *)
Msg(t, n) == [type |-> t, size |-> n]

Init ==
    /\ limit \in Limits
    /\ hpc      = [p \in Proc |-> "idle"]
    /\ count    = [p \in Proc |-> 0]
    /\ op       = [p \in Proc |-> "none"]
    /\ left     = [p \in Proc |-> 0]
    /\ result   = [p \in Proc |-> "none"]
    /\ mRsysFds = [p \in Proc |-> FALSE]
    /\ conn     = [p \in Proc |-> "none"]
    /\ toAgent  = [p \in Proc |-> <<>>]
    /\ toHost   = [p \in Proc |-> <<>>]
    /\ backlog  = <<>>
    /\ apc = "accept" /\ served = Nobody /\ aleft = 0
    /\ did      = [p \in Proc |-> "none"]

-----------------------------------------------------------------------------
(* The host's end of a connection.  A send fails when the host has closed  *)
(* it or the agent's end was reset; what is sent after the agent has left  *)
(* is lost without notice.                                                 *)
Go(p, place) == hpc' = [hpc EXCEPT ![p] = place]
Broken(p)    == conn[p] \in {"reset", "closed"}

Send(p, m) == toAgent' = IF conn[p] = "open" THEN [toAgent EXCEPT ![p] = Append(@, m)]
                         ELSE toAgent

(* recv_nn; at the end of the stream it tries again for ever. *)
Receives(p) == toHost[p] # <<>>
Received(p) == Head(toHost[p])
Taken(p)    == toHost' = [toHost EXCEPT ![p] = Tail(@)]

Returns(p, rc) ==
    /\ result' = [result EXCEPT ![p] = rc]
    /\ Go(p, "idle")

(* A connect fails only when nobody listens. *)
ConnectServer(p) ==
    /\ apc # "exited"
    /\ conn'    = [conn EXCEPT ![p] = "open"]
    /\ backlog' = Append(backlog, p)

HasCommand(p) == hpc[p] = "idle" /\ count[p] < limit.ops
Counted(p)    == count' = [count EXCEPT ![p] = @ + 1]

(* runRsystem connects when it has no descriptor; this step is the connect *)
(* and nothing else.                                                       *)
LogonRsystem(p) ==
    /\ HasCommand(p) /\ ~mRsysFds[p]
    /\ \/ /\ apc = "exited"
          /\ result' = [result EXCEPT ![p] = "FAILURE"]         \* RSYSTEM error
          /\ Counted(p)
          /\ UNCHANGED <<mRsysFds, conn, backlog>>
       \/ /\ ConnectServer(p)
          /\ mRsysFds' = [mRsysFds EXCEPT ![p] = TRUE]
          /\ UNCHANGED <<result, count>>
    /\ UNCHANGED <<hpc, op, left, toAgent, toHost, avars>>

(* What the header of a request says. *)
Sizes(o) == CASE o = "PUT"     -> Blocks
              [] o = "EXECUTE" -> {IF returns THEN 1 ELSE 0 : returns \in Accepted}
              [] OTHER         -> {0}

(* execute: the request of operation o; put opens its file first. *)
Request(p, o) ==
    /\ HasCommand(p) /\ mRsysFds[p]
    /\ Counted(p)
    /\ op'    = [op EXCEPT ![p] = o]
    /\ did'   = [did EXCEPT ![p] = "none"]
    /\ IF Broken(p)
       THEN Returns(p, "FAILURE") /\ UNCHANGED <<toAgent, left>>
       ELSE /\ \E n \in Sizes(o) :
                  /\ Send(p, Msg(o, n))
                  /\ left' = [left EXCEPT ![p] = IF o = "PUT" THEN n ELSE 0]
            /\ Go(p, "reply")
            /\ UNCHANGED result
    /\ UNCHANGED <<mRsysFds, conn, toHost, backlog, apc, served, aleft>>

(* A command that ends before anything is sent. *)
NotSent(p, o, rc) ==
    /\ HasCommand(p) /\ mRsysFds[p]
    /\ Counted(p)
    /\ op' = [op EXCEPT ![p] = o]
    /\ Returns(p, rc)
    /\ UNCHANGED <<left, mRsysFds, conn, toAgent, toHost, backlog, avars>>

(* The command line is none, the place for the file to get or the file to  *)
(* put cannot be opened; an operation parsing does not know, "help", and   *)
(* one that lacks its operand are nothing at all.                          *)
ExecuteFails(p) == "EXECUTE" \in Ops /\ Rejected # {} /\ NotSent(p, "EXECUTE", "FAILURE")
GetFails(p)     == "GET" \in Ops /\ NotSent(p, "GET", "FAILURE")
PutFails(p)     == "PUT" \in Ops /\ NotSent(p, "PUT", "FAILURE")
NothingAsked(p) == NotSent(p, "none", "NOTHING")

(* The connection was reset in the backlog: recv fails. *)
RecvFails(p) ==
    /\ hpc[p] = "reply"
    /\ conn[p] = "reset" /\ ~Receives(p)
    /\ Returns(p, "FAILURE")
    /\ UNCHANGED <<count, op, left, mRsysFds, conn, toAgent, toHost, backlog, avars>>

(* executeOpt: each message is acknowledged; any other header ends it, and *)
(* whatever it says executeOpt returns SUCCESS.                            *)
ExecuteOpt(p) ==
    /\ hpc[p] = "reply" /\ op[p] = "EXECUTE"
    /\ Receives(p) /\ Taken(p)
    /\ IF Received(p).type = "MESSAGE"
       THEN Send(p, Msg("SUCCESS", 0)) /\ UNCHANGED <<hpc, result>>
       ELSE Returns(p, "SUCCESS") /\ UNCHANGED toAgent
    /\ UNCHANGED <<count, op, left, mRsysFds, conn, backlog, avars>>

(* Defect: the reply to mkdir and the others is read but not looked at. *)
ManageOptBlindly(p) ==
    /\ hpc[p] = "reply" /\ op[p] \in {"MANAGE", "COPY"}
    /\ Receives(p) /\ Taken(p)
    /\ Returns(p, "SUCCESS")
    /\ UNCHANGED <<count, op, left, mRsysFds, conn, toAgent, backlog, avars>>

(* manageOpt, and copyOpt, which makes a failure of every other answer. *)
CopyRc(type) == IF type = "SUCCESS" THEN type ELSE "FAILURE"
ManageOpt(p) ==
    /\ hpc[p] = "reply" /\ op[p] \in {"MANAGE", "COPY"}
    /\ Receives(p) /\ Taken(p)
    /\ Returns(p, CopyRc(Received(p).type))
    /\ UNCHANGED <<count, op, left, mRsysFds, conn, toAgent, backlog, avars>>

(* Defect: an empty file ends with its info. *)
GetOptEmpty(p) ==
    /\ hpc[p] = "reply" /\ op[p] = "GET"
    /\ Receives(p) /\ Taken(p)
    /\ left' = [left EXCEPT ![p] = Received(p).size]
    /\ IF Received(p).type = "FAILURE" THEN Returns(p, "FAILURE")
       ELSE IF Received(p).size = 0 THEN Returns(p, "SUCCESS")
       ELSE Go(p, "get") /\ UNCHANGED result
    /\ UNCHANGED <<count, op, mRsysFds, conn, toAgent, backlog, avars>>

(* getOpt: the file info, and the header that ends an empty file. *)
GetOpt(p) ==
    /\ hpc[p] = "reply" /\ op[p] = "GET"
    /\ Receives(p) /\ Taken(p)
    /\ \/ Received(p).type = "FAILURE" /\ Returns(p, "FAILURE") /\ UNCHANGED left
       \/ /\ Received(p).type = "info"
          /\ left' = [left EXCEPT ![p] = Received(p).size]
          /\ Go(p, IF Received(p).size = 0 THEN "got" ELSE "get")
          /\ UNCHANGED result
    /\ UNCHANGED <<count, op, mRsysFds, conn, toAgent, backlog, avars>>

(* A block; one that is not written, or not as a whole, leaves more to     *)
(* expect.  A header of size 0 in place of a block ends the loop.          *)
GetBlock(p) ==
    /\ hpc[p] = "get"
    /\ Receives(p) /\ Taken(p)
    /\ \/ /\ Received(p).type = "block"
          /\ \/ left' = [left EXCEPT ![p] = @ - 1]
             \/ "host writes" \in limit.fails /\ UNCHANGED left
          /\ Send(p, Msg("SUCCESS", 0))
          /\ Go(p, IF left'[p] = 0 THEN "got" ELSE "get")
          /\ UNCHANGED result
       \/ /\ Received(p).type = "SUCCESS"
          /\ Returns(p, "FAILURE")
          /\ UNCHANGED <<left, toAgent>>
    /\ UNCHANGED <<count, op, mRsysFds, conn, backlog, avars>>

Got(p) ==
    /\ hpc[p] = "got"
    /\ Receives(p) /\ Taken(p)
    /\ Returns(p, "SUCCESS")
    /\ UNCHANGED <<count, op, left, mRsysFds, conn, toAgent, backlog, avars>>

(* putOpt: the agent's answer to the file info. *)
PutOpt(p) ==
    /\ hpc[p] = "reply" /\ op[p] = "PUT"
    /\ Receives(p) /\ Taken(p)
    /\ \/ Received(p).type = "FAILURE" /\ Returns(p, "FAILURE")
       \/ Received(p).type # "FAILURE" /\ left[p] = 0 /\ Returns(p, "SUCCESS")
       \/ Received(p).type # "FAILURE" /\ left[p] # 0 /\ Go(p, "put") /\ UNCHANGED result
    /\ UNCHANGED <<count, op, left, mRsysFds, conn, toAgent, backlog, avars>>

(* The file cannot be read: putOpt ends, and the agent is not told. *)
PutReadFails(p) ==
    /\ hpc[p] = "put" /\ "host reads" \in limit.fails
    /\ Returns(p, "FAILURE")
    /\ UNCHANGED <<count, op, left, mRsysFds, conn, toAgent, toHost, backlog, avars>>

PutBlock(p) ==
    /\ hpc[p] = "put"
    /\ IF Broken(p) THEN Returns(p, "FAILURE") /\ UNCHANGED <<toAgent, left>>
       ELSE /\ Send(p, Msg("block", 0))
            /\ left' = [left EXCEPT ![p] = @ - 1]
            /\ Go(p, "putack")
            /\ UNCHANGED result
    /\ UNCHANGED <<count, op, mRsysFds, conn, toHost, backlog, avars>>

(* The type of the last answer is not looked at. *)
PutAck(p) ==
    /\ hpc[p] = "putack"
    /\ Receives(p) /\ Taken(p)
    /\ \/ left[p] = 0 /\ Returns(p, "SUCCESS")
       \/ left[p] # 0 /\ Received(p).type = "FAILURE" /\ Returns(p, "FAILURE")
       \/ left[p] # 0 /\ Received(p).type # "FAILURE" /\ Go(p, "put") /\ UNCHANGED result
    /\ UNCHANGED <<count, op, left, mRsysFds, conn, toAgent, backlog, avars>>

(* disconnectServer and terminateServer close the connection when they are *)
(* answered; mRsysFds keeps the descriptor.                                *)
Disconnect(p) ==
    /\ hpc[p] = "reply" /\ op[p] \in {"QUIT", "TERMINATE"}
    /\ Receives(p) /\ Taken(p)
    /\ IF Received(p).type = op[p]
       THEN conn' = [conn EXCEPT ![p] = "closed"] /\ Returns(p, op[p])
       ELSE Returns(p, "FAILURE") /\ UNCHANGED conn
    /\ UNCHANGED <<count, op, left, mRsysFds, toAgent, backlog, avars>>

-----------------------------------------------------------------------------
(* The laborer has no more commands; the Servicer joins all of them, and   *)
(* then destroys one after the other, in the order of mLaborer:            *)
(* Laborer::destroy disconnects and waits for the answer.                  *)
Join(p) ==
    /\ hpc[p] = "idle" /\ count[p] = limit.ops
    /\ Go(p, "joined")
    /\ UNCHANGED <<count, op, left, result, mRsysFds, conn, toAgent, toHost, backlog, avars>>

Turn(p) ==
    /\ hpc[p] = "joined"
    /\ \A q \in Proc : hpc[q] \in IF q < p THEN {"destroyed"} ELSE {"joined"}

Destroy(p) ==
    /\ Turn(p)
    /\ IF ~mRsysFds[p] \/ Broken(p)
       THEN Go(p, "destroyed") /\ UNCHANGED toAgent
       ELSE Send(p, Msg("QUIT", 0)) /\ Go(p, "destroy")
    /\ UNCHANGED <<count, op, left, result, mRsysFds, conn, toHost, backlog, avars>>

Destroyed(p) ==
    /\ hpc[p] = "destroy"
    /\ \/ /\ Receives(p) /\ Taken(p)
          /\ conn' = IF Received(p).type = "QUIT" THEN [conn EXCEPT ![p] = "closed"] ELSE conn
       \/ conn[p] = "reset" /\ ~Receives(p) /\ UNCHANGED <<conn, toHost>>
    /\ Go(p, "destroyed")
    /\ UNCHANGED <<count, op, left, result, mRsysFds, toAgent, backlog, avars>>

-----------------------------------------------------------------------------
(* The agent. *)
AtPlace(place) == apc = place /\ served # Nobody
Asked(types)   == toAgent[served] # <<>> /\ Head(toAgent[served]).type \in types
Took           == toAgent' = [toAgent EXCEPT ![served] = Tail(@)]
Answers(ms)    == toHost' = [toHost EXCEPT ![served] = @ \o ms]
Ok(yes)        == did' = [did EXCEPT ![served] = IF yes THEN "yes" ELSE "no"]

Accept ==
    /\ apc = "accept"
    /\ backlog # <<>>
    /\ served'  = Head(backlog)
    /\ backlog' = Tail(backlog)
    /\ apc'     = "header"
    /\ UNCHANGED <<hvars, conn, toAgent, toHost, aleft, did>>

Answered(ok) == Answers(<<Msg(IF ok THEN "SUCCESS" ELSE "FAILURE", 0)>>)
HandleFile ==
    /\ AtPlace("header") /\ Asked({"MANAGE"}) /\ Took
    /\ \E ok \in BOOLEAN : Ok(ok) /\ Answered(ok)
    /\ UNCHANGED <<hvars, conn, backlog, apc, served, aleft>>

(* copyFile answers for the two files it has opened; what it reads and     *)
(* writes is not looked at.                                                *)
CopyFile ==
    /\ AtPlace("header") /\ Asked({"COPY"}) /\ Took
    /\ \E ok, whole \in BOOLEAN :
          /\ whole \/ {"agent reads", "agent writes"} \cap limit.fails # {}
          /\ Ok(ok /\ whole) /\ Answered(ok)
    /\ UNCHANGED <<hvars, conn, backlog, apc, served, aleft>>

(* executeOpt of the agent: the output of the command, message by message, *)
(* or on the agent's own terminal.                                         *)
Exec ==
    /\ AtPlace("header") /\ Asked({"EXECUTE"}) /\ Took
    /\ \/ Answers(<<Msg("FAILURE", 0)>>) /\ Ok(FALSE) /\ UNCHANGED <<apc, aleft>>
       \/ /\ apc' = "exec"
          /\ aleft' \in IF Head(toAgent[served]).size = 1 THEN Blocks ELSE {0}
          /\ UNCHANGED <<toHost, did>>
    /\ UNCHANGED <<hvars, conn, backlog, served>>

ExecMessage ==
    /\ AtPlace("exec") /\ aleft # 0
    /\ Answers(<<Msg("MESSAGE", 1)>>)
    /\ aleft' = aleft - 1
    /\ apc'   = "execack"
    /\ UNCHANGED <<hvars, conn, toAgent, backlog, served, did>>

ExecAck ==
    /\ AtPlace("execack") /\ toAgent[served] # <<>> /\ Took
    /\ apc' = "exec"
    /\ UNCHANGED <<hvars, conn, toHost, backlog, served, aleft, did>>

ExecEnds ==
    /\ AtPlace("exec") /\ aleft = 0
    /\ Answers(<<Msg("SUCCESS", 0)>>) /\ Ok(TRUE)
    /\ apc' = "header"
    /\ UNCHANGED <<hvars, conn, toAgent, backlog, served, aleft>>

(* getFile *)
GetFile ==
    /\ AtPlace("header") /\ Asked({"GET"}) /\ Took
    /\ \/ Answers(<<Msg("FAILURE", 0)>>) /\ Ok(FALSE) /\ UNCHANGED <<apc, aleft>>
       \/ /\ Answers(<<Msg("info", 0), Msg("SUCCESS", 0)>>) /\ Ok(TRUE)
          /\ UNCHANGED <<apc, aleft>>
       \/ \E n \in Blocks \ {0} :
             /\ Answers(<<Msg("info", n)>>)
             /\ aleft' = n /\ apc' = "get" /\ UNCHANGED did
    /\ UNCHANGED <<hvars, conn, backlog, served>>

SendBlock ==
    /\ AtPlace("get")
    /\ Answers(<<Msg("block", 0)>>)
    /\ apc' = "getack"
    /\ UNCHANGED <<hvars, conn, toAgent, backlog, served, aleft, did>>

(* The file cannot be read: getFile ends, and the host is not told. *)
GetReadFails ==
    /\ AtPlace("get") /\ "agent reads" \in limit.fails
    /\ Ok(FALSE)
    /\ apc' = "header"
    /\ UNCHANGED <<hvars, conn, toAgent, toHost, backlog, served, aleft>>

BlockAcknowledged ==
    /\ AtPlace("getack") /\ toAgent[served] # <<>> /\ Took
    /\ aleft' = aleft - 1
    /\ IF aleft = 1 THEN Answers(<<Msg("SUCCESS", 0)>>) /\ Ok(TRUE) /\ apc' = "header"
       ELSE apc' = "get" /\ UNCHANGED <<toHost, did>>
    /\ UNCHANGED <<hvars, conn, backlog, served>>

(* putFile *)
PutFile ==
    /\ AtPlace("header") /\ Asked({"PUT"}) /\ Took
    /\ \/ Answers(<<Msg("FAILURE", 0)>>) /\ Ok(FALSE) /\ UNCHANGED <<apc, aleft>>
       \/ /\ Answers(<<Msg("SUCCESS", 0)>>)
          /\ LET n == Head(toAgent[served]).size
             IN  IF n = 0 THEN Ok(TRUE) /\ UNCHANGED <<apc, aleft>>
                 ELSE apc' = "put" /\ aleft' = n /\ UNCHANGED did
    /\ UNCHANGED <<hvars, conn, backlog, served>>

(* A block that is not written as a whole is answered like the others, and *)
(* leaves more to expect than the host has.                                *)
WriteBlock ==
    /\ AtPlace("put") /\ Asked({"block"}) /\ Took
    /\ Answers(<<Msg("SUCCESS", 0)>>)
    /\ \/ aleft' = aleft - 1
       \/ "agent writes" \in limit.fails /\ UNCHANGED aleft
    /\ IF aleft' = 0 THEN Ok(TRUE) /\ apc' = "header" ELSE UNCHANGED <<apc, did>>
    /\ UNCHANGED <<hvars, conn, backlog, served>>

(* A failure is followed by a message the host never reads. *)
WriteFails ==
    /\ AtPlace("put") /\ Asked({"block"}) /\ Took
    /\ "agent writes" \in limit.fails
    /\ Answers(<<Msg("FAILURE", 0), Msg("stray", 0)>>)
    /\ Ok(FALSE)
    /\ apc' = "header"
    /\ UNCHANGED <<hvars, conn, backlog, served, aleft>>

(* A header in place of a block that announces nothing ends the loop, and  *)
(* nobody answers it.                                                      *)
PutEnds ==
    /\ AtPlace("put") /\ Asked({"QUIT"}) /\ Took
    /\ Ok(FALSE)
    /\ apc' = "header"
    /\ UNCHANGED <<hvars, conn, toHost, backlog, served, aleft>>

(* Defect: the agent closes the connection but goes on with it. *)
QuitNotSet ==
    /\ AtPlace("header") /\ Asked({"QUIT"}) /\ Took
    /\ Answers(<<Msg("QUIT", 0)>>)
    /\ conn' = [conn EXCEPT ![served] = "left"]
    /\ UNCHANGED <<hvars, backlog, avars>>

Quit ==
    /\ AtPlace("header") /\ Asked({"QUIT"}) /\ Took
    /\ Answers(<<Msg("QUIT", 0)>>)
    /\ conn'   = [conn EXCEPT ![served] = "left"]
    /\ served' = Nobody
    /\ apc'    = "accept"
    /\ UNCHANGED <<hvars, backlog, aleft, did>>

(* The agent exits; the connections in its backlog are reset. *)
Terminate ==
    /\ AtPlace("header") /\ Asked({"TERMINATE"}) /\ Took
    /\ Answers(<<Msg("TERMINATE", 0)>>)
    /\ conn' = [p \in Proc |-> IF p = served THEN "left"
                               ELSE IF \E i \in DOMAIN backlog : backlog[i] = p THEN "reset"
                               ELSE conn[p]]
    /\ served'  = Nobody
    /\ backlog' = <<>>
    /\ apc'     = "exited"
    /\ UNCHANGED <<hvars, aleft, did>>

-----------------------------------------------------------------------------
LaborerStep(p) ==
    /\ \/ LogonRsystem(p) \/ ExecuteFails(p) \/ GetFails(p) \/ PutFails(p) \/ NothingAsked(p)
       \/ RecvFails(p)
       \/ \E o \in Ops : Request(p, o)
       \/ ExecuteOpt(p) \/ ManageOpt(p) \/ GetOpt(p) \/ GetBlock(p) \/ Got(p)
       \/ PutOpt(p) \/ PutReadFails(p) \/ PutBlock(p) \/ PutAck(p) \/ Disconnect(p) \/ Join(p)
       \/ Destroy(p) \/ Destroyed(p)
    /\ UNCHANGED limit

AgentStep ==
    /\ \/ Accept \/ HandleFile \/ CopyFile \/ Exec \/ ExecMessage \/ ExecAck \/ ExecEnds
       \/ GetFile \/ SendBlock \/ GetReadFails \/ BlockAcknowledged
       \/ PutFile \/ WriteBlock \/ WriteFails \/ PutEnds \/ Quit \/ Terminate
    /\ UNCHANGED limit

Next ==
    \/ \E p \in Proc : LaborerStep(p)
    \/ AgentStep
    \/ (\A p \in Proc : hpc[p] = "destroyed") /\ UNCHANGED vars

Spec == Init /\ [][Next]_vars

(* Both sides go on when there is something for them to read. *)
Fairness == /\ \A p \in Proc : WF_vars(LaborerStep(p))
            /\ WF_vars(AgentStep)

FairSpec == Spec /\ Fairness

-----------------------------------------------------------------------------
(* Host and agent stay in step: when a laborer is between two operations,  *)
(* the agent it has waits for a request, and nothing is left on the way    *)
(* that the next operation would take for its own.  A put the host breaks  *)
(* off because it cannot read its file, or whose blocks the agent does not *)
(* write (MessageReceived), leaves them out of step.                       *)
MayPart(p) == op[p] = "PUT" /\ {"host reads", "agent writes"} \cap limit.fails # {}
InStep ==
    \A p \in Proc :
        hpc[p] \in {"idle", "joined"} /\ served = p /\ ~MayPart(p) =>
            apc = "header" /\ toAgent[p] = <<>> /\ toHost[p] = <<>>

(* The variables have their types. *)
Wire        == Operations \cup {"SUCCESS", "FAILURE", "MESSAGE", "info", "block", "stray"}
Message     == [type : Wire, size : Nat]
HostPlaces  == {"idle", "reply", "get", "got", "put", "putack", "joined", "destroy", "destroyed"}
AgentPlaces == {"accept", "header", "exec", "execack", "get", "getack", "put", "exited"}
Results     == {"none", "SUCCESS", "FAILURE", "NOTHING", "QUIT", "TERMINATE"}

TypeOK ==
    /\ limit    \in Limits
    /\ hpc      \in [Proc -> HostPlaces]
    /\ count    \in [Proc -> Nat]
    /\ op       \in [Proc -> Operations \cup {"none"}]
    /\ left     \in [Proc -> Int]
    /\ result   \in [Proc -> Results]
    /\ mRsysFds \in [Proc -> BOOLEAN]
    /\ conn     \in [Proc -> {"none", "open", "reset", "closed", "left"}]
    /\ toAgent  \in [Proc -> Seq(Message)]
    /\ toHost   \in [Proc -> Seq(Message)]
    /\ backlog  \in Seq(Proc)
    /\ apc      \in AgentPlaces
    /\ served   \in Proc \cup {Nobody}
    /\ aleft    \in Int
    /\ did      \in [Proc -> {"none", "yes", "no"}]

(* The protocol of one connection, for the proofs of InStep and            *)
(* SuccessIsTrue: what both sides are doing and what is on the way between *)
(* them.  A put whose file the agent may fail to write, and one the host   *)
(* has broken off, are left out: they are the last command of their        *)
(* connection.                                                             *)
Unchecked(p) ==
    \/ op[p] = "PUT" /\ "agent writes" \in limit.fails
    \/ op[p] = "COPY" /\ {"agent reads", "agent writes"} \cap limit.fails # {}
Sent(p, ms)    == toAgent[p] = ms
Back(p, ms)    == toHost[p] = ms
AllTaken(p)    == Sent(p, <<>>) /\ Back(p, <<>>)
Between(p)     == hpc[p] \in {"idle", "joined"} /\ AllTaken(p)
Requesting(p)  ==
    /\ Back(p, <<>>)
    /\ \/ /\ hpc[p] = "reply"
          /\ \E n \in Blocks : Sent(p, <<Msg(op[p], n)>>) /\ (op[p] = "PUT" => left[p] = n)
       \/ hpc[p] = "destroy" /\ Sent(p, <<Msg("QUIT", 0)>>)
Executing(p) ==
    /\ hpc[p] = "reply" /\ op[p] = "EXECUTE"
    /\ \/ apc = "exec" /\ AllTaken(p)
       \/ apc = "execack" /\ Sent(p, <<>>) /\ Back(p, <<Msg("MESSAGE", 1)>>)
       \/ apc = "execack" /\ Sent(p, <<Msg("SUCCESS", 0)>>) /\ Back(p, <<>>)
       \/ /\ apc = "header" /\ Sent(p, <<>>)
          /\ \E t \in {"SUCCESS", "FAILURE"} : Back(p, <<Msg(t, 0)>>)
Managing(p) ==
    /\ hpc[p] = "reply" /\ op[p] \in {"MANAGE", "COPY"} /\ apc = "header" /\ Sent(p, <<>>)
    /\ \E t \in {"SUCCESS", "FAILURE"} :
          Back(p, <<Msg(t, 0)>>) /\ (t = "SUCCESS" => did[p] = "yes" \/ Unchecked(p))
Getting(p) ==
    /\ op[p] = "GET"
    /\ \/ /\ apc = "header" /\ Sent(p, <<>>)
          /\ \/ hpc[p] = "reply" /\ Back(p, <<Msg("FAILURE", 0)>>)
             \/ hpc[p] = "reply" /\ Back(p, <<Msg("info", 0), Msg("SUCCESS", 0)>>) /\ did[p] = "yes"
             \/ hpc[p] = "got" /\ Back(p, <<Msg("SUCCESS", 0)>>) /\ did[p] = "yes"
             \/ hpc[p] = "get" /\ Back(p, <<Msg("SUCCESS", 0)>>) /\ left[p] > 0
             \/ hpc[p] = "reply" /\ aleft > 0 /\ Back(p, <<Msg("info", aleft)>>)
             \/ hpc[p] = "get" /\ Back(p, <<>>)
       \/ /\ apc = "get" /\ aleft > 0 /\ Sent(p, <<>>)
          /\ \/ hpc[p] = "reply" /\ Back(p, <<Msg("info", aleft)>>)
             \/ hpc[p] = "get" /\ Back(p, <<>>) /\ left[p] >= aleft
       \/ /\ apc = "getack" /\ aleft > 0
          /\ \/ hpc[p] = "reply" /\ Sent(p, <<>>) /\ Back(p, <<Msg("info", aleft), Msg("block", 0)>>)
             \/ hpc[p] = "get" /\ Sent(p, <<>>) /\ Back(p, <<Msg("block", 0)>>) /\ left[p] >= aleft
             \/ /\ Sent(p, <<Msg("SUCCESS", 0)>>) /\ Back(p, <<>>)
                /\ left[p] >= aleft - 1
                /\ hpc[p] = IF left[p] = 0 THEN "got" ELSE "get"
Putting(p) ==
    /\ op[p] = "PUT"
    /\ \/ /\ apc = "header" /\ Sent(p, <<>>)
          /\ \/ hpc[p] = "reply" /\ Back(p, <<Msg("FAILURE", 0)>>)
             \/ /\ hpc[p] \in {"reply", "putack"} /\ Back(p, <<Msg("SUCCESS", 0)>>)
                /\ left[p] = 0 /\ did[p] = "yes"
       \/ /\ apc = "put" /\ aleft > 0
          /\ \/ /\ hpc[p] \in {"reply", "putack"} /\ Sent(p, <<>>) /\ Back(p, <<Msg("SUCCESS", 0)>>)
                /\ left[p] = aleft
             \/ hpc[p] = "put" /\ AllTaken(p) /\ left[p] = aleft
             \/ hpc[p] = "putack" /\ Sent(p, <<Msg("block", 0)>>) /\ Back(p, <<>>) /\ left[p] = aleft - 1

Queued(p) == \E i \in DOMAIN backlog : backlog[i] = p
Attended(p) ==
    /\ conn[p] = "open" /\ served = p
    /\ \/ apc = "header" /\ (Between(p) \/ Requesting(p))
       \/ Executing(p) \/ Managing(p) \/ Getting(p) \/ Putting(p)
Pending(p) == conn[p] = "open" /\ served # p /\ Queued(p) /\ (Between(p) \/ Requesting(p))
Parted(p) ==
    /\ served # p /\ ~Queued(p)
    /\ \/ /\ conn[p] = "none" /\ ~mRsysFds[p] /\ AllTaken(p)
          /\ hpc[p] \in {"idle", "joined", "destroyed"}
       \/ /\ conn[p] = "reset" /\ Back(p, <<>>)
          /\ hpc[p] \in {"idle", "joined", "reply", "destroy", "destroyed"}
       \/ conn[p] = "closed" /\ Back(p, <<>>) /\ hpc[p] \in {"idle", "joined", "destroyed"}
       \/ /\ conn[p] = "left" /\ Sent(p, <<>>)
          /\ \/ hpc[p] = "reply" /\ op[p] \in {"QUIT", "TERMINATE"} /\ Back(p, <<Msg(op[p], 0)>>)
             \/ hpc[p] = "destroy" /\ Back(p, <<Msg("QUIT", 0)>>)

Spoilt(p)  == op[p] = "PUT" /\ "agent writes" \in limit.fails
BrokenOff(p) ==
    /\ op[p] = "PUT" /\ "host reads" \in limit.fails /\ result[p] = "FAILURE"
    /\ hpc[p] \in {"idle", "joined", "destroy", "destroyed"}
Apart(p)   == Spoilt(p) \/ BrokenOff(p)
Ordered(p) == Apart(p) \/ Attended(p) \/ Pending(p) \/ Parted(p)
InProtocol == \A p \in Proc : Ordered(p)

(* What SuccessIsTrue says of one laborer. *)
Truthful(p) ==
    /\ hpc[p] = "idle" /\ result[p] = "SUCCESS" /\ op[p] \in {"MANAGE", "COPY", "GET", "PUT"}
    /\ ~Unchecked(p)
    => did[p] = "yes"

(* The agent and its backlog: a connection is served or queued once, and   *)
(* only for a laborer that has a descriptor; one command has been begun    *)
(* for each operation asked.                                               *)
Queue ==
    /\ apc \in {"accept", "exited"} <=> served = Nobody
    /\ apc = "exited" => backlog = <<>>
    /\ \A i, j \in DOMAIN backlog : backlog[i] = backlog[j] => i = j
    /\ \A i \in DOMAIN backlog : backlog[i] # served
    /\ \A p \in Proc : ~mRsysFds[p] => conn[p] = "none" /\ served # p /\ ~Queued(p)
    /\ \A p \in Proc : hpc[p] \in {"idle", "joined", "destroyed"} \/ mRsysFds[p]
    /\ \A p \in Proc : op[p] # "none" => count[p] > 0

(* The numbered comments of the two sides: after "6.send header" a failed  *)
(* put has "7.send message" (target.cpp) and "7.recv message" (host.cpp).  *)
MessageReceived ==
    \A p \in Proc :
        hpc[p] = "idle" => \A i \in DOMAIN toHost[p] : toHost[p][i].type # "stray"

(* "SUCCESS" in the output of an RSYSTEM command that manages or transfers *)
(* files is true of the other machine, but for two kinds (Unchecked): a    *)
(* put whose blocks the agent does not write, since putFile answers a      *)
(* block that is not written as a whole like the others and putOpt does    *)
(* not look at the answer to its last one, and a copy, since copyFile does *)
(* not look at what it reads and writes.                                   *)
SuccessIsTrue == \A p \in Proc : Truthful(p)

(* Every laborer gets through its commands and is destroyed, unless one of *)
(* them waits for an agent that another laborer of the test case keeps: it *)
(* is given up only after all of them are joined; or unless a laborer and  *)
(* the agent wait for each other (BothWait): in a get whose file the agent *)
(* cannot read, or in the QUIT after a put that left them out of step.     *)
(* When the test case is over its agent becomes free again.                *)
Waits(p)    == conn[p] = "open" /\ hpc[p] \in {"reply", "destroy"} /\ served \notin {p, Nobody}
BothWait(p) ==
    /\ served = p /\ apc = "header" /\ AllTaken(p)
    /\ \/ hpc[p] = "get" /\ "agent reads" \in limit.fails
       \/ hpc[p] = "destroy" /\ MayPart(p)
EndsUnlessKept ==
    /\ \/ <>[](\E p \in Proc : Waits(p) /\ hpc[served] = "joined")
       \/ <>[](\E p \in Proc : BothWait(p))
       \/ \A p \in Proc : <>(hpc[p] = "destroyed")
    /\ (\A p \in Proc : hpc[p] = "destroyed") ~> apc \in {"accept", "exited"}
=============================================================================
