--------------------------- MODULE AltibaseHandler ---------------------------
(***************************************************************************)
(* The sessions of the laborers (ats2/altibaseHandler.cpp): each laborer   *)
(* starts an isql process, writes commands to its standard input and reads *)
(* the answers from its standard output up to a line "$$EOF$$".  Nothing   *)
(* but the order of the lines ties an answer to its command.               *)
(*                                                                         *)
(* isql is external: it answers command by command, and may end at any     *)
(* time.  The laborers are threads of one process: a child that one of     *)
(* them forks inherits what the others have open.                          *)
(***************************************************************************)
EXTENDS Naturals, Sequences

CONSTANTS Proc,        \* the laborers
          MaxCommand,  \* how many commands a laborer executes at most
          MaxEnds,     \* how often an isql may end by itself at most
          Limits       \* what may happen in a behaviour: see Limit

(* commands: how many each laborer executes; ends: how often an isql may   *)
(* end by itself, or not start; timeouts: whether isql may be slower than  *)
(* mIsqlReadTimeout; retries: the values of mRetry that RESTART may set.   *)
Limit == [commands : [Proc -> 0..MaxCommand], ends : 0..MaxEnds,
          timeouts : BOOLEAN, retries : SUBSET BOOLEAN]

ASSUME BoundsAssumption == MaxCommand \in Nat \ {0} /\ MaxEnds \in Nat
ASSUME LimitsAssumption == Limits \subseteq Limit

VARIABLES limit,      \* the one of Limits this behaviour is about
          hpc,        \* where each laborer is in its handler
          cmd,        \* the command it executes; 0 before the first
          mLogon,     \* Laborer::mLogon
          mRetry,     \* Laborer::mRetry
          again,      \* whether this is the second execution of cmd
          mResult,    \* mResultString, as the lines read
          file,       \* the buffer of isql_i: lines taken from the pipe
          errno,      \* whether errno is known to be EPIPE
          isql,       \* the process pid
          busy,       \* what isql is doing
          toIsql,     \* the commands in the pipe to isql
          fromIsql,   \* the lines in the pipe from isql
          heirs,      \* the laborers whose isql holds isql's ends of p's pipes
          ends,       \* how many isql have ended by themselves
          late,       \* an answer was left in the session: an execution
                      \* stopped in front of its "$$EOF$$"
          cut         \* the session was gone before cmd was written

hvars == <<hpc, cmd, mLogon, mRetry, again, errno>>
rvars == <<mResult, file>>
pvars == <<toIsql, fromIsql>>
ivars == <<isql, busy, heirs, ends>>
gvars == <<late, cut>>
vars  == <<limit, hvars, rvars, pvars, ivars, gvars>>

(* The commands of a laborer are numbered, 0 is the ping of logon.  Of the *)
(* lines "ok" is any answer of the server (of ping: the syntax error),     *)
(* "refused" another answer to ping, "comm" ERR-91015, "lost" ERR-91020 or *)
(* ERR-51036, "eof" the line "$$EOF$$".                                    *)

Init ==
    /\ limit \in Limits
    /\ hpc      = [p \in Proc |-> "next"]
    /\ cmd      = [p \in Proc |-> 0]
    /\ mLogon   = [p \in Proc |-> FALSE]
    /\ mRetry   \in [Proc -> limit.retries]
    /\ again    = [p \in Proc |-> FALSE]
    /\ mResult  = [p \in Proc |-> <<>>]
    /\ file     = [p \in Proc |-> <<>>]
    /\ errno    = [p \in Proc |-> "any"]
    /\ isql     = [p \in Proc |-> "none"]
    /\ busy     = [p \in Proc |-> "idle"]
    /\ toIsql   = [p \in Proc |-> <<>>]
    /\ fromIsql = [p \in Proc |-> <<>>]
    /\ heirs    = [p \in Proc |-> {}]
    /\ ends     = 0
    /\ late     = [p \in Proc |-> FALSE]
    /\ cut      = [p \in Proc |-> FALSE]

-----------------------------------------------------------------------------
Go(p, place) == hpc' = [hpc EXCEPT ![p] = place]
Says(c, t)   == [cmd |-> c, text |-> t]

(* Defect: the laborer does not close isql's ends after fork. *)
EndsLeftOpen(p) == TRUE

(* isql's ends of the pipes of p are open somewhere.  Between pipe() and   *)
(* the close() after fork() the laborer has them open too.                 *)
EndsOpen(p) == isql[p] = "up" \/ heirs[p] # {} \/ hpc[p] \in {"piped", "forked"}

(* With isql p goes what it has inherited. *)
Heirless(p) == heirs' = [q \in Proc |-> heirs[q] \ {p}]

-----------------------------------------------------------------------------
(* Laborer::runReal takes the next command; the first one logs on. *)
NextCommand(p) ==
    /\ hpc[p] = "next"
    /\ cmd[p] < limit.commands[p]
    /\ cmd'    = [cmd EXCEPT ![p] = @ + 1]
    /\ again'  = [again EXCEPT ![p] = FALSE]
    /\ mLogon' = [mLogon EXCEPT ![p] = TRUE]
    /\ Go(p, IF mLogon[p] THEN "write" ELSE "logout")
    /\ UNCHANGED <<mRetry, errno, rvars, pvars, ivars, gvars>>

NoMoreCommands(p) ==
    /\ hpc[p] = "next"
    /\ cmd[p] = limit.commands[p]
    /\ Go(p, "ended")
    /\ UNCHANGED <<cmd, mLogon, mRetry, again, errno, rvars, pvars, ivars, gvars>>

-----------------------------------------------------------------------------
(* AltibaseHandler::logon. *)

(* Defect: logon without logout. *)
LogoutNot(p) ==
    /\ hpc[p] = "logout"
    /\ isql'   = [isql EXCEPT ![p] = "none"]
    /\ Heirless(p)
    /\ mResult' = [mResult EXCEPT ![p] = <<>>]
    /\ late'   = [late EXCEPT ![p] = FALSE]
    /\ Go(p, "pipe")
    /\ UNCHANGED <<cmd, mLogon, mRetry, again, errno, file, pvars, busy, ends, cut>>

(* clear, then logout: both files are closed with what is in them, and     *)
(* isql is killed and waited for.                                          *)
Logout(p) ==
    /\ hpc[p] = "logout"
    /\ isql'     = [isql EXCEPT ![p] = "none"]
    /\ busy'     = [busy EXCEPT ![p] = "idle"]
    /\ Heirless(p)
    /\ mResult'  = [mResult EXCEPT ![p] = <<>>]
    /\ file'     = [file EXCEPT ![p] = <<>>]
    /\ toIsql'   = [toIsql EXCEPT ![p] = <<>>]
    /\ fromIsql' = [fromIsql EXCEPT ![p] = <<>>]
    /\ late'     = [late EXCEPT ![p] = FALSE]
    /\ Go(p, "pipe")
    /\ UNCHANGED <<cmd, mLogon, mRetry, again, errno, ends, cut>>

(* New pipes: nobody has inherited anything of them yet. *)
Pipe(p) ==
    /\ hpc[p] = "pipe"
    /\ heirs' = [heirs EXCEPT ![p] = {}]
    /\ Go(p, "piped")
    /\ UNCHANGED <<cmd, mLogon, mRetry, again, errno, rvars, pvars, isql, busy, ends, gvars>>

(* The child inherits what the other laborers have open at this moment. *)
Fork(p) ==
    /\ hpc[p] = "piped"
    /\ isql' = [isql EXCEPT ![p] = "up"]
    /\ busy' = [busy EXCEPT ![p] = "idle"]
    /\ heirs' = [q \in Proc |-> IF q # p /\ hpc[q] \in {"piped", "forked"}
                                THEN heirs[q] \cup {p} ELSE heirs[q]]
    /\ Go(p, "forked")
    /\ UNCHANGED <<cmd, mLogon, mRetry, again, errno, rvars, pvars, ends, gvars>>

ForkFails(p) ==
    /\ hpc[p] = "piped"
    /\ ends < limit.ends
    /\ ends' = ends + 1
    /\ Go(p, "dead")
    /\ UNCHANGED <<cmd, mLogon, mRetry, again, errno, rvars, pvars, isql, busy, heirs, gvars>>

(* The parent closes isql's ends. *)
CloseEnds(p) ==
    /\ hpc[p] = "forked"
    /\ Go(p, "ping")
    /\ UNCHANGED <<cmd, mLogon, mRetry, again, errno, rvars, pvars, ivars, gvars>>

(* ping writes a command that is a syntax error for a server that answers. *)
Ping(p) ==
    /\ hpc[p] = "ping"
    /\ toIsql' = IF EndsOpen(p) THEN [toIsql EXCEPT ![p] = Append(@, 0)] ELSE toIsql
    /\ Go(p, "pong")
    /\ UNCHANGED <<cmd, mLogon, mRetry, again, errno, rvars, fromIsql, ivars, gvars>>

-----------------------------------------------------------------------------
(* fgets: from the buffer of isql_i, which takes all there is in the pipe. *)
Fill(p) ==
    /\ hpc[p] \in {"pong", "read"}
    /\ file[p] = <<>> /\ fromIsql[p] # <<>>
    /\ file'     = [file EXCEPT ![p] = fromIsql[p]]
    /\ fromIsql' = [fromIsql EXCEPT ![p] = <<>>]
    /\ UNCHANGED <<hvars, mResult, toIsql, ivars, gvars>>

Gets(p) ==
    /\ file[p] # <<>>
    /\ file' = [file EXCEPT ![p] = Tail(@)]

EndOfFile(p) == file[p] = <<>> /\ fromIsql[p] = <<>> /\ ~EndsOpen(p)

Keep(p) == mResult' = [mResult EXCEPT ![p] = Append(@, Head(file[p]))]

Pong(p) ==
    /\ hpc[p] = "pong"
    /\ Gets(p)
    /\ IF Head(file[p]).text = "eof"
       THEN /\ Go(p, IF \E k \in DOMAIN mResult[p] : mResult[p][k].text = "ok"
                     THEN "write" ELSE "dead")
            /\ UNCHANGED mResult
       ELSE Keep(p) /\ UNCHANGED hpc
    /\ UNCHANGED <<cmd, mLogon, mRetry, again, errno, pvars, ivars, gvars>>

PongEndOfFile(p) ==
    /\ hpc[p] = "pong"
    /\ EndOfFile(p)
    /\ Go(p, "dead")
    /\ UNCHANGED <<cmd, mLogon, mRetry, again, errno, rvars, pvars, ivars, gvars>>

-----------------------------------------------------------------------------
(* AltibaseHandler::execute. *)

(* fwrite never returns less than 0; when nobody holds the other end,      *)
(* fflush fails with EPIPE, which stays in errno.                          *)
Write(p) ==
    /\ hpc[p] = "write"
    /\ mResult' = [mResult EXCEPT ![p] = <<>>]
    /\ toIsql'  = IF EndsOpen(p) THEN [toIsql EXCEPT ![p] = Append(@, cmd[p])] ELSE toIsql
    /\ errno'   = [errno EXCEPT ![p] = IF EndsOpen(p) THEN "any" ELSE "EPIPE"]
    /\ cut'     = [cut EXCEPT ![p] = ~EndsOpen(p)]
    /\ Go(p, "select")
    /\ UNCHANGED <<cmd, mLogon, mRetry, again, file, fromIsql, ivars, late>>

(* select looks at the pipe, not at the buffer of isql_i. *)
Select(p) ==
    /\ hpc[p] = "select"
    /\ fromIsql[p] # <<>> \/ ~EndsOpen(p)
    /\ Go(p, "read")
    /\ UNCHANGED <<cmd, mLogon, mRetry, again, errno, rvars, pvars, ivars, gvars>>

SelectTimeout(p) ==
    /\ hpc[p] = "select"
    /\ limit.timeouts
    /\ fromIsql[p] = <<>> /\ EndsOpen(p)
    /\ late' = [late EXCEPT ![p] = TRUE]
    /\ Go(p, "checked")
    /\ UNCHANGED <<cmd, mLogon, mRetry, again, errno, rvars, pvars, ivars, cut>>

(* Defect: a reading loop that may give up between two lines. *)
ReadLineGivingUp(p) ==
    /\ hpc[p] = "read"
    /\ Gets(p)
    /\ Keep(p)
    /\ \/ UNCHANGED <<hpc, late>>
       \/ late' = [late EXCEPT ![p] = TRUE] /\ Go(p, "checked")
    /\ UNCHANGED <<cmd, mLogon, mRetry, again, errno, pvars, ivars, cut>>

(* A line goes into the result; after ERR-91015 nothing more is read. *)
ReadLine(p) ==
    /\ hpc[p] = "read"
    /\ Gets(p)
    /\ Head(file[p]).text # "eof"
    /\ Keep(p)
    /\ IF Head(file[p]).text = "comm"
       THEN late' = [late EXCEPT ![p] = TRUE] /\ Go(p, "checked")
       ELSE UNCHANGED <<hpc, late>>
    /\ UNCHANGED <<cmd, mLogon, mRetry, again, errno, pvars, ivars, cut>>

ReadEof(p) ==
    /\ hpc[p] = "read"
    /\ Gets(p)
    /\ Head(file[p]).text = "eof"
    /\ Go(p, "checked")
    /\ UNCHANGED <<cmd, mLogon, mRetry, again, errno, mResult, pvars, ivars, gvars>>

(* fgets does not set errno at the end of the file: without an EPIPE of    *)
(* this execution, what errno still holds decides.                         *)
ReadEndOfFile(p) ==
    /\ hpc[p] = "read"
    /\ EndOfFile(p)
    /\ \/ mResult' = [mResult EXCEPT ![p] = <<Says(cmd[p], "lost")>>]
       \/ errno[p] = "any" /\ UNCHANGED mResult
    /\ Go(p, "checked")
    /\ UNCHANGED <<cmd, mLogon, mRetry, again, errno, file, pvars, ivars, gvars>>

-----------------------------------------------------------------------------
(* Laborer::runReal looks for a lost connection in the result, of the      *)
(* first execution only.                                                   *)
IsLost(p) == \E k \in DOMAIN mResult[p] : mResult[p][k].text \in {"comm", "lost"}

Relogon(p) ==
    /\ hpc[p] = "checked"
    /\ IsLost(p) /\ mRetry[p] /\ ~again[p]
    /\ again' = [again EXCEPT ![p] = TRUE]
    /\ Go(p, "logout")
    /\ UNCHANGED <<cmd, mLogon, mRetry, errno, rvars, pvars, ivars, gvars>>

TakeResult(p) ==
    /\ hpc[p] = "checked"
    /\ ~IsLost(p) \/ ~mRetry[p] \/ again[p]
    /\ mResult' = [mResult EXCEPT ![p] = <<>>]
    /\ Go(p, "next")
    /\ UNCHANGED <<cmd, mLogon, mRetry, again, errno, file, pvars, ivars, gvars>>

-----------------------------------------------------------------------------
(* isql (external). *)
Answer(p) ==
    /\ isql[p] = "up" /\ busy[p] = "idle"
    /\ toIsql[p] # <<>>
    /\ \E text \in IF Head(toIsql[p]) = 0 THEN {"ok", "refused"} ELSE {"ok", "comm", "lost"} :
          fromIsql' = [fromIsql EXCEPT ![p] = Append(@, Says(Head(toIsql[p]), text))]
    /\ busy' = [busy EXCEPT ![p] = "said"]
    /\ UNCHANGED <<hvars, rvars, toIsql, isql, heirs, ends, gvars>>

AnswerEnds(p) ==
    /\ isql[p] = "up" /\ busy[p] = "said"
    /\ fromIsql' = [fromIsql EXCEPT ![p] = Append(@, Says(Head(toIsql[p]), "eof"))]
    /\ toIsql'   = [toIsql EXCEPT ![p] = Tail(@)]
    /\ busy'     = [busy EXCEPT ![p] = "idle"]
    /\ UNCHANGED <<hvars, rvars, isql, heirs, ends, gvars>>

IsqlEnds(p) ==
    /\ isql[p] = "up"
    /\ ends < limit.ends
    /\ ends' = ends + 1
    /\ isql' = [isql EXCEPT ![p] = "gone"]
    /\ busy' = [busy EXCEPT ![p] = "idle"]
    /\ Heirless(p)
    /\ UNCHANGED <<hvars, rvars, pvars, gvars>>

-----------------------------------------------------------------------------
LogonStep(p) ==
    \/ Logout(p) \/ Pipe(p) \/ Fork(p) \/ ForkFails(p) \/ CloseEnds(p) \/ Ping(p)
    \/ Pong(p) \/ PongEndOfFile(p)

ExecuteStep(p) ==
    \/ Write(p) \/ Select(p) \/ SelectTimeout(p) \/ ReadLine(p) \/ ReadEof(p)
    \/ ReadEndOfFile(p)

LaborerStep(p) ==
    /\ \/ NextCommand(p) \/ NoMoreCommands(p) \/ Relogon(p) \/ TakeResult(p)
       \/ LogonStep(p) \/ ExecuteStep(p) \/ Fill(p)
    /\ UNCHANGED limit

IsqlStep(p) == (Answer(p) \/ AnswerEnds(p)) /\ UNCHANGED limit

Terminated == \A p \in Proc : hpc[p] \in {"dead", "ended"}

Next == \/ \E p \in Proc : LaborerStep(p) \/ IsqlStep(p) \/ (IsqlEnds(p) /\ UNCHANGED limit)
        \/ Terminated /\ UNCHANGED vars

Spec == Init /\ [][Next]_vars

(* The laborers run, and isql answers at last what it is given. *)
Fairness == \A p \in Proc : WF_vars(LaborerStep(p)) /\ WF_vars(IsqlStep(p))

FairSpec == Spec /\ Fairness

-----------------------------------------------------------------------------
(* Laborer::runReal takes what execute has read as the answer to the       *)
(* command it has written; it is, until an execution of the session leaves *)
(* an answer behind (a timeout, or ERR-91015 with no new logon after it).  *)
(* A new logon makes it hold again.  A session that was gone when the      *)
(* command was written is then found out too, by errno.  Even after a late *)
(* answer a result is the answer to one command, never parts of two.       *)
OwnAnswer ==
    \A p \in Proc :
        hpc[p] = "checked" =>
            /\ ~late[p] => \A k \in DOMAIN mResult[p] : mResult[p][k].cmd = cmd[p]
            /\ \A j, k \in DOMAIN mResult[p] : mResult[p][j].cmd = mResult[p][k].cmd
            /\ cut[p] /\ ~late[p] => IsLost(p)

(* For the proof of OwnAnswer.  Lines: what p has still to read of what    *)
(* its isql has written.                                                   *)
Line == [cmd : Nat, text : {"ok", "refused", "comm", "lost", "eof"}]
Lines(p) == file[p] \o fromIsql[p]

TypeOK ==
    /\ limit \in Limits
    /\ hpc \in [Proc -> {"next", "logout", "pipe", "piped", "forked", "ping", "pong", "write",
                         "select", "read", "checked", "dead", "ended"}]
    /\ cmd    \in [Proc -> Nat]
    /\ mLogon \in [Proc -> BOOLEAN] /\ mRetry \in [Proc -> BOOLEAN] /\ again \in [Proc -> BOOLEAN]
    /\ mResult \in [Proc -> Seq(Line)] /\ file \in [Proc -> Seq(Line)]
    /\ errno  \in [Proc -> {"any", "EPIPE"}]
    /\ isql   \in [Proc -> {"none", "up", "gone"}]
    /\ busy   \in [Proc -> {"idle", "said"}]
    /\ toIsql \in [Proc -> Seq(Nat)] /\ fromIsql \in [Proc -> Seq(Line)]
    /\ heirs  \in [Proc -> SUBSET Proc]
    /\ ends   \in 0..MaxEnds
    /\ late   \in [Proc -> BOOLEAN] /\ cut \in [Proc -> BOOLEAN]

(* A session begins with empty pipes and an empty buffer. *)
Fresh(p) ==
    /\ busy[p] = "said" => toIsql[p] # <<>>
    /\ hpc[p] \in {"pipe", "piped", "forked", "ping"} =>
          /\ ~late[p] /\ mResult[p] = <<>> /\ Lines(p) = <<>>
          /\ toIsql[p] = <<>> /\ busy[p] = "idle"

(* After the line of an answer comes its "$$EOF$$", or nothing more; so a  *)
(* result is one line at most.                                             *)
NoLineBefore(p) == busy[p] = "said" \/ isql[p] # "up"
InPairs(p) ==
    /\ \A k \in DOMAIN Lines(p) : Lines(p)[k].text # "eof" =>
          IF k < Len(Lines(p)) THEN Lines(p)[k + 1].text = "eof" ELSE NoLineBefore(p)
    /\ Len(mResult[p]) <= 1
    /\ hpc[p] = "select" => mResult[p] = <<>>
    /\ hpc[p] \in {"pong", "read"} /\ mResult[p] # <<>> =>
          IF Lines(p) # <<>> THEN Lines(p)[1].text = "eof" ELSE NoLineBefore(p)

(* Without a late answer one command at most is being answered, and when   *)
(* its "$$EOF$$" has been read nothing of the session is left to read.     *)
Expected(p) == IF hpc[p] = "pong" THEN 0 ELSE cmd[p]
OneAtATime(p) ==
    ~late[p] =>
        /\ hpc[p] \in {"next", "write", "checked"} =>
              /\ Lines(p) = <<>>
              /\ isql[p] = "up" => toIsql[p] = <<>>
        /\ hpc[p] \in {"pong", "select", "read"} =>
              /\ \A k \in DOMAIN Lines(p) :
                    /\ Lines(p)[k].cmd = Expected(p)
                    /\ Lines(p)[k].text = "eof" =>
                          k = Len(Lines(p)) /\ (isql[p] = "up" => toIsql[p] = <<>>)
              /\ isql[p] = "up" => toIsql[p] \in {<<>>, <<Expected(p)>>}
        /\ hpc[p] \in {"pong", "select", "read", "checked"} =>
              \A k \in DOMAIN mResult[p] : mResult[p][k].cmd = Expected(p)

(* A command that was written to nobody is answered by nobody, and errno   *)
(* says so.                                                                *)
CutShows(p) ==
    cut[p] =>
        /\ hpc[p] \in {"select", "read"} =>
              errno[p] = "EPIPE" /\ ~EndsOpen(p) /\ (~late[p] => Lines(p) = <<>>)
        /\ hpc[p] = "checked" /\ ~late[p] => IsLost(p)

Answered == \A p \in Proc : Fresh(p) /\ InPairs(p) /\ OneAtATime(p) /\ CutShows(p)

(* Every laborer gets through its commands or gives up, whatever its isql  *)
(* does, unless the isql of another laborer has inherited the ends of its  *)
(* pipes: then the end of its own isql is not seen.                        *)
EndsUnlessInherited == \A p \in Proc : <>(hpc[p] \in {"dead", "ended"} \/ heirs[p] # {})
==============================================================================
