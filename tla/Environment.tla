----------------------------- MODULE Environment -----------------------------
(***************************************************************************)
(* The servers a test case talks to and the environment of its commands:   *)
(* server.conf (ats2/serverManager.cpp), the parameters of each server     *)
(* that a Servicer loads, DECLARE and SET_ENV change, and that logons,     *)
(* SYSTEM, RSYSTEM and CREATE read (serviceThread.cpp, laborerThread.cpp). *)
(*                                                                         *)
(* Declarations take effect when the Servicer walks over them, SET_ENV and *)
(* the commands when their laborer executes them, one lookup after another *)
(* and without a lock: two threads in a map at once, one of them writing,  *)
(* is a race, whose outcome here is either none or the end of the service. *)
(***************************************************************************)
EXTENDS Integers, Sequences, SequencesExt, FiniteSets

CONSTANTS Proc, P0,   \* the processes, and the first one
          Confs,      \* what server.conf may contain, as lines
          Tests,      \* the test cases, [complete, begin, props, script]
          AgentConf,  \* the lines of tagent.conf, [id, at]; id "" if blank or a comment
          Base,       \* ALTIBASE_PORT_NO of the user's environment
          MaxTests,   \* how many test cases are run (bound)
          MaxLost     \* how many sessions are lost in a test case (bound)

ASSUME P0Assumption     == P0 \in Proc
ASSUME BoundsAssumption == Base \in Nat /\ MaxTests \in Nat /\ MaxLost \in Nat

VARIABLES file,            \* the lines of server.conf
          cache,           \* gServerCache for this file, as a sequence
          test, spc, ip,   \* the test case, where its Servicer is, its item
          mServerMap, mServerAlias, mDefaultServer, mDefaultType,
          mQuery, queue,   \* the commands not handed over, and handed over
          lab,             \* where each laborer is
          cur,             \* the command it executes
          found,           \* the server of its alias, Unknown if not looked up yet
          seen,            \* what it has looked up for the command so far
          sess,            \* its session: what its isql was started with
          mRsysFds,        \* the agents it is connected to
          tests, lost,     \* counters for the bounds
          loaded,          \* ghost: the lines the cache was filled from
          log,             \* ghost: the changes of parameters, in order
          made             \* ghost: the last CREATE

fvars == <<file, cache, tests, loaded>>
dvars == <<mServerAlias, mDefaultServer, mDefaultType>>
tvars == <<test, spc, ip, mQuery>>
lvars == <<queue, lab, cur, found, seen, sess, mRsysFds, lost>>
gvars == <<log, made>>
vars  == <<fvars, dvars, tvars, lvars, gvars, mServerMap>>

(***************************************************************************)
(* A value of a parameter: a text, "%PORT_NO" or "%REPLICATION_PORT_NO"    *)
(* with its number, "%SHM_DB_KEY", "$ATC_HOME" and a path (which becomes a *)
(* path under mEnvCASE or mEnvRESULT), or "$" and a parameter's name.      *)
(***************************************************************************)
Value(kind, s, n) == [kind |-> kind, s |-> s, n |-> n]
Text(s)   == Value("text", s, 0)
Number(n) == Value("text", "", n)
PortNo(n) == Value("port", "", n)
ReplNo(n) == Value("replication", "", n)
InAtc(s)  == Value("atc", s, 0)
ShmKey    == Value("shm", "", 0)
Ref(k)    == Value("ref", k, 0)

Local   == Text("127.0.0.1")
Home    == Text("ALTIBASE_HOME")        \* mEnvHOME
Keys    == {"HOST_IP", "ATAF_PORT_NO", "ALTIBASE_PORT_NO", "ALTIBASE_REPLICATION_PORT_NO",
            "ALTIBASE_HOME", "PATH", "KEY"}
NoTest    == [vars |-> {}, begin |-> FALSE, props |-> <<>>, script |-> <<>>]
NoSession == [server |-> "", host |-> Text(""), port |-> Text(""), home |-> Text(""), ISQL_CONNECTION |-> "", at |-> -1]
NoCommand == [at |-> 0, line |-> 0, c |-> [op |-> "none", by |-> P0, alias |-> "", name |-> "", value |-> Text("")]]
Unknown   == "?"
NoCreate  == [alias |-> "", port |-> Text(""), parsed |-> -1, at |-> -1]

(* operator[] of a map: what is not there is empty. *)
At(f, k, none)  == IF k \in DOMAIN f THEN f[k] ELSE none
Param(f, k)     == At(f, k, Text(""))
Put(f, k, v)    == [x \in DOMAIN f \cup {k} |-> IF x = k THEN v ELSE f[x]]
Erase(f, k)     == [x \in DOMAIN f \ {k} |-> f[x]]
Touch(f, k, none) == IF k \in DOMAIN f THEN f ELSE Put(f, k, none)

getPort(v)            == IF v.kind = "port" THEN Number(v.n * 1000 + Base) ELSE v
getReplicationPort(v) == IF v.kind = "replication" THEN Number(v.n * 1000 + Base + 5000) ELSE v

(***************************************************************************)
(* ServerManager::load.  A line opens a server or gives the open one a     *)
(* parameter; a server that is opened again starts without parameters.     *)
(***************************************************************************)
Line(server, name, value) == [server |-> server, name |-> name, value |-> value]

LoadLineKeeping(st, l) ==   \* defect: the parameters are not cleared
    IF l.server # "" THEN [st EXCEPT !.server = l.server]
    ELSE IF st.server = "" THEN st
    ELSE [st EXCEPT !.params = Put(@, l.name, l.value),
                    !.map = Put(@, st.server, Put(st.params, l.name, l.value))]

LoadLine(st, l) ==
    IF l.server # "" THEN [st EXCEPT !.server = l.server, !.params = <<>>]
    ELSE IF st.server = "" THEN st
    ELSE [st EXCEPT !.params = Put(@, l.name, l.value),
                    !.map = Put(@, st.server, Put(st.params, l.name, l.value))]

LoadConf(lines) == FoldLeft(LoadLine, [server |-> "", params |-> <<>>, map |-> <<>>], lines).map

(* tagent.conf: who the identifiers of RSYSTEM are, the last line for each. *)
mRsystemMap == FoldLeft(LAMBDA map, l : IF l.id = "" THEN map ELSE Put(map, l.id, l.at), <<>>, AgentConf)

(* Servicer::load: DEFAULT gets the user's environment, then ENV_PROPERTIES *)
(* on top; what another server lacks, or has empty, it takes from DEFAULT. *)
UserEnv == [k \in {"ALTIBASE_HOME", "PATH"} |-> IF k = "PATH" THEN Text("PATH") ELSE Home]

Default(map, props) ==
    LET own == At(map, "DEFAULT", <<>>)
    IN  [k \in DOMAIN own \cup DOMAIN UserEnv \cup DOMAIN props |->
            IF k \in DOMAIN props THEN props[k]
            ELSE IF k \in DOMAIN UserEnv THEN UserEnv[k] ELSE own[k]]

Inherited(map, props) ==
    LET default == Default(map, props)
    IN  [s \in DOMAIN map \cup {"DEFAULT"} |->
            IF s = "DEFAULT" THEN default
            ELSE [k \in DOMAIN map[s] \cup DOMAIN default |->
                     IF Param(map[s], k) = Text("") THEN Param(default, k) ELSE map[s][k]]]

(***************************************************************************)
(* The parameters of a server.                                             *)
(***************************************************************************)
Server(s) == At(mServerMap, s, <<>>)
Alias(a)  == At(mServerAlias, a, "")

(* "$ALTIBASE_HOME" is the user's, whatever the server's own is; "$" and   *)
(* no parameter's name stays as it is.                                     *)
Replaced(params, v) ==
    CASE v.kind = "shm" -> getPort(Param(params, "ALTIBASE_PORT_NO"))
      [] v.kind = "atc" -> Value("case", v.s, 0)
      [] v.kind = "ref" /\ v.s = "ALTIBASE_HOME" -> Home
      [] v.kind = "ref" /\ v.s \in DOMAIN params -> params[v.s]
      [] OTHER -> v

(* Where the commands for a server run, and what they are given.           *)
Place(host, port) == [host |-> host, port |-> port]
ThisHost          == Place(Local, Text(""))

server(params) == IF Param(params, "HOST_IP") = Local THEN ThisHost
                  ELSE Place(Param(params, "HOST_IP"), Param(params, "ATAF_PORT_NO"))

Shown(k, v) ==
    CASE k \in {"ALTIBASE_PORT_NO", "ALTIBASE_LINKER_PORT_NO", "AUDIT_DB"} -> getPort(v)
      [] k = "ALTIBASE_REPLICATION_PORT_NO" -> getReplicationPort(v)
      [] k = "ALTIBASE_HOME" /\ v.kind = "atc" -> Value("result", v.s, 0)
      [] OTHER -> v

(* getEnv4System and getEnv4Rsystem, but for PATH.                         *)
Exports(params) == [k \in DOMAIN params |-> Shown(k, params[k])]

(* "${ALTIBASE_REPLICATION_PORT_NO@a}" in a CREATE, "${ALTIBASE_PORT_NO@a}" *)
(* in a SYSTEM command: only an alias in the map is replaced.  The walk    *)
(* over the aliases leaves an entry behind for every server they name.     *)
Walked == [s \in DOMAIN mServerMap \cup Range(mServerAlias) |-> Server(s)]

replace(a) == IF a \in DOMAIN mServerAlias
              THEN getReplicationPort(Param(Server(mServerAlias[a]), "ALTIBASE_REPLICATION_PORT_NO"))
              ELSE Text("${}")

replaceServicePort(a) == IF a \in DOMAIN mServerAlias
                         THEN getPort(Param(Server(mServerAlias[a]), "ALTIBASE_PORT_NO"))
                         ELSE Text("${}")

(* Servicer::getLogonData.                                                 *)
LogonServerOfAlias(p) ==   \* defect: the alias is taken for the server
    IF p = P0 \/ p \notin DOMAIN mDefaultServer THEN "DEFAULT" ELSE mDefaultServer[p]

LogonServer(p) == IF p = P0 \/ p \notin DOMAIN mDefaultServer THEN "DEFAULT"
                  ELSE Alias(mDefaultServer[p])

ConnType(p) == LET t == At(mDefaultType, p, "")
               IN  IF t = "UNIX" THEN 2 ELSE IF t = "IPC" THEN 3 ELSE 1

getLogonData(p) ==
    LET params == Server(LogonServer(p))
    IN  [host |-> Param(params, "HOST_IP"), port |-> getPort(Param(params, "ALTIBASE_PORT_NO")),
         env |-> Param(params, "ALTIBASE_HOME"), conn_type |-> ConnType(p)]

(* The arguments and the environment AltibaseHandler::logon gives to isql. *)
Started(data, s, n) ==
    [server |-> s, host |-> data.host, port |-> data.port, home |-> data.env, at |-> n,
     ISQL_CONNECTION |-> <<"TCP", "UNIX", "IPC">>[data.conn_type]]

(* A lookup leaves an empty entry behind for what is not there.            *)
LookUpLogon(p) ==
    /\ mDefaultType' = Touch(mDefaultType, p, "")
    /\ mServerMap'   = Touch(mServerMap, LogonServer(p), <<>>)
    /\ mServerAlias' = IF p # P0 /\ p \in DOMAIN mDefaultServer
                       THEN Touch(mServerAlias, mDefaultServer[p], "") ELSE mServerAlias
    /\ UNCHANGED mDefaultServer

-----------------------------------------------------------------------------
Fresh ==
    /\ mServerAlias' = [a \in {"DEFAULT"} |-> "DEFAULT"]
    /\ mDefaultServer' = [p \in {P0} |-> "DEFAULT"] /\ mDefaultType' = <<>>
    /\ mQuery' = [p \in Proc |-> <<>>] /\ queue' = [p \in Proc |-> <<>>]
    /\ lab' = [p \in Proc |-> "none"] /\ cur' = [p \in Proc |-> NoCommand]
    /\ found' = [p \in Proc |-> Unknown] /\ seen' = [p \in Proc |-> <<>>]
    /\ sess' = [p \in Proc |-> NoSession] /\ mRsysFds' = [p \in Proc |-> {}]
    /\ lost' = 0 /\ log' = <<>> /\ ip' = 1
    /\ made' = [p \in Proc |-> NoCreate]

Init ==
    /\ file \in Confs /\ cache = <<>> /\ loaded = <<>> /\ tests = 0
    /\ test = NoTest /\ spc = "idle" /\ ip = 1
    /\ mServerMap = <<>> /\ mServerAlias = <<>> /\ mDefaultServer = <<>> /\ mDefaultType = <<>>
    /\ mQuery = [p \in Proc |-> <<>>] /\ queue = [p \in Proc |-> <<>>]
    /\ lab = [p \in Proc |-> "none"] /\ cur = [p \in Proc |-> NoCommand]
    /\ found = [p \in Proc |-> Unknown] /\ seen = [p \in Proc |-> <<>>]
    /\ sess = [p \in Proc |-> NoSession] /\ mRsysFds = [p \in Proc |-> {}]
    /\ lost = 0 /\ log = <<>>
    /\ made = [p \in Proc |-> NoCreate]

(* server.conf is edited between two test cases. *)
EditFile(f) ==
    /\ spc = "idle" /\ f # file
    /\ file' = f
    /\ UNCHANGED <<cache, tests, loaded, dvars, tvars, lvars, gvars, mServerMap>>

(* A RUN request: every variable of the handle must be set.                *)
EnvVars == {"ALTIBASE_PORT_NO", "ALTIBASE_HOME", "ALTIBASE_NLS_USE", "ATAF_TEST_CASE", "ATAF_USER_TEST_CASE",
            "ATAF_TEST_RESULT", "ATAF_RESULT_SUFFIX", "ATAF_ORACLE_SUFFIX", "PATH", "LANG", "ENV_PROPERTIES"}

getEnv(t) == EnvVars \subseteq t.vars

NewTest(t) ==
    /\ spc = "idle" /\ tests < MaxTests
    /\ tests' = tests + 1
    /\ IF getEnv(t) THEN test' = t /\ spc' = "load" /\ Fresh
       ELSE UNCHANGED <<tvars, dvars, lvars, gvars>>
    /\ UNCHANGED <<file, cache, loaded, mServerMap>>

(* The map is a copy of the cache, which BEGIN, the first test of a client *)
(* run, fills anew.                                                        *)
Load ==
    /\ spc = "load"
    /\ LET read == cache = <<>> \/ test.begin
           map  == IF read THEN LoadConf(file) ELSE cache[1]
       IN  /\ cache' = <<map>>
           /\ loaded' = IF read THEN file ELSE loaded
           /\ mServerMap' = Inherited(map, test.props)
    /\ spc' = "parse"
    /\ UNCHANGED <<file, tests, test, ip, mQuery, dvars, lvars, gvars>>

-----------------------------------------------------------------------------
(* The Servicer walks over the script. *)
Item   == test.script[ip]
Parsing(ops) == spc = "parse" /\ ip <= Len(test.script) /\ Item.op \in ops
Step   == ip' = ip + 1 /\ UNCHANGED <<test, spc>>

Commands == {"set", "unset", "system", "rsystem", "shell", "create", "sql"}

Declares == {"server", "client", "type"}

(* runLaborer, for the process of the section: DECLARE stands in P0's.     *)
Section == IF Item.op \in Declares THEN P0 ELSE Item.by

StartLaborer ==
    /\ Parsing(Commands \cup Declares) /\ lab[Section] = "none"
    /\ LookUpLogon(Section)
    /\ lab' = [lab EXCEPT ![Section] = "idle"]
    /\ UNCHANGED <<fvars, tvars, queue, cur, found, seen, sess, mRsysFds, lost, gvars>>

Declare ==
    /\ Parsing(Declares) /\ lab[P0] # "none"
    /\ mServerAlias'   = IF Item.op = "server" THEN Put(mServerAlias, Item.alias, Item.name) ELSE mServerAlias
    /\ mDefaultServer' = IF Item.op = "client" THEN Put(mDefaultServer, Item.by, Item.alias) ELSE mDefaultServer
    /\ mDefaultType'   = IF Item.op = "type" THEN Put(mDefaultType, Item.by, Item.name) ELSE mDefaultType
    /\ Step
    /\ UNCHANGED <<fvars, mQuery, lvars, gvars, mServerMap>>

(* push_back; a CREATE gets its addresses now. *)
Made(c) == IF c.op = "create" THEN [c EXCEPT !.value = replace(c.alias)] ELSE c

Push ==
    /\ Parsing(Commands) /\ lab[Item.by] # "none"
    /\ LET e == [at |-> Len(log), line |-> ip, c |-> Made(Item)]
       IN  IF Item.by = P0
           THEN queue' = [queue EXCEPT ![P0] = Append(@, e)] /\ UNCHANGED mQuery
           ELSE mQuery' = [mQuery EXCEPT ![Item.by] = Append(@, e)] /\ UNCHANGED queue
    /\ mServerMap' = IF Item.op = "create" THEN Walked ELSE mServerMap
    /\ Step
    /\ UNCHANGED <<fvars, dvars, lab, cur, found, seen, sess, mRsysFds, lost, gvars>>

Synced(p) == queue[p] = <<>> \/ lab[p] = "dead"

HandOver ==
    /\ queue'  = [p \in Proc |-> IF lab[p] = "none" THEN <<>> ELSE queue[p] \o mQuery[p]]
    /\ mQuery' = [p \in Proc |-> <<>>]

Pwait ==
    /\ Parsing({"pwait"}) /\ Synced(P0)
    /\ HandOver /\ spc' = "wait"
    /\ UNCHANGED <<fvars, dvars, test, ip, lab, cur, found, seen, sess, mRsysFds, lost, gvars, mServerMap>>

EndOfScript ==
    /\ spc = "parse" /\ ip > Len(test.script)
    /\ HandOver /\ spc' = "wait"
    /\ UNCHANGED <<fvars, dvars, test, ip, lab, cur, found, seen, sess, mRsysFds, lost, gvars, mServerMap>>

(* At the end the laborers are ended and joined. *)
Waited ==
    /\ spc = "wait" /\ \A p \in Proc : Synced(p)
    /\ IF ip <= Len(test.script) THEN spc' = "parse" /\ ip' = ip + 1
       ELSE /\ \A p \in Proc : lab[p] \in {"none", "idle", "dead"}
            /\ spc' = "idle" /\ UNCHANGED ip
    /\ UNCHANGED <<fvars, dvars, test, mQuery, lvars, gvars, mServerMap>>

-----------------------------------------------------------------------------
(* The laborers.  A command that uses the parameters looks them up again   *)
(* and again: first the server its alias names, then what it needs of it.  *)
AliasOf(c) == IF c.op = "shell" \/ c.alias = "" THEN "DEFAULT" ELSE c.alias

First(p, c) ==
    CASE c.op \in {"set", "unset"} -> "set"
      [] c.op = "system"          -> "port"
      [] c.op = "shell"           -> "env"
      [] c.op = "rsystem"         -> "agent"
      [] OTHER                    -> IF sess[p] = NoSession THEN "logon" ELSE "sent"

(* Without "@" SET_ENV means the server DEFAULT, the other commands the    *)
(* alias DEFAULT, which a script may declare anew.                         *)
Pop(p) ==
    /\ spc # "crash" /\ lab[p] = "idle" /\ queue[p] # <<>>
    /\ LET c == Head(queue[p]).c
       IN  /\ lab'   = [lab EXCEPT ![p] = First(p, c)]
           /\ found' = [found EXCEPT ![p] = IF c.op \in {"set", "unset"} /\ c.alias = "" THEN "DEFAULT" ELSE Unknown]
    /\ cur'   = [cur EXCEPT ![p] = Head(queue[p])]
    /\ queue' = [queue EXCEPT ![p] = Tail(@)]
    /\ seen'  = [seen EXCEPT ![p] = <<>>]
    /\ UNCHANGED <<fvars, dvars, tvars, sess, mRsysFds, lost, gvars, mServerMap>>

Cmd(p)         == cur[p].c
InMap(p, place) == spc # "crash" /\ lab[p] = place
Go(p, place)   == lab' = [lab EXCEPT ![p] = place]

Lookups == {"set", "form", "env", "path", "place", "submit"}

(* mServerAlias[alias] *)
FindServer(p) ==
    /\ spc # "crash" /\ lab[p] \in Lookups /\ found[p] = Unknown
    /\ found' = [found EXCEPT ![p] = Alias(AliasOf(Cmd(p)))]
    /\ mServerAlias' = Touch(mServerAlias, AliasOf(Cmd(p)), "")
    /\ UNCHANGED <<fvars, mDefaultServer, mDefaultType, tvars, queue, lab, cur, seen, sess, mRsysFds, lost, gvars, mServerMap>>

Saw(p, what, s, got) == seen' = [seen EXCEPT ![p] = Put(@, what, [server |-> s, got |-> got, at |-> Len(log)])]

(* mServerMap[found], of which the code takes got.                         *)
LookUp(p, place, got, next) ==
    /\ InMap(p, place) /\ found[p] # Unknown
    /\ Saw(p, place, found[p], got)
    /\ mServerMap' = Touch(mServerMap, found[p], <<>>)
    /\ found' = [found EXCEPT ![p] = Unknown]
    /\ Go(p, next)
    /\ UNCHANGED <<fvars, dvars, tvars, queue, cur, sess, mRsysFds, lost, gvars>>

Params(p) == Server(found[p])

(* addEnv reads the parameters, for what the value refers to, and then     *)
(* writes one of them; rmEnv erases it.                                    *)
ReadEnv(p) ==
    /\ InMap(p, "set") /\ found[p] # Unknown /\ Cmd(p).op = "set"
    /\ LET shm    == Cmd(p).value.kind = "shm"
           params == IF shm THEN Touch(Params(p), "ALTIBASE_PORT_NO", Text("")) ELSE Params(p)
       IN  /\ Saw(p, "set", found[p], Replaced(params, Cmd(p).value))
           /\ mServerMap' = Put(mServerMap, found[p], params)
    /\ Go(p, "write")
    /\ UNCHANGED <<fvars, dvars, tvars, queue, cur, found, sess, mRsysFds, lost, gvars>>

Changed(p, params, read) ==
    /\ mServerMap' = Put(mServerMap, found[p], params)
    /\ log' = Append(log, [server |-> found[p], key |-> Cmd(p).name, op |-> Cmd(p).op, value |-> Cmd(p).value, read |-> read])
    /\ Go(p, "idle")
    /\ UNCHANGED <<fvars, dvars, tvars, queue, cur, found, seen, sess, mRsysFds, lost, made>>

addEnv(p) ==
    /\ InMap(p, "write")
    /\ Changed(p, Put(Params(p), Cmd(p).name, seen[p]["set"].got), seen[p]["set"].at)

rmEnv(p) ==
    /\ InMap(p, "set") /\ found[p] # Unknown /\ Cmd(p).op = "unset"
    /\ Changed(p, Erase(Params(p), Cmd(p).name), Len(log))

(* runSystem: the port of the alias the command names; whether the request *)
(* is formed for this host; the environment, with PATH only if the server  *)
(* is this host; whether it is forked here; and where it is handed to      *)
(* otherwise.                                                              *)
ServicePort(p) ==
    /\ InMap(p, "port")
    /\ Saw(p, "port", Alias(Cmd(p).name), replaceServicePort(Cmd(p).name))
    /\ mServerMap' = Walked
    /\ Go(p, "form")
    /\ UNCHANGED <<fvars, dvars, tvars, queue, cur, found, sess, mRsysFds, lost, gvars>>

FormRequest(p) == LookUp(p, "form", server(Params(p)), "env")

AfterEnv(p) == IF Cmd(p).op = "system" THEN "place" ELSE "idle"

(* getEnv4System, also by runSystem2, which a shell command and START run  *)
(* by, always on this host; and getEnv4Rsystem, which never gives PATH.    *)
ReadParams(p) ==
    LookUp(p, "env", Exports(Params(p)),
           IF Cmd(p).op # "rsystem" /\ "PATH" \in DOMAIN Params(p) THEN "path" ELSE AfterEnv(p))

PathIsGiven(p) == LookUp(p, "path", server(Params(p)), AfterEnv(p))

RunHere(p) == LookUp(p, "place", server(Params(p)), IF server(Params(p)) = ThisHost THEN "idle" ELSE "submit")

Submit(p) == LookUp(p, "submit", server(Params(p)), "idle")

(* system.log cannot be opened.                                            *)
SystemFails(p) ==
    /\ InMap(p, "place") /\ found[p] = Unknown /\ seen[p]["form"].got = ThisHost
    /\ Go(p, "idle")
    /\ UNCHANGED <<fvars, dvars, tvars, queue, cur, found, seen, sess, mRsysFds, lost, gvars, mServerMap>>

(* getAgentData and logonRsystem: an agent that is not in tagent.conf or   *)
(* cannot be reached ends the command before the environment is read.      *)
RsystemFails(p) ==
    /\ InMap(p, "agent") /\ Cmd(p).name \notin mRsysFds[p]
    /\ Go(p, "idle")
    /\ UNCHANGED <<fvars, dvars, tvars, queue, cur, found, seen, sess, mRsysFds, lost, gvars, mServerMap>>

(* runRsystem *)
Rsystem(p) ==
    /\ InMap(p, "agent") /\ Cmd(p).name \in DOMAIN mRsystemMap
    /\ mRsysFds' = [mRsysFds EXCEPT ![p] = @ \cup {Cmd(p).name}]
    /\ Saw(p, "agent", "", mRsystemMap[Cmd(p).name])
    /\ Go(p, "env")
    /\ UNCHANGED <<fvars, dvars, tvars, queue, cur, found, sess, lost, gvars, mServerMap>>

(* Laborer::logon at the first statement, and again after a loss.          *)
Logon(p) ==
    /\ InMap(p, "logon")
    /\ sess' = [sess EXCEPT ![p] = Started(getLogonData(p), LogonServer(p), Len(log))]
    /\ LookUpLogon(p)
    /\ Go(p, "sent")
    /\ UNCHANGED <<fvars, tvars, queue, cur, found, seen, mRsysFds, lost, gvars>>

LogonFails(p) ==
    /\ InMap(p, "logon")
    /\ LookUpLogon(p)
    /\ Go(p, "dead")
    /\ UNCHANGED <<fvars, tvars, queue, cur, found, seen, sess, mRsysFds, lost, gvars>>

Answered(p) ==
    /\ spc # "crash" /\ lab[p] = "sent"
    /\ made' = IF Cmd(p).op = "create"
               THEN [made EXCEPT ![p] = [alias |-> Cmd(p).alias, port |-> Cmd(p).value,
                                         parsed |-> cur[p].at, at |-> Len(log)]]
               ELSE made
    /\ Go(p, "idle")
    /\ UNCHANGED <<fvars, dvars, tvars, queue, cur, found, seen, sess, mRsysFds, lost, log, mServerMap>>

Lost(p) ==
    /\ spc # "crash" /\ lab[p] = "sent" /\ lost < MaxLost
    /\ lost' = lost + 1
    /\ sess' = [sess EXCEPT ![p] = NoSession]
    /\ Go(p, "logon")
    /\ UNCHANGED <<fvars, dvars, tvars, queue, cur, found, seen, mRsysFds, gvars, mServerMap>>

(***************************************************************************)
(* The race.  A thread that is about to use the maps reads some and writes *)
(* some: SET_ENV the parameters, DECLARE the aliases or the defaults, and  *)
(* a lookup in vain what it looks up.                                      *)
(***************************************************************************)
AliasMiss(a) == (IF a \in DOMAIN mServerAlias THEN {} ELSE {"alias"})
                \cup (IF Alias(a) \in DOMAIN mServerMap THEN {} ELSE {"params"})
LogonMiss(p) == (IF p \in DOMAIN mDefaultType THEN {} ELSE {"type"})
                \cup (IF p = P0 \/ p \notin DOMAIN mDefaultServer THEN {} ELSE AliasMiss(mDefaultServer[p]))

Use(reads, writes) == [reads |-> reads, writes |-> writes]
LogonUse(p) == Use({"type", "default", "alias", "params"}, LogonMiss(p))

ServerMiss(ss) == IF ss \subseteq DOMAIN mServerMap THEN {} ELSE {"params"}

WalkUse == Use({"alias", "params"}, ServerMiss(Range(mServerAlias)))

LaborerUse(p) ==
    CASE lab[p] = "logon" -> LogonUse(p)
      [] lab[p] = "port"  -> WalkUse
      [] lab[p] = "write" -> Use({"params"}, {"params"})
      [] lab[p] \in Lookups /\ found[p] = Unknown ->
             Use({"alias"}, IF AliasOf(Cmd(p)) \in DOMAIN mServerAlias THEN {} ELSE {"alias"})
      [] lab[p] \in Lookups /\ found[p] # Unknown ->
             Use({"params"}, IF lab[p] = "set" /\ (Cmd(p).op = "unset" \/ Cmd(p).value.kind = "shm")
                             THEN {"params"} ELSE ServerMiss({found[p]}))
      [] OTHER -> Use({}, {})

ServicerUse ==
    IF Parsing(Commands \cup Declares) /\ lab[Section] = "none" THEN LogonUse(Section)
    ELSE IF Parsing({"create"}) THEN WalkUse
    ELSE IF Parsing(Declares)
         THEN Use({}, {CASE Item.op = "server" -> "alias" [] Item.op = "client" -> "default" [] OTHER -> "type"})
    ELSE Use({}, {})

Clash(u, v) == u.writes \cap (v.reads \cup v.writes) # {} \/ v.writes \cap u.reads # {}

Race ==
    /\ spc # "crash"
    /\ \E p \in Proc : \/ Clash(LaborerUse(p), ServicerUse)
                       \/ \E q \in Proc \ {p} : Clash(LaborerUse(p), LaborerUse(q))
    /\ spc' = "crash"
    /\ UNCHANGED <<fvars, dvars, test, ip, mQuery, lvars, gvars, mServerMap>>

LaborerStep(p) ==
    \/ Pop(p) \/ FindServer(p) \/ ReadEnv(p) \/ addEnv(p) \/ rmEnv(p)
    \/ ServicePort(p) \/ FormRequest(p) \/ ReadParams(p) \/ PathIsGiven(p)
    \/ RunHere(p) \/ Submit(p) \/ SystemFails(p) \/ RsystemFails(p) \/ Rsystem(p)
    \/ Logon(p) \/ LogonFails(p) \/ Answered(p) \/ Lost(p)

Next ==
    \/ \E f \in Confs : EditFile(f)
    \/ \E t \in Tests : NewTest(t)
    \/ Load \/ StartLaborer \/ Declare \/ Push \/ Pwait \/ EndOfScript \/ Waited \/ Race
    \/ \E p \in Proc : LaborerStep(p)

Spec == Init /\ [][Next]_vars

-----------------------------------------------------------------------------
(***************************************************************************)
(* Properties.  They are stated against the file and the log of the        *)
(* changes, not against the map.                                           *)
(***************************************************************************)

(* What server.conf says: the last line for k in the last section of s.    *)
FileValue(s, k) ==
    LET opens  == {j \in DOMAIN loaded : loaded[j].server = s /\ \E m \in j + 1 .. Len(loaded) :
                      loaded[m].server = "" /\ \A n \in j + 1 .. m : loaded[n].server = ""}
        open   == CHOOSE j \in opens : \A m \in opens : m <= j
        lines  == {i \in open + 1 .. Len(loaded) : loaded[i].name = k
                      /\ \A m \in open + 1 .. i : loaded[m].server = ""}
    IN  IF opens = {} \/ lines = {} THEN Text("")
        ELSE loaded[CHOOSE i \in lines : \A m \in lines : m <= i].value

StartValue(s, k) ==
    LET default == IF k \in DOMAIN test.props THEN test.props[k]
                   ELSE IF k \in DOMAIN UserEnv THEN UserEnv[k] ELSE FileValue("DEFAULT", k)
    IN  IF s = "" THEN Text("")
        ELSE IF s = "DEFAULT" \/ FileValue(s, k) = Text("") THEN default ELSE FileValue(s, k)

(* The value of k at s after the first n changes: a reference to another   *)
(* parameter is the value this had when the SET_ENV read it.               *)
ValueAt(s, key, n) ==
    LET val[i \in 0 .. n, k \in Keys] ==
            IF i = 0 THEN StartValue(s, k)
            ELSE IF log[i].server # s \/ log[i].key # k THEN val[i - 1, k]
            ELSE IF log[i].op = "unset" THEN Text("")
            ELSE LET v == log[i].value
                     r == log[i].read
                 IN  CASE v.kind = "shm" -> getPort(val[r, "ALTIBASE_PORT_NO"])
                       [] v.kind = "atc" -> Value("case", v.s, 0)
                       [] v.kind = "ref" /\ v.s = "ALTIBASE_HOME" -> Home
                       [] v.kind = "ref" /\ v.s # "ALTIBASE_HOME" ->
                              IF val[r, v.s] = Text("") THEN v ELSE val[r, v.s]
                       [] OTHER -> v
    IN  val[n, key]

PlaceAt(s, n) == IF ValueAt(s, "HOST_IP", n) = Local THEN ThisHost
                 ELSE Place(ValueAt(s, "HOST_IP", n), ValueAt(s, "ATAF_PORT_NO", n))

(* What the script declares. *)
Greatest(S)    == CHOOSE i \in S : \A j \in S : j <= i
ClientLines(p) == {i \in DOMAIN test.script : test.script[i].op = "client" /\ test.script[i].by = p}
TypeLines(p)   == {i \in DOMAIN test.script : test.script[i].op = "type" /\ test.script[i].by = p}
ServerLines(a) == {i \in DOMAIN test.script : test.script[i].op = "server" /\ test.script[i].alias = a}

(* The server of an alias that is declared exactly once.                   *)
Declared(a)   == a # "DEFAULT" /\ Cardinality(ServerLines(a)) = 1
DeclaredAs(a) == test.script[Greatest(ServerLines(a))].name

(* The server of an alias whose declarations stand before a line.          *)
DeclaredBefore(a, line) == \A i \in ServerLines(a) : i < line
ServerOf(a) == IF ServerLines(a) # {} THEN test.script[Greatest(ServerLines(a))].name
               ELSE IF a = "DEFAULT" THEN "DEFAULT" ELSE ""

(* Everything that SYSTEM, RSYSTEM and shell commands look up, lookup by   *)
(* lookup, is what server.conf (as it was at the last BEGIN) and the       *)
(* user's environment say, changed by the SET_ENV and UNSET_ENV executed   *)
(* before this lookup for the same server: the port a SYSTEM names, the    *)
(* host its request is formed for, its environment, whether PATH is given, *)
(* and the host it is run on.  Nothing of other servers, nothing of        *)
(* earlier test cases.  The server is the one the script declares for the  *)
(* alias, if its declarations stand before the command; and a command runs *)
(* elsewhere than it was formed for only if the alias or the server's      *)
(* address was changed in between (Servicer::load, addEnv, rmEnv, server,  *)
(* getEnv4System, getEnv4Rsystem, replaceServicePort, Laborer::runSystem). *)
TrueLookup(p, what) ==
    LET l == seen[p][what]
        a == IF what = "port" THEN Cmd(p).name ELSE AliasOf(Cmd(p))
    IN  /\ DeclaredBefore(a, cur[p].line) => l.server = ServerOf(a)
        /\ CASE what = "env"  -> \A k \in Keys : Param(l.got, k) = Shown(k, ValueAt(l.server, k, l.at))
             [] what = "port" -> l.got # Text("${}") => l.got = getPort(ValueAt(l.server, "ALTIBASE_PORT_NO", l.at))
             [] OTHER         -> l.got = PlaceAt(l.server, l.at)

Moved(p) ==
    LET form  == seen[p]["form"]
        place == seen[p]["place"]
    IN  \/ ~DeclaredBefore(AliasOf(Cmd(p)), cur[p].line)
        \/ \E i \in form.at + 1 .. place.at : log[i].server = form.server /\ log[i].key \in {"HOST_IP", "ATAF_PORT_NO"}

EnvironmentIsLastSet ==
    \A p \in Proc : spc # "crash" =>
        /\ \A what \in DOMAIN seen[p] \ {"set", "agent"} : TrueLookup(p, what)
        /\ "place" \in DOMAIN seen[p] /\ seen[p]["place"].got # seen[p]["form"].got => Moved(p)

(* What is declared for p, if that is done before p's first command.       *)
FirstUse(p, i) == \A j \in 1 .. i : test.script[j].op \in Commands => test.script[j].by # p
DeclaredFirst(p) ==
    /\ \A i \in TypeLines(p) : FirstUse(p, i)
    /\ \A i \in ClientLines(p) : FirstUse(p, i) /\ \A j \in ServerLines(test.script[i].alias) : FirstUse(p, j)
DeclaredServer(p) ==
    IF p = P0 \/ ClientLines(p) = {} THEN "DEFAULT"
    ELSE ServerOf(test.script[Greatest(ClientLines(p))].alias)
DeclaredType(p) == IF TypeLines(p) = {} THEN "TCP" ELSE test.script[Greatest(TypeLines(p))].name

(* The session of a process is with the server and by the connection that  *)
(* the script declares for it, at the address and with the home this       *)
(* server had when the process logged on, also when it logged on again     *)
(* after a loss; and the replication port in a CREATE is one its server    *)
(* had between the parse and the execution (getLogonData, Laborer::logon,  *)
(* AltibaseHandler::logon, replace, getPort).                              *)
SessionWhereDeclared ==
    \A p \in Proc : spc # "crash" =>
        /\ LET d == sess[p]
           IN  d # NoSession /\ DeclaredFirst(p) =>
                  /\ d.server = DeclaredServer(p) /\ d.ISQL_CONNECTION = DeclaredType(p)
                  /\ d.host = ValueAt(d.server, "HOST_IP", d.at)
                  /\ d.home = ValueAt(d.server, "ALTIBASE_HOME", d.at)
                  /\ d.port = getPort(ValueAt(d.server, "ALTIBASE_PORT_NO", d.at))
        /\ LET m == made[p]
           IN  (m.at >= 0 /\ Declared(m.alias) /\ m.port # Text("${}")) =>
                   \E n \in m.parsed .. m.at :
                       m.port = getReplicationPort(ValueAt(DeclaredAs(m.alias), "ALTIBASE_REPLICATION_PORT_NO", n))
=============================================================================
