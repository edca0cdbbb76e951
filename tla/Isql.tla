-------------------------------- MODULE Isql --------------------------------
(***************************************************************************)
(* isql, the program that runs the statements of the tests (psql/src): its *)
(* main loop reads a command from a script or from the user, parses it and *)
(* carries it out.  It composes the input (IsqlInput), the session         *)
(* (IsqlSession) and the host variables (IsqlHostVars).                    *)
(*                                                                         *)
(* A command is [kind, arg, n].  The parser itself declares and assigns    *)
(* host variables and notes the explain mode, so this happens to every     *)
(* command that is read, also to one that LOAD or EDIT only puts into the  *)
(* history.                                                                *)
(***************************************************************************)
EXTENDS IsqlInput, IsqlSession, IsqlHostVars

CONSTANTS Options,     \* the command lines and surroundings, see below
          Typed,       \* what the user of a profile may type
          MaxTyped,    \* how many commands such a user types (bound)
          Proc,        \* the procedures, [isFunc, names, more, outs]
          Edits,       \* what an editor may make of iSQL.buf
          HostVar,     \* the variable that "assign" commands assign
          Texts        \* what names and arguments may be

(* What the parser makes of a command; the first are for the server.       *)
ServerKinds == {"ddl", "commit", "rollback", "dml", "select", "explain", "other", "autocommit", "tables",
                "xtables", "sequence", "desc", "desc$", "startup", "shutdown"}
Kinds == ServerKinds \cup
    {"prepare", "prepselect", "exec", "plancommit", "foreignkeys", "connect", "disconnect", "script",
     "edit", "hisedit", "hisrun", "load", "save", "history", "spool", "spooloff", "help", "shell",
     "declare", "assign", "print", "exit", "syntax"}

Command == {c \in [kind : Kinds, arg : Texts, n : Nat] :
               /\ c.kind = "explain" => c.arg \in Plans
               /\ c.kind \in {"prepare", "prepselect", "exec"} => c.arg \in DOMAIN Proc}
File    == [name : {Stdin} \cup Texts, rest : Seq(Command), tail : BOOLEAN, nl : BOOLEAN]

ASSUME ProcAssumption == \A p \in DOMAIN Proc : Proc[p].names \in Seq(Texts)
ASSUME TextsAssumption == {"", "login", "iSQL.buf"} \subseteq Texts /\ Stdin # "iSQL.buf"

(* Standard input is no script.                                            *)
ASSUME OptionsAssumption ==
    \A o \in Options :
        /\ {o.inFile, o.home, o.sysdba, o.sameUser} \subseteq BOOLEAN
        /\ \A f \in DOMAIN o.scripts : o.scripts[f] \in File /\ o.scripts[f].name # Stdin
        /\ Typed[o.profile] \subseteq Command
ASSUME EditsAssumption ==
    \A e \in Edits : e \in File /\ e.name # Stdin

(* opt: inFile (-f), home (ALTIBASE_HOME is set), sysdba (-sysdba),        *)
(* sameUser (isql belongs to its user), scripts (the files that can be     *)
(* opened, by name), profile.                                              *)
VARIABLES opt, in, his, ses, hv, spool, pc, typed,
          added    \* ghost: what the history was given, repetitions left out

vars == <<opt, in, his, ses, hv, spool, pc, typed, added>>

Cmd(kind, arg) == [kind |-> kind, arg |-> arg, n |-> 0]
CmdN(kind, n)  == [kind |-> kind, arg |-> "", n |-> n]

NewSession(o) == [conn |-> FALSE, admin |-> FALSE, user |-> "login", sysdba |-> o.sysdba,
                  auto |-> TRUE, tx |-> FALSE, plan |-> "off", kind |-> "off",
                  planCommit |-> FALSE, foreignKeys |-> FALSE, cursors |-> {},
                  server |-> "up", fault |-> FALSE]

Init ==
    /\ opt \in Options
    /\ in = NewInput /\ his = NewHistory /\ added = <<>>
    /\ ses = NewSession(opt) /\ hv = NewVars
    /\ spool = "off" /\ pc = "start" /\ typed = 0

(***************************************************************************)
(* main up to the loop.  -f needs its script; the login scripts are pushed *)
(* over it, glogin.sql on top.                                             *)
(***************************************************************************)
FirstInput == IF opt.inFile
              THEN SetScriptFile([in EXCEPT !.fileRead = TRUE], opt.scripts["infile"])
              ELSE RegStdin(in)

Start ==
    /\ pc = "start"
    /\ LET refused == (opt.sysdba /\ ~opt.sameUser) \/ (opt.inFile /\ "infile" \notin DOMAIN opt.scripts)
       IN  \E o \in Connect(ses, opt.sysdba) :
               /\ ses' = IF refused THEN ses ELSE o.s
               /\ pc'  = IF refused \/ ~o.ok THEN "exit" ELSE "run"
               /\ in'  = IF refused \/ ~o.ok THEN in
                         ELSE ExecuteLoginScripts(FirstInput, opt.scripts, opt.home)
    /\ UNCHANGED <<opt, his, hv, spool, typed, added>>

(***************************************************************************)
(* What the parser does.                                                   *)
(***************************************************************************)
ParsedVars(h, c) == CASE c.kind = "declare" -> add(h, c.arg, Types[c.n])
                      [] c.kind = "assign"  -> setValue(h, HostVar, c.arg)
                      [] OTHER -> h

ParsedSession(s, c) == IF c.kind = "explain" THEN [s EXCEPT !.kind = c.arg] ELSE s

(***************************************************************************)
(* The commands that change where the next one comes from.  in1, h and s   *)
(* are the input, the variables and the session after the parse.           *)
(***************************************************************************)
NotInScript == {"hisrun", "save", "load", "history", "edit"}
NotSaved    == {"hisrun", "help", "edit", "hisedit", "shell", "history"}

Push(in1, name) == IF name \in DOMAIN opt.scripts
                   THEN SetScriptFile(in1, opt.scripts[name]) ELSE in1

Keep(h, s) == hv' = h /\ ses' = s /\ UNCHANGED <<spool, pc>>

ScriptRun(in1, h, s, c) ==
    /\ c.kind = "script"
    /\ in' = Push(in1, c.arg) /\ Keep(h, s)

(* EDIT and HISEDIT save a command of the history to iSQL.buf and read     *)
(* back what the editor left there.                                        *)
ExecuteEditStmt(cmd) == Edits \cup {Script("iSQL.buf", <<cmd>>, FALSE, TRUE)}

EditRun(in1, h, s, c) ==
    /\ c.kind \in {"edit", "hisedit"}
    /\ IF HasCommand(his, c.n)
       THEN \E e \in ExecuteEditStmt(GetCommand(his, c.n)) :
                in' = [SetScriptFile(in1, e) EXCEPT !.inEdit = TRUE]
       ELSE in' = in1
    /\ Keep(h, s)

Spool(in1, h, s, c) ==
    /\ c.kind \in {"spool", "spooloff"}
    /\ spool' \in (IF c.kind = "spooloff" THEN {"off"} ELSE {spool, IF spool = "off" THEN c.arg ELSE spool})
    /\ in' = in1 /\ hv' = h /\ ses' = s /\ UNCHANGED pc

Exit(in1, h, s, c) ==
    /\ c.kind = "exit"
    /\ pc' = "exit" /\ ses' = disconnectCommand(s)
    /\ in' = in1 /\ hv' = h /\ UNCHANGED spool

Other(in1, h, s, c) ==
    /\ c.kind \in {"help", "shell", "history", "declare", "assign", "print", "save", "load", "hisrun"}
    /\ in' = in1 /\ Keep(h, s)

(***************************************************************************)
(* The commands for the server.                                            *)
(***************************************************************************)
SysdbaOnly(s, S) == IF s.sysdba THEN S ELSE {Fail(s)}

Outcomes(s, c) ==
    CASE c.kind \in {"ddl", "commit", "rollback"} -> ExecuteDDLStmt(s, c.kind)
      [] c.kind = "dml"        -> ExecuteDMLStmt(s)
      [] c.kind = "select"     -> ExecuteSelectStmt(s)
      [] c.kind \in {"explain", "other"} -> ExecuteOtherCommandStmt(s, c.kind = "explain")
      [] c.kind = "autocommit" -> AutoCommit(s, c.arg = "on")
      [] c.kind = "tables"     -> DisplayTableList(s)
      [] c.kind = "xtables"    -> DisplayFixedTableList(s)
      [] c.kind = "sequence"   -> DisplaySequenceList(s)
      [] c.kind = "desc"       -> DisplayAttributeList(s)
      [] c.kind = "desc$"      -> DisplayAttributeList4FTnPV(s)
      [] c.kind = "startup"    -> SysdbaOnly(s, Startup(s))
      [] c.kind = "shutdown"   -> SysdbaOnly(s, Shutdown(s, c.arg = "abort"))

Statement(in1, h, s, c) ==
    /\ c.kind \in ServerKinds
    /\ \E o \in Outcomes(s, c) : ses' = o.s
    /\ in' = in1 /\ hv' = h /\ UNCHANGED <<spool, pc>>

Prepared(in1, h, s, c) ==
    /\ c.kind \in {"prepare", "prepselect"}
    /\ LET l == ParsingPrepareSQL(h, Proc[c.arg].names)
       IN  /\ hv' = l.hv
           /\ \E o \in (IF ~l.ok THEN {Fail(s)}
                        ELSE IF c.kind = "prepare" THEN PrepareDMLStmt(s) ELSE PrepareSelectStmt(s)) :
                  ses' = o.s
    /\ in' = in1 /\ UNCHANGED <<spool, pc>>

(* The write to a server that is gone may raise SIGPIPE, or the driver may *)
(* report 08S01: either way isql closes the session and exits.             *)
SignalPipe(in1, h, s, c) ==
    /\ c.kind \in (ServerKinds \ {"shutdown"}) \cup {"prepare", "prepselect", "exec"}
    /\ s.conn /\ s.server = "down"
    /\ pc' = "exit" /\ spool' = "off" /\ ses' = DisconnectDB(s)
    /\ in' = in1 /\ hv' = h

SetOption(in1, h, s, c) ==
    /\ c.kind \in {"plancommit", "foreignkeys"}
    /\ ses' = IF c.kind = "plancommit" THEN [s EXCEPT !.planCommit = (c.arg = "on")]
              ELSE [s EXCEPT !.foreignKeys = (c.arg = "on")]
    /\ in' = in1 /\ hv' = h /\ UNCHANGED <<spool, pc>>

(* A new session of an ordinary user runs the login scripts again.         *)
ConnectRun(in1, h, s, c) ==
    /\ c.kind = "connect"
    /\ \E o \in connectCommand(s, c.arg, c.arg = "dba", opt.sameUser) :
           /\ ses' = o.s
           /\ in' = IF o.ok /\ c.arg # "dba"
                    THEN ExecuteLoginScripts(in1, opt.scripts, opt.home) ELSE in1
    /\ hv' = h /\ UNCHANGED <<spool, pc>>

DisconnectRun(in1, h, s, c) ==
    /\ c.kind = "disconnect"
    /\ ses' = disconnectCommand(s)
    /\ in' = in1 /\ hv' = h /\ UNCHANGED <<spool, pc>>

Exec(in1, h, s, c) ==
    /\ c.kind = "exec"
    /\ LET p == Proc[c.arg]
           l == ParsingExecProc(h, p.names)
       IN  IF ~l.ok THEN hv' = l.hv /\ ses' = s
           ELSE \E o \in ExecutePSMStmt(s, p.isFunc, p.names # <<>>, p.more) :
                    /\ ses' = o.s
                    /\ IF o.ok /\ p.names # <<>>
                       THEN \E outs \in p.outs : hv' = setHostVar(l.hv, outs)
                       ELSE hv' = l.hv
    /\ in' = in1 /\ UNCHANGED <<spool, pc>>

(***************************************************************************)
(* One turn of the loop with a command read.                               *)
(***************************************************************************)
Added(c) == /\ his' = AddCommand(his, c)
            /\ added' = IF added # <<>> /\ added[Len(added)] = c THEN added ELSE Append(added, c)

Dispatch(in1, h, s, c) ==
    /\ IF in1.fileRead \/ c.kind \in NotSaved THEN UNCHANGED <<his, added>> ELSE Added(c)
    /\ \/ ScriptRun(in1, h, s, c) \/ EditRun(in1, h, s, c) \/ Spool(in1, h, s, c)
       \/ Exit(in1, h, s, c) \/ Other(in1, h, s, c) \/ Statement(in1, h, s, c)
       \/ Prepared(in1, h, s, c) \/ SignalPipe(in1, h, s, c) \/ SetOption(in1, h, s, c) \/ ConnectRun(in1, h, s, c)
       \/ DisconnectRun(in1, h, s, c) \/ Exec(in1, h, s, c)

(* The command a LOAD or an EDIT was for: kept, not carried out.           *)
Taken(in1, h, s, c) ==
    /\ Added(c)
    /\ in' = ResetInput(IF in1.inLoad THEN [in1 EXCEPT !.inLoad = FALSE]
                        ELSE [in1 EXCEPT !.inEdit = FALSE], opt.inFile)
    /\ Keep(h, s)

Skipped(in1, h, s) == in' = in1 /\ Keep(h, s) /\ UNCHANGED <<his, added>>

(* HISRUN parses the old command again and goes on with it.                *)
Rerun(in1, h, s, c) ==
    LET old == GetCommand(his, c.n)
    IN  IF HasCommand(his, c.n)
        THEN Dispatch(in1, ParsedVars(h, old), ParsedSession(s, old), old)
        ELSE Skipped(in1, h, s)

LoadRun(in1, h, s, c) ==
    /\ in' = IF c.arg \in DOMAIN opt.scripts THEN [Push(in1, c.arg) EXCEPT !.inLoad = TRUE] ELSE in1
    /\ Keep(h, s) /\ UNCHANGED <<his, added>>

Turn(in1, c) ==
    LET h == ParsedVars(hv, c)
        s == [ParsedSession(ses, c) EXCEPT !.fault = FALSE]
    IN  CASE c.kind = "syntax" -> Skipped(in1, h, s)
          [] c.kind # "syntax" /\ (in1.inLoad \/ in1.inEdit) -> Taken(in1, h, s, c)
          [] OTHER ->
             \/ c.kind \in NotInScript /\ in1.fileRead /\ Skipped(in1, h, s)
             \/ c.kind = "hisrun" /\ ~in1.fileRead /\ Rerun(in1, h, s, c)
             \/ c.kind = "save" /\ ~in1.fileRead /\ Skipped(in1, h, s)
             \/ c.kind = "load" /\ ~in1.fileRead /\ LoadRun(in1, h, s, c)
             \/ /\ c.kind \notin {"hisrun", "save", "load"}
                /\ ~(c.kind \in NotInScript /\ in1.fileRead)
                /\ Dispatch(in1, h, s, c)

(***************************************************************************)
(* The lexer's part of the loop.                                           *)
(***************************************************************************)
ReadScript ==
    /\ pc = "run" /\ in.list # <<>> /\ ~in.eof /\ Top(in).rest # <<>>
    /\ Turn(ReadCommand(in), Head(Top(in).rest))
    /\ UNCHANGED <<opt, typed>>

Type(c) ==
    /\ pc = "run" /\ AtStdin(in) /\ ~in.eof
    /\ typed < MaxTyped[opt.profile] /\ typed' = typed + 1
    /\ Turn(in, c)
    /\ UNCHANGED opt

ReadEndOfFile ==
    /\ pc = "run" /\ Exhausted(in)
    /\ in' = ReadEnd(in)
    /\ UNCHANGED <<opt, his, ses, hv, spool, pc, typed, added>>

NextFile ==
    /\ pc = "run" /\ in.list # <<>> /\ in.eof
    /\ in' = AfterEnd(in, opt.inFile)
    /\ pc' = IF in'.list = <<>> /\ ~AbortsLoad(in) THEN "exit" ELSE pc
    /\ UNCHANGED <<opt, his, ses, hv, spool, typed, added>>

(* Nothing left to read from, and isql reads: it dies of a null pointer.   *)
Crash ==
    /\ pc = "run" /\ in.list = <<>>
    /\ pc' = "crash"
    /\ UNCHANGED <<opt, in, his, ses, hv, spool, typed, added>>

ServerDown ==
    /\ pc = "run" /\ ses.server = "up" /\ opt.profile = "session"
    /\ ses' = [ses EXCEPT !.server = "down", !.fault = FALSE]
    /\ UNCHANGED <<opt, in, his, hv, spool, pc, typed, added>>

Next == \/ Start \/ ReadScript \/ ReadEndOfFile \/ NextFile \/ Crash \/ ServerDown
        \/ \E c \in Typed[opt.profile] : Type(c)

Spec == Init /\ [][Next]_vars

-----------------------------------------------------------------------------
(***************************************************************************)
(* Properties.                                                             *)
(***************************************************************************)

(* isql is in script mode, where LOAD, SAVE, EDIT and HISRUN are refused   *)
(* and nothing enters the history, exactly while a script lies above the   *)
(* user's input (IsFileRead, iSQLMain.cpp:527 and 585), or under -f.       *)
ScriptModeTracksStack ==
    pc = "run" /\ in.list # <<>> => (in.fileRead <=> opt.inFile \/ Len(in.list) > 1)

(* The ring of the history holds the last commands it was given, in the    *)
(* order of HISRUN's numbers, also after it wrapped (AddCommand).          *)
HistoryKeepsLast ==
    LET k == IF Len(added) < Slots - 1 THEN Len(added) ELSE Slots - 1
        at(j) == ((Len(added) - j) % (Slots - 1)) + 1
    IN  \A j \in 1 .. k : his.queue[at(j)] = added[Len(added) + 1 - j]

(* Outside a command neither the statement of the direct commands nor the  *)
(* prepared one has an open cursor, on whichever path the command ended    *)
(* (StmtClose at the end of every Execute... function): the next command   *)
(* does not fail for the one before.                                       *)
StatementsClosed == {"m_IStmt", "m_TmpStmt3"} \cap ses.cursors = {}

(* STARTUP and SHUTDOWN ask gProgOption.IsSysdba(): on a connected session *)
(* it says what the server was asked for, after any sequence of CONNECT,   *)
(* DISCONNECT and SHUTDOWN, failed ones included.                          *)
SysdbaMatchesSession == pc = "run" /\ ses.conn => (ses.sysdba <=> ses.admin)

(* A list of tables, sequences or columns gives the explain mode back that *)
(* it turned off, also when its query failed, in a transaction too if      *)
(* PLANCOMMIT is on: what the server explains is what the user asked for   *)
(* (BUG-9714, PlanRestore).                                                *)
InStep(s) == s.conn /\ s.server = "up" /\ s.plan = s.kind
Lists == {"tables", "xtables", "sequence", "desc", "desc$"}
PlanRestored ==
    [][/\ typed' # typed /\ added' # <<>> /\ added'[Len(added')].kind \in Lists
       /\ InStep(ses) /\ (ses.planCommit \/ ses.auto) /\ ses'.conn /\ ~ses'.fault
       => InStep(ses')]_ses

(* An EXEC changes variables only when it found all the names it binds,    *)
(* only those, and of these an assigned one keeps its value unless the     *)
(* procedure returns it (ParsingExecProc, putBindList, setHostVar).        *)
ExecWritesBound ==
    [][typed' # typed /\ added' # <<>> /\ added'[Len(added')].kind = "exec" =>
        LET p       == Proc[added'[Len(added')].arg]
            bound   == ToSet(p.names)
            written == {p.names[i] : i \in UNION {DOMAIN outs : outs \in p.outs}}
        IN  \A n \in Declared(hv) :
                /\ hv'.vars[n] # hv.vars[n] => n \in bound /\ bound \subseteq Declared(hv)
                /\ n \notin written /\ hv.vars[n].assigned => hv'.vars[n] = hv.vars[n]]_hv

-----------------------------------------------------------------------------
(* Types of the state, for the proofs. *)
Input   == [list : Seq(File), eof : BOOLEAN, fileRead : BOOLEAN, text : BOOLEAN,
            inLoad : BOOLEAN, inEdit : BOOLEAN, glogin : BOOLEAN, login : BOOLEAN]
History == [queue : [1 .. Slots - 1 -> {NoCommand} \cup Command], cur : {-1} \cup 1 .. Slots - 1, max : Nat]
Session == [conn : BOOLEAN, admin : BOOLEAN, user : Texts, sysdba : BOOLEAN, auto : BOOLEAN,
            tx : BOOLEAN, plan : Plans, kind : Plans, planCommit : BOOLEAN,
            foreignKeys : BOOLEAN, cursors : SUBSET Handles, server : {"up", "down"}, fault : BOOLEAN]
=============================================================================
