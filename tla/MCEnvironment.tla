---------------------------- MODULE MCEnvironment ----------------------------
(***************************************************************************)
(* Two processes, a server.conf with DEFAULT and two servers, and short    *)
(* test cases, two of which are run after one another.                     *)
(***************************************************************************)
EXTENDS Environment

Open(s)       == Line(s, "", Text(""))
Has(k, v)     == Line("", k, v)

ConfOf(port) ==
    <<Has("KEY", Text("before any server")),
      Open("DEFAULT"), Has("HOST_IP", Local), Has("ALTIBASE_PORT_NO", PortNo(0)), Has("KEY", Text("default")),
      Open("SERVER1"), Has("ALTIBASE_PORT_NO", port), Has("ALTIBASE_HOME", InAtc("db1")),
      Has("ALTIBASE_REPLICATION_PORT_NO", ReplNo(1)),
      Open("SERVER2"), Has("HOST_IP", Text("10.0.0.2")), Has("ATAF_PORT_NO", Text("6500")), Has("KEY", Text(""))>>

MCConfs == {ConfOf(PortNo(1)),
            ConfOf(PortNo(7)) \o <<Open("SERVER1"), Has("KEY", Text("once more")), Open("EMPTY")>>}

Do(op, by, alias, name, value) == [op |-> op, by |-> by, alias |-> alias, name |-> name, value |-> value]
None == Text("")
DeclServer(s, a)   == Do("server", "P0", a, s, None)
DeclClient(p, a)   == Do("client", p, a, "", None)
DeclType(p, t)     == Do("type", p, "", t, None)
Sql(p)             == Do("sql", p, "", "", None)
Sys(p, a)          == Do("system", p, a, "", None)
SysPort(p, a, b)   == Do("system", p, a, b, None)
Set(p, a, k, v)    == Do("set", p, a, k, v)
Unset(p, a, k)     == Do("unset", p, a, k, None)
Create(p, a)       == Do("create", p, a, "", None)
Rsys(p, id, a)     == Do("rsystem", p, a, id, None)
Pw                 == Do("pwait", "P0", "", "", None)

TestCase(begin, props, script) == [vars |-> EnvVars, begin |-> begin, props |-> props, script |-> script]

Agent(id, at) == [id |-> id, at |-> Text(at)]
MCAgentConf == <<Agent("A1", "10.0.0.8"), Agent("", "comment"), Agent("A1", "10.0.0.9")>>

MCTests ==
    {[vars |-> EnvVars \ {"LANG"}, begin |-> TRUE, props |-> <<>>, script |-> <<>>],
     (* The declared pair: the port changes between logon and logon again. *)
     TestCase(FALSE, <<>>,
        <<DeclServer("SERVER1", "DB1"), DeclClient("C1", "DB1"), Sql("C1"), Set("C1", "DB1", "ALTIBASE_PORT_NO", PortNo(4)),
          Sql("C1"), SysPort("P0", "", "DB1"), Pw, Sys("C1", "DB1")>>),
     (* Everything SET_ENV replaces, also for an alias that is nowhere.    *)
     TestCase(TRUE, [k \in {"KEY"} |-> Text("property")],
        <<DeclServer("SERVER2", "DB2"), Set("P0", "DB2", "KEY", Ref("ATAF_PORT_NO")), Set("P0", "DB2", "PATH", Ref("KEY")),
          Rsys("P0", "A1", "DB2"), Unset("P0", "DB2", "KEY"), Sys("P0", "DB2"), Set("C1", "NONE", "KEY", Text("lost")),
          Sys("C1", "NONE")>>),
     (* An alias of DEFAULT, the key of the shared memory, homes.          *)
     TestCase(FALSE, <<>>,
        <<DeclServer("DEFAULT", "DB1"), Set("P0", "DB1", "KEY", ShmKey), Set("P0", "", "ALTIBASE_HOME", InAtc("db9")),
          Do("shell", "P0", "", "", None), Pw, Set("P0", "DB1", "PATH", Ref("ALTIBASE_HOME")), DeclServer("SERVER2", "DEFAULT"), Sys("P0", ""),
          Sql("P0")>>),
     (* The addresses of a CREATE, and a type of connection; the client is *)
     (* declared for an alias that is declared later.                      *)
     TestCase(TRUE, <<>>,
        <<DeclType("C1", "UNIX"), DeclClient("C1", "DB1"), Set("P0", "DB1", "KEY", Text("too early")),
          DeclServer("SERVER1", "DB1"), Set("P0", "DB1", "ALTIBASE_REPLICATION_PORT_NO", ReplNo(3)),
          Create("C1", "DB1"), Rsys("P0", "A9", "DB1"), Create("P0", "DB2")>>),
     (* The host of a server changes while a command is made for it.       *)
     TestCase(FALSE, <<>>,
        <<DeclServer("SERVER2", "DB2"), SysPort("C1", "DB2", "DB2"), Set("P0", "DB2", "HOST_IP", Local),
          Set("C1", "DB2", "KEY", Ref("HOST_IP")), Set("P0", "DB2", "HOST_IP", Text("10.0.0.3"))>>),
     (* A client is declared when it already works.                        *)
     TestCase(FALSE, <<>>,
        <<Sys("C1", "DEFAULT"), Sql("C1"), DeclServer("SERVER1", "DB1"), DeclClient("C1", "DB1"), Pw, Sql("C1")>>)}
=============================================================================
