------------------------------- MODULE MCIsql -------------------------------
(***************************************************************************)
(* Three kinds of users of isql, each typing what interests one part:      *)
(* scripts and history, the session, host variables.                       *)
(***************************************************************************)
EXTENDS Isql

A == Cmd("ddl", "a")
B == Cmd("ddl", "b")

ScriptsOf(nl) ==
    [f1 |-> Script("f1", <<A, Cmd("script", "f2")>>, FALSE, nl),
     f2 |-> Script("f2", <<Cmd("load", "g"), B>>, FALSE, TRUE),
     g  |-> Script("g", <<B>>, FALSE, nl),
     g0 |-> Script("g0", <<>>, FALSE, TRUE),
     gt |-> Script("gt", <<Cmd("syntax", "")>>, TRUE, TRUE),
     infile |-> Script("infile", <<A, Cmd("script", "f1"), B>>, FALSE, TRUE),
     glogin |-> Script("glogin", <<Cmd("script", "g")>>, FALSE, TRUE),
     login  |-> Script("login", <<Cmd("plancommit", "on"), CmdN("hisedit", 1)>>, FALSE, nl)]

Only(f, names) == [x \in names |-> f[x]]

Opt(profile, inFile, home, sysdba, scripts) ==
    [profile |-> profile, inFile |-> inFile, home |-> home, sysdba |-> sysdba,
     sameUser |-> TRUE, scripts |-> scripts]

Good == ScriptsOf(TRUE)
Bad  == ScriptsOf(FALSE)
NoLogin == {"f1", "f2", "g", "g0", "gt", "infile"}

(* What login.sql does for the users of the last two profiles.             *)
LoginScript(cmds) == [login |-> Script("login", cmds, FALSE, TRUE)]
SessionLogins == {<<>>, <<Cmd("foreignkeys", "on")>>,
                  <<Cmd("autocommit", "off"), Cmd("explain", "on")>>,
                  <<Cmd("plancommit", "on"), Cmd("explain", "only"), Cmd("autocommit", "off")>>}
VariableLogin == <<[kind |-> "declare", arg |-> "V", n |-> 2], [kind |-> "declare", arg |-> "W", n |-> 1]>>

OptionsMC ==
    {Opt("input", i, TRUE, FALSE, s) : i \in BOOLEAN, s \in {Good, Bad, Only(Good, NoLogin)}}
    \cup {Opt("input", FALSE, TRUE, FALSE, [Good EXCEPT !.glogin.rest = <<A>>]),
          Opt("input", FALSE, FALSE, FALSE, Only(Good, NoLogin \cup {"login"})),
          Opt("input", TRUE, TRUE, FALSE, [x \in {} |-> Good["g"]])}
    \cup {Opt("session", FALSE, TRUE, FALSE, LoginScript(l)) : l \in SessionLogins}
    \cup {Opt("session", FALSE, TRUE, TRUE, LoginScript(<<>>))}
    \cup {[Opt("session", FALSE, TRUE, d, LoginScript(<<>>)) EXCEPT !.sameUser = FALSE] : d \in BOOLEAN}
    \cup {Opt("variables", FALSE, TRUE, FALSE, LoginScript(VariableLogin))}

TypedMC ==
    [input |-> {A, B, Cmd("script", "f1"), Cmd("load", "g"), Cmd("load", "g0"), Cmd("load", "gt"),
                Cmd("save", "g"), CmdN("edit", 0), CmdN("hisrun", 0), CmdN("hisrun", 2),
                CmdN("hisedit", 1), Cmd("history", ""), Cmd("syntax", ""), Cmd("connect", "user"),
                Cmd("spool", "log"), Cmd("spooloff", ""), Cmd("exit", "")},
     session |-> {Cmd("commit", ""), Cmd("dml", ""), Cmd("select", ""), Cmd("explain", "on"),
                  Cmd("explain", "off"), Cmd("other", ""), Cmd("autocommit", "on"),
                  Cmd("autocommit", "off"), Cmd("tables", ""), Cmd("xtables", ""),
                  Cmd("sequence", ""), Cmd("desc", ""), Cmd("desc$", ""), Cmd("startup", ""),
                  Cmd("shutdown", "abort"), Cmd("shutdown", "normal"), Cmd("plancommit", "on"),
                  Cmd("foreignkeys", "on"), Cmd("connect", "user"), Cmd("connect", "dba"),
                  Cmd("disconnect", "")},
     variables |-> {[kind |-> "declare", arg |-> "V", n |-> 1], [kind |-> "declare", arg |-> "V", n |-> 2],
                    [kind |-> "declare", arg |-> "W", n |-> 1], Cmd("print", ""),
                    Cmd("exec", "p"), Cmd("exec", "q"), Cmd("exec", "f"), Cmd("exec", "none"),
                    Cmd("prepare", "p"), Cmd("prepselect", "q"), Cmd("tables", "")}
                   \cup {Cmd("assign", l) : l \in Literals}]

MaxTypedMC == [input |-> 4, session |-> 3, variables |-> 3]

(* p(:V OUT, :W IN), q(:V IN), q and f have parameters after the last host *)
(* variable.                                                               *)
ProcMC == [p    |-> [isFunc |-> FALSE, names |-> <<"V", "W">>, more |-> FALSE, outs |-> {<<"out">>}],
           q    |-> [isFunc |-> FALSE, names |-> <<"V">>, more |-> TRUE, outs |-> {<<>>}],
           f    |-> [isFunc |-> TRUE, names |-> <<"W", "V">>, more |-> FALSE, outs |-> {<<"out">>}],
           none |-> [isFunc |-> FALSE, names |-> <<>>, more |-> FALSE, outs |-> {<<>>}]]

TextsMC == {"", "a", "b", "on", "off", "only", "abort", "normal", "user", "dba", "log", "login", "glogin",
            "f1", "f2", "g", "g0", "gt", "infile", "iSQL.buf", "V", "W", "p", "q", "f", "none"} \cup Literals

EditsMC == {Script("iSQL.buf", <<>>, FALSE, TRUE), Script("iSQL.buf", <<B, A>>, FALSE, TRUE)}
=============================================================================
