---------------------------- MODULE MCArtRecovery ----------------------------
(***************************************************************************)
(* Instances of ArtRecovery for TLC: two processes, two kills.             *)
(***************************************************************************)
EXTENDS ArtRecovery

MCProc == {0, 1}
MCP0   == 0

Case(kind, first, second, ndebug) ==
    [kind |-> kind, ndebug |-> ndebug,
     script |-> [p \in MCProc |-> IF p = 0 THEN first ELSE second]]

(* Two statements each; P0 enables the recovery points again in between. *)
Statements(kind, ndebug) == Case(kind, <<"sql", "recpt", "sql">>, <<"sql", "sql">>, ndebug)

(* P1 restarts the server, as scripts with SYSTEM commands do. *)
Restarting(kind, ndebug) ==
    Case(kind, <<"sql", "recpt", "sql">>, <<"sql", "system", "sql">>, ndebug)

FullTest == {Statements("full", FALSE)}
AllTests == UNION {{Statements("full", ndebug), Restarting("sequential", ndebug),
                    Restarting("regressive", ndebug)} : ndebug \in BOOLEAN}
==============================================================================
