----------------------------- MODULE MCServicer -----------------------------
(***************************************************************************)
(* Instances of Servicer for TLC: short scripts that use every operation.  *)
(***************************************************************************)
EXTENDS Servicer

Node(p)      == [op |-> "node", proc |-> p, kind |-> "text"]
Cmd(p, k)    == [op |-> "cmd", proc |-> p, kind |-> k]
IgnoreItem   == [op |-> "ignore", proc |-> P0, kind |-> "text"]
PwaitAll     == [op |-> "pwait_all", proc |-> P0, kind |-> "text"]
PwaitTime    == [op |-> "pwait_time", proc |-> P0, kind |-> "text"]
PwaitProc(p) == [op |-> "pwait_proc", proc |-> p, kind |-> "text"]

(* Three processes, a barrier for one of them and a barrier for all. *)
Barriers ==
    <<Node(0), Cmd(0, "text"), Node(1), Cmd(1, "sql"), Cmd(1, "text"), Node(2),
      Cmd(2, "sql"), PwaitProc(1), Node(0), Cmd(0, "sql"), Node(1), Cmd(1, "sql"),
      PwaitAll, Node(0), Node(2), Cmd(2, "text")>>

(* SKIP and RESTART around statements, a timed barrier. *)
Modes ==
    <<Node(0), Cmd(0, "sql"), Node(1), Cmd(1, "skip_begin"), Cmd(1, "sql"),
      Cmd(1, "skip_end"), PwaitTime, Node(0), Cmd(0, "restart_off"), Cmd(0, "sql"),
      Cmd(0, "restart_on"), Cmd(0, "sql"), Node(1), Cmd(1, "sql")>>

(* An ignored case. *)
IgnoredCase == <<Node(0), IgnoreItem, Cmd(0, "sql"), Node(1), Cmd(1, "sql")>>

(* A barrier for a process that has no laborer, and the end right after a *)
(* barrier.                                                               *)
NoSuchProcess == <<Node(0), Cmd(0, "sql"), PwaitProc(1), Node(0), PwaitAll, Node(0)>>

ScriptsBarriers == {Barriers}
ScriptsAll      == {Modes, IgnoredCase, NoSuchProcess}
ScriptsMC       == ScriptsAll \cup ScriptsBarriers
Procs3          == {0, 1, 2}
=============================================================================
