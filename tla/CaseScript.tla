----------------------------- MODULE CaseScript -----------------------------
(***************************************************************************)
(* A test script as Servicer::runParseTable walks it (the node list psy.y  *)
(* builds, ats2/serviceThread.cpp): a sequence of items, and the commands  *)
(* they turn into.  No state; the run of a script is in Servicer.          *)
(***************************************************************************)
EXTENDS Integers, Sequences

CONSTANTS Proc,     \* the process names, ordered as std::map orders them
          P0,       \* the process every script starts with
          Scripts   \* the scripts a run may be given

(* "text" stands for every command the laborer serves without a session:   *)
(* strings, prints, SYSTEM, POST, WAIT and so on.                          *)
Kinds == {"text", "skip_begin", "skip_end", "restart_on", "restart_off", "sql"}

(* A command carries its place in the script, which tells it from the rest. *)
Command == [id : Nat, kind : Kinds]

(* What a command leaves in the output of its process. *)
Outputs == {"ok", "echo", "lost", "refused", "dead"}
Entry   == [cmd : Command, out : Outputs]

(* A "node" opens a PROCESS section, a "cmd" is an element of the section  *)
(* of its process, "ignore" is the IGNORE element; proc matters to         *)
(* pwait_proc and is P0 in the other kinds of PWAIT and in IGNORE.         *)
Ops  == {"node", "cmd", "ignore", "pwait_all", "pwait_time", "pwait_proc"}
Item == [op : Ops, proc : Proc, kind : Kinds]

-----------------------------------------------------------------------------
IsPwait(s, i)   == s[i].op \in {"pwait_all", "pwait_time", "pwait_proc"}
IsCommand(s, i) == s[i].op = "cmd" \/ IsPwait(s, i)

(* runReal puts a node of P0 in front of what the parser appends; the       *)
(* parser puts elements only in the section it has opened, and opens a     *)
(* section of P0 after each PWAIT.                                         *)
OpensP0(s, i) == i \in DOMAIN s /\ s[i].op = "node" /\ s[i].proc = P0

WellFormed(s) ==
    /\ s \in Seq(Item)
    /\ OpensP0(s, 1)
    /\ \A i \in DOMAIN s : IsPwait(s, i) => OpensP0(s, i + 1)
    /\ \A i \in DOMAIN s : s[i].op = "cmd" =>
          \E j \in 1..i : s[j].op = "node" /\ s[j].proc = s[i].proc

ASSUME ProcAssumption    == Proc \subseteq Nat
ASSUME P0Assumption      == P0 \in Proc
ASSUME ScriptsAssumption == \A s \in Scripts : WellFormed(s)

(* A PWAIT leaves a line of its own in the output of P0. *)
Owner(s, i)     == IF IsPwait(s, i) THEN P0 ELSE s[i].proc
CommandAt(s, i) == [id |-> i, kind |-> IF IsPwait(s, i) THEN "text" ELSE s[i].kind]

(* The commands of p among the first n items. *)
CommandsOf(s, p, n) == {CommandAt(s, i) : i \in {j \in 1..n : IsCommand(s, j) /\ Owner(s, j) = p}}

(* cs is the sequence of the commands of p among the first n items. *)
InOrder(cs, s, p, n) ==
    /\ \A j, k \in DOMAIN cs : j < k => cs[j].id < cs[k].id
    /\ {cs[k] : k \in DOMAIN cs} = CommandsOf(s, p, n)

(* Item b makes the run wait for p: PWAIT names p or all, and every PWAIT  *)
(* waits for P0 first.                                                     *)
Barrier(s, b, p) == \/ s[b].op = "pwait_all"
                    \/ s[b].op = "pwait_proc" /\ s[b].proc = p
                    \/ IsPwait(s, b) /\ p = P0

(* Servicer::mIgnore at the end of the script. *)
IsIgnored(s) == \E i \in DOMAIN s : s[i].op = "ignore"

-----------------------------------------------------------------------------
(* The oracle, Servicer::mLsData: the output of a run in which every       *)
(* session answered.  A statement under SKIP leaves its echo.              *)
InSkip(s, i) ==
    \E b \in 1..i : /\ s[b].op = "cmd" /\ Owner(s, b) = Owner(s, i)
                    /\ s[b].kind = "skip_begin"
                    /\ \A e \in b..i : s[e].op = "cmd" /\ Owner(s, e) = Owner(s, i)
                                         => s[e].kind # "skip_end"

OracleOutput(s, i) == IF CommandAt(s, i).kind = "sql" /\ InSkip(s, i) THEN "echo" ELSE "ok"

OracleEntry(s, i) == [cmd |-> CommandAt(s, i), out |-> OracleOutput(s, i)]

Oracle(s, p) ==
    LET upTo[n \in 0..Len(s)] ==
            IF n = 0 THEN <<>>
            ELSE IF IsCommand(s, n) /\ Owner(s, n) = p
                 THEN Append(upTo[n - 1], OracleEntry(s, n))
                 ELSE upTo[n - 1]
    IN  upTo[Len(s)]
=============================================================================
