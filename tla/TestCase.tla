------------------------------ MODULE TestCase ------------------------------
(***************************************************************************)
(* What a run of a test case promises, without threads, queues or locks:   *)
(* each process executes its own commands one after the other in the order *)
(* of the script, a PWAIT holds back what comes after it, and the verdict  *)
(* is about everything the processes did.  Servicer implements it.         *)
(***************************************************************************)
EXTENDS CaseScript

VARIABLES script,   \* the script of this run
          begun,    \* the commands each process has begun, in order
          output,   \* what each process has left in the result
          verdict   \* the report of the run

tvars == <<script, begun, output, verdict>>

Init ==
    /\ script  \in Scripts
    /\ begun   = [p \in Proc |-> <<>>]
    /\ output  = [p \in Proc |-> <<>>]
    /\ verdict = "none"

All(p)      == CommandsOf(script, p, Len(script))
Begun(p)    == {begun[p][k] : k \in DOMAIN begun[p]}
Dead(p)     == \E k \in DOMAIN output[p] : output[p][k].out = "dead"
Finished(p) == Dead(p) \/ (Begun(p) = All(p) /\ Len(output[p]) = Len(begun[p]))

(* Command c of p is the next of its process, and each barrier in front of *)
(* it has been reached: what the barrier waits for has begun, or is dead.  *)
Begin(p) ==
    /\ ~Dead(p)
    /\ Len(output[p]) = Len(begun[p])
    /\ \E c \in All(p) \ Begun(p) :
          /\ \A d \in All(p) \ Begun(p) : c.id <= d.id
          /\ \A b \in 1..(c.id - 1), q \in Proc :
                Barrier(script, b, q) =>
                    Dead(q) \/ \A d \in All(q) \ Begun(q) : d.id >= b
          /\ begun' = [begun EXCEPT ![p] = Append(@, c)]
    /\ UNCHANGED <<script, output, verdict>>

Complete(p) ==
    /\ Len(output[p]) < Len(begun[p])
    /\ \E o \in Outputs :
          output' = [output EXCEPT ![p] =
                        Append(@, [cmd |-> begun[p][Len(begun[p])], out |-> o])]
    /\ UNCHANGED <<script, begun, verdict>>

(* PASS if and only if the output is the oracle's, unless the case is to   *)
(* be ignored.                                                             *)
Report ==
    /\ verdict = "none"
    /\ \A p \in Proc : Finished(p)
    /\ verdict' \in IF \A p \in Proc : output[p] = Oracle(script, p) THEN {"PASS"}
                    ELSE IF IsIgnored(script) THEN {"PASS"}
                    ELSE {"FAIL", "FATAL"}
    /\ UNCHANGED <<script, begun, output>>

(* The case, the oracle or a laborer could not be had. *)
ReportError ==
    /\ verdict = "none"
    /\ verdict' = "ERROR"
    /\ UNCHANGED <<script, begun, output>>

Next == \/ \E p \in Proc : Begin(p) \/ Complete(p)
        \/ Report
        \/ ReportError

Spec == Init /\ [][Next]_tvars
=============================================================================
