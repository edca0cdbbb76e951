-------------------------- MODULE MCAltibaseHandler --------------------------
(***************************************************************************)
(* Instances of AltibaseHandler for TLC: one session whose isql may be     *)
(* late and may end twice, and two laborers that log on at the same time.  *)
(***************************************************************************)
EXTENDS AltibaseHandler

MCProc == {0, 1}

OneSession == [commands |-> [p \in MCProc |-> IF p = 0 THEN 3 ELSE 0], ends |-> 2,
               timeouts |-> TRUE, retries |-> BOOLEAN]
TwoLogons  == [commands |-> [p \in MCProc |-> 1], ends |-> 1,
               timeouts |-> FALSE, retries |-> {TRUE}]

MCLimits == {OneSession, TwoLogons}
==============================================================================
