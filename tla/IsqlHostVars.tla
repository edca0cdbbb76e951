---------------------------- MODULE IsqlHostVars ----------------------------
(***************************************************************************)
(* The host variables of isql (psql/src/iSQLHostVarMgr.cpp) and the list   *)
(* of those an EXEC or a PREPARE binds.  A value here is hv: hv.vars maps  *)
(* the declared names to [type, value, assigned], hv.bind is the list, in  *)
(* the order of the text.                                                  *)
(*                                                                         *)
(* Literals stand for what an assignment may be given: a quoted string or  *)
(* a number, each of a size that fits the variable, or too long, or (a     *)
(* number) out of the range of its type.                                   *)
(***************************************************************************)
EXTENDS Integers, Sequences, SequencesExt

Types    == <<"CHAR", "INTEGER">>
Literals == {"NULL", "''", "'text'", "'long text'", "7", "70000000000", "long number"}

Quoted   == {"''", "'text'", "'long text'"}
TooLarge == {"'long text'", "long number"}
Empty    == ""

NewVars == [vars |-> <<>>, bind |-> <<>>]

Declared(hv) == DOMAIN hv.vars

(* A second declaration forgets the value.                                 *)
add(hv, name, type) ==
    [hv EXCEPT !.vars = [n \in Declared(hv) \cup {name} |->
        IF n = name THEN [type |-> type, value |-> Empty, assigned |-> FALSE] ELSE hv.vars[n]]]

(* The value is cleared before its size is looked at, and stored before    *)
(* its range is; "assigned" changes only on success.                       *)
setValue(hv, name, literal) ==
    LET v == hv.vars[name]
    IN  IF name \notin Declared(hv) THEN hv
        ELSE IF literal = "NULL" \/ literal = "''"
        THEN [hv EXCEPT !.vars[name].assigned = FALSE]
        ELSE IF (literal \in Quoted) # (v.type = "CHAR") THEN hv
        ELSE IF literal \in TooLarge THEN [hv EXCEPT !.vars[name].value = Empty]
        ELSE IF literal = "70000000000" THEN [hv EXCEPT !.vars[name].value = literal]
        ELSE [hv EXCEPT !.vars[name] = [type |-> v.type, value |-> literal, assigned |-> TRUE]]

(* The list is emptied first; an undeclared name ends it.                  *)
Bound(hv, name) ==
    LET v == hv.vars[name]
    IN  [name |-> name, assigned |-> v.assigned, value |-> IF v.assigned THEN v.value ELSE Empty]

putBindListAppends(hv, names) ==   \* defect: the list of the EXEC before is kept
    LET known == {k \in 0 .. Len(names) : \A i \in 1 .. k : names[i] \in Declared(hv)}
        n     == CHOOSE k \in known : \A j \in known : j <= k
    IN  [ok |-> n = Len(names),
         hv |-> [hv EXCEPT !.bind = @ \o [i \in 1 .. n |-> Bound(hv, names[i])]]]

putBindList(hv, names) ==
    LET known == {k \in 0 .. Len(names) : \A i \in 1 .. k : names[i] \in Declared(hv)}
        n     == CHOOSE k \in known : \A j \in known : j <= k
    IN  [ok |-> n = Len(names),
         hv |-> [hv EXCEPT !.bind = [i \in 1 .. n |-> Bound(hv, names[i])]]]

(* ParsingExecProc and ParsingPrepareSQL find the names after a ":".       *)
ParsingExecProc(hv, names) == putBindList(hv, names)
ParsingPrepareSQL(hv, names) == putBindList(hv, names)

(* An output parameter marks its variable as assigned before the call.     *)
Outputs(bind, outs) ==
    [i \in DOMAIN bind |->
        IF i \in DOMAIN outs
        THEN [name |-> bind[i].name, assigned |-> TRUE, value |-> outs[i]]
        ELSE bind[i]]

(* After a call that succeeded every bound variable takes the value of the *)
(* list and counts as assigned, whatever the direction of its parameter;   *)
(* of a variable bound twice the last one counts.                          *)
setHostVar(hv, outs) ==
    LET bind == Outputs(hv.bind, outs)
        ofs(n) == {i \in DOMAIN bind : bind[i].name = n}
        last(n) == CHOOSE i \in ofs(n) : \A j \in ofs(n) : j <= i
    IN  [bind |-> bind,
         vars |-> [n \in Declared(hv) |->
             IF ofs(n) = {} THEN hv.vars[n]
             ELSE [type |-> hv.vars[n].type, value |-> bind[last(n)].value, assigned |-> TRUE]]]
=============================================================================
