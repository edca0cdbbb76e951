---------------------------- MODULE IloaderData ----------------------------
(***************************************************************************)
(* iloader's data files: iloDataFile cuts the characters of a file into    *)
(* values and terminators, reads records from them, and prints the rows of *)
(* a download.                                                             *)
(*                                                                         *)
(* t has the terminators of fields and rows and the enclosing characters,  *)
(* each a sequence of characters (ft, rt, en; en is empty without -e).     *)
(* form has the types of the columns (1.. for the source's 0..) and says   *)
(* whether the form gives the timestamps (add, the source's gAddFlag).     *)
(* informix is the option that ends a line with one more field terminator. *)
(***************************************************************************)
EXTENDS Integers, Sequences, SequencesExt, TLC

CONSTANT MaxValue    \* MAX_VARCHAR_SIZE, the slot of a column of characters

ASSUME DataAssumption == MaxValue \in Nat \ {0}

MaxToken == 2 * MaxValue    \* MAX_TOKEN_VALUE_LEN

Null == <<>>
CR   == "\r"

Cut(s, n)    == SubSeq(s, 1, Len(s) - n)
Ending(s, n) == SubSeq(s, Len(s) - n + 1, Len(s))

(* Defect: after a mismatch the terminator starts again with this          *)
(* character (the code before BUG-3606).                                   *)
MatchedAnew(ix, term, text, open) ==
    IF ~open /\ text[Len(text)] = term[ix + 1] THEN ix + 1
    ELSE IF text[Len(text)] = term[1] THEN 1 ELSE 0

(* How much of a terminator the text ends with, after one character more:  *)
(* after a mismatch the longest part of it that can go on.  Inside of      *)
(* enclosing characters (open) nothing is matched.                         *)
Matched(ix, term, text, open) ==
    IF ~open /\ text[Len(text)] = term[ix + 1] THEN ix + 1
    ELSE IF ix = 0 THEN 0
    ELSE LET fits == {j \in 1..Len(term) : j <= Len(text) /\ Ending(text, j) = SubSeq(term, 1, j)}
         IN  IF fits = {} THEN 0 ELSE CHOOSE j \in fits : \A h \in fits : h <= j

(* A token: its kind, the text of a value, and the terminator or end of    *)
(* file that was taken from the file with the value (m_SetNextToken).      *)
Found(kind, text, next, p) == [kind |-> kind, text |-> text, next |-> next, pos |-> p]
Term(kind, term, text, p) ==
    IF Len(text) = Len(term) THEN Found(kind, <<>>, "", p)
    ELSE Found("value", Cut(text, Len(term)), kind, p)

(* The loop of GetToken: s is what it has of the token in front of the     *)
(* character at p.  A token that is too long is dropped and answered with  *)
(* the end of the file; the next one begins behind it (the 0 that ends its *)
(* text falls on m_SetNextToken, which is 0).                              *)
RECURSIVE Scan(_, _, _, _)
Scan(cs, p, s, t) ==
    LET q == IF p <= Len(cs) /\ cs[p] = CR THEN p + 1 ELSE p
    IN  IF q > Len(cs)
        THEN IF s.first THEN Found("eof", <<>>, "", q) ELSE Found("value", s.text, "eof", q)
        ELSE LET text == Append(s.text, cs[q])
                 f == Matched(s.ft, t.ft, text, s.open)
                 r == Matched(s.rt, t.rt, text, s.open)
                 e == IF cs[q] = t.en[s.en + 1] THEN s.en + 1 ELSE IF s.en > 0 /\ cs[q] = t.en[1] THEN 1 ELSE 0
                 at == [s EXCEPT !.text = text, !.ft = f, !.rt = r, !.first = FALSE]
             IN  IF Len(text) >= MaxToken THEN Found("eof", <<>>, "", q + 1)
                 ELSE IF f = Len(t.ft) THEN Term("field", t.ft, text, q + 1)
                 ELSE IF r = Len(t.rt) THEN Term("row", t.rt, text, q + 1)
                 ELSE IF t.en = <<>> \/ f > 0 \/ r > 0 THEN Scan(cs, q + 1, at, t)
                 ELSE IF e < Len(t.en) THEN Scan(cs, q + 1, [at EXCEPT !.en = e, !.open = TRUE], t)
                 ELSE IF Len(text) > Len(t.en) THEN Found("value", Cut(text, Len(t.en)), "", q + 1)
                 ELSE IF s.loops = Len(t.en) THEN Found("value", <<>>, "", q + 1)
                 ELSE Scan(cs, q + 1, [at EXCEPT !.text = <<>>, !.en = 0, !.ft = 0, !.rt = 0,
                                                 !.open = TRUE, !.loops = @ + 1], t)

GetToken(cs, p, t) ==
    Scan(cs, p, [text |-> <<>>, ft |-> 0, rt |-> 0, en |-> 0, open |-> FALSE, loops |-> 0, first |-> TRUE], t)

(* The tokens of a file from p on, in the order GetToken gives them. *)
RECURSIVE TokensFrom(_, _, _)
TokensFrom(cs, p, t) ==
    LET k == GetToken(cs, p, t)
        one == <<[kind |-> k.kind, text |-> k.text]>>
    IN  IF k.kind = "eof" /\ k.pos > Len(cs) THEN <<>>
        ELSE IF k.next = "eof" THEN one
        ELSE (IF k.next = "" THEN one ELSE one \o <<[kind |-> k.next, text |-> <<>>]>>) \o TokensFrom(cs, k.pos, t)
Tokens(cs, t) == TokensFrom(cs, 1, t)

-----------------------------------------------------------------------------
Kind(data, k) == IF k <= Len(data) THEN data[k].kind ELSE "eof"

(* A slot of the arrays bound to the parameters, not yet written to. *)
Garbage(form) == [vals |-> [i \in DOMAIN form.types |-> <<"?">>], count |-> 0]

Stamp(form, i) == i \in DOMAIN form.types /\ form.add /\ form.types[i] = "timestamp"

(* The column behind a value: a given timestamp is not in the file. *)
AfterValue(form, i) == IF Stamp(form, i + 1) THEN i + 1 ELSE i

(* The column behind a terminator: the same jump, made for the column that *)
(* was just read.                                                          *)
AfterTerm(form, i) == IF i < Len(form.types) /\ Stamp(form, i) THEN i + 2 ELSE i + 1

(* ReadOneRecord: 0 is an error, 1 a record, 2 the end of the file.  The   *)
(* token that does not fit has been taken from the file, the rest of its   *)
(* line has not.  What the slot held stays in the columns not reached, and *)
(* the count of the columns read leaves out the last of a line without end.*)
(* A value may not fit its slot: it is copied in the whole of its length.  *)
ReadOneRecord(data, pos, slot, form, informix) ==
    LET n == Len(form.types)
        (* The call ends at column i, having taken token k. *)
        Result(r, k, i) == [ret |-> r, pos |-> k + 1, count |-> i - 1, got |-> <<>>]
        AtLast(k, j) ==
            LET e == IF informix /\ Kind(data, k) = "field" THEN k + 1 ELSE k
            IN  CASE Kind(data, e) = "eof" -> Result(1, e, j)
                  [] Kind(data, e) = "row" -> Result(1, e, j + 1)
                  [] OTHER -> Result(0, e, j)
        Read[i \in 1..(n + 1), k \in 1..(Len(data) + 2 * n + 3)] ==
            LET value == Kind(data, k) = "value"
                k1   == IF value THEN k + 1 ELSE k
                j    == IF value THEN AfterValue(form, i) ELSE i
                rest == IF j = n THEN AtLast(k1, j)
                        ELSE IF Kind(data, k1) # "field" THEN Result(0, k1, j)
                        ELSE Read[AfterTerm(form, j), k1 + 1]
            IN  IF i > n THEN Result(1, k, i)
                ELSE IF Kind(data, k) = "eof" THEN Result(2, k, i)
                ELSE [rest EXCEPT !.got = (i :> (IF value THEN data[k].text ELSE Null)) @@ @]
        r == Read[IF n > 1 /\ Stamp(form, 1) THEN 2 ELSE 1, pos]
    IN  [ret |-> r.ret, pos |-> r.pos,
         fits |-> \A i \in DOMAIN r.got : form.types[i] = "char" => Len(r.got[i]) < MaxValue,
         slot |-> [vals |-> [i \in 1..n |-> IF i \in DOMAIN r.got THEN r.got[i] ELSE slot.vals[i]],
                   count |-> r.count]]

(* What iloBadFile prints of a record: a given timestamp gives way to the  *)
(* column behind it, which there may not be.                               *)
Printed(slot, form) ==
    LET shown == {IF Stamp(form, i) THEN i + 1 ELSE i : i \in 1..slot.count}
        nth(k) == CHOOSE i \in shown : Cardinality({h \in shown : h < i}) = k - 1
    IN  [k \in 1..Cardinality(shown) |-> IF nth(k) \in DOMAIN slot.vals THEN slot.vals[nth(k)] ELSE <<"?">>]

(* PrintOneRecord: a row of the download.  The indicator of a NULL is not  *)
(* looked at; the driver is taken to have emptied its text.                *)
PrintOneRecord(row, t, informix) ==
    FlattenSeq([i \in DOMAIN row |->
        t.en \o row[i] \o t.en \o
        (IF i < Len(row) THEN t.ft ELSE IF informix THEN t.ft \o t.rt ELSE t.rt)])

(* All records ReadOneRecord finds in a file. *)
RECURSIVE RecordsFrom(_, _, _, _)
RecordsFrom(data, p, form, informix) ==
    LET r == ReadOneRecord(data, p, Garbage(form), form, informix)
    IN  IF r.ret = 2 THEN <<>> ELSE <<r>> \o RecordsFrom(data, r.pos, form, informix)
ReadAll(cs, t, form, informix) == RecordsFrom(Tokens(cs, t), 1, form, informix)
=============================================================================
