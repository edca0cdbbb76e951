----------------------------- MODULE MCIloader -----------------------------
(***************************************************************************)
(* Bounds for Iloader: files of up to four lines of two columns, values of *)
(* up to three characters and tokens of up to seven; arrays of up to three *)
(* rows; two commands and one fault; one row for a download with a limit.  *)
(***************************************************************************)
EXTENDS Iloader

Terms   == [ft |-> <<"^">>, rt |-> <<"/">>, en |-> <<>>]
Long    == [ft |-> <<"a", "a", "^">>, rt |-> <<"c", "/">>, en |-> <<>>]
Quoted  == [ft |-> <<"^">>, rt |-> <<"/">>, en |-> <<"'">>]
Twice   == [ft |-> <<"|", "|">>, rt |-> <<"/">>, en |-> <<>>]
Angles  == [ft |-> <<"^">>, rt |-> <<"/">>, en |-> <<"<", "|">>]
Confuse == [ft |-> <<"^">>, rt |-> <<"^">>, en |-> <<>>]

Form(types, add, seqs, skip) == [types |-> types, add |-> add, seqs |-> seqs, skip |-> skip]
Chars  == Form(<<"char", "char">>, FALSE, <<>>, {})
Stamps == Form(<<"char", "timestamp">>, TRUE, <<>>, {})
Middle == Form(<<"char", "timestamp", "char">>, TRUE, <<>>, {})
BadSeq == Form(<<"char", "char">>, FALSE, <<3>>, {})
TwoSeq == Form(<<"char", "char">>, FALSE, <<1, 1>>, {})
OneSeq == Form(<<"char", "char">>, FALSE, <<2>>, {})
NoForm == Form(<<>>, FALSE, <<>>, {})
Skips  == Form(<<"char", "char">>, FALSE, <<>>, {1})

Name == <<"f1", "f2", "f3", "f4", "f5", "f6", "f7", "f8", "f9", "f10", "f11", "f12", "f13",
          "f14", "f15", "f16", "f17">>
Seven == [k \in 1..7 |-> "l"]
Contents == <<
    <<"a", "^", "b", "/", "^", "c", CR, "/", "a", "^", "b", "/">>,  \* good
    <<"a", "^", "b", "/", "x", "^", "b", "/", "^", "c", "/">>,      \* the second is refused
    <<"a", "^", "b", "/", "a", "/", "^", "c", "/">>,                \* the second is too short
    <<"a", "/", "a", "^", "b", "/", "x", "^", "b", "/">>,
    <<"x", "^", "b", "/", "x", "^", "b", "/", "a", "^", "b", "/">>,
    <<"a", "^", "b", "/", "^", "c", "/", "a", "^", "d">>,           \* no end of the last line
    <<"a", "^", "b", "/", "^", "c", "/", "a", "^">>,
    <<"a", "^", "b", "/", "a", "^", "b", "^", "c", "/", "^", "c", "/">>,
    <<"a", "^", "b", "/", "a", "^", "b", "^", "c", "^", "d", "/">>,
    <<"a", "^", "b", "^", "/", "^", "^", "/">>,                     \* informix
    <<"a", "/", "x", "/", "/">>,
    <<>>,
    <<"'", "a", "'", "^", "'", "^", "'", "/", "'", "'", "^", "c", "/">>,
    <<"a", "^", "b", "/">> \o Seven \o <<"^", "b", "/", "a", "^", "b", "/">>,  \* the second is too long
    <<"a", "^", "b", "/", "a", "/", "a", "^">> \o Seven \o <<"/", "a", "^", "b", "/">>,
    <<"a", "^", "b", "/", "a", "^", "l", "l", "l", "l", "/">>,     \* no place in the slot
    <<"a", "|", "^", "|", "/", "a", "^", CR, CR, "/">> >>          \* values hard to write
MCFiles == [n \in {Name[k] : k \in DOMAIN Name} |-> Contents[CHOOSE k \in DOMAIN Name : Name[k] = n]]

In(f, a, u, from, to, mode) ==
    [op |-> "in", given |-> {"f", "d"}, file |-> f, array |-> a, commit |-> u, first |-> from, last |-> to,
     mode |-> mode, form |-> Chars, informix |-> FALSE, terms |-> Terms]
All == 99
Whole(f, a, u) == In(f, a, u, 1, All, "APPEND")
Download(split, inf, terms) ==
    [op |-> "out", given |-> {"f", "d"}, split |-> split, informix |-> inf, form |-> Chars, terms |-> terms,
     types |-> {"char"}, where |-> FALSE]
FormWith(given, types) == [op |-> "formout", given |-> given, types |-> types]
FormDown == FormWith({"f", "T"}, {"char"})

MCFirst ==
    {In(f, a, u, from, to, mode) :
        f \in {Name[k] : k \in 1..15} \ {"f10", "f13"}, a \in {0, 2, 3}, u \in 0..2, from \in 1..2, to \in {1, 2, All},
        mode \in {"APPEND", "REPLACE"}}
    \cup {[Whole("f10", 0, 0) EXCEPT !.informix = TRUE], [Whole("f11", 2, 1) EXCEPT !.form = Stamps],
          Whole("f16", 2, 0), Whole("f17", 2, 1), Whole("f17", 0, 0),
          [Whole("f9", 0, 0) EXCEPT !.form = Middle], [Whole("f13", 2, 0) EXCEPT !.terms = Quoted],
          [Whole("f1", 0, 0) EXCEPT !.form = OneSeq], [Whole("f2", 0, 0) EXCEPT !.form = Skips],
          [Whole("f1", 0, 1) EXCEPT !.form = BadSeq], [In("f1", 0, 0, 1, All, "REPLACE") EXCEPT !.form = TwoSeq],
          Whole("none", 0, 0), [Whole("f1", 0, 0) EXCEPT !.given = {"f", "d", "split"}],
          [Whole("f1", 0, 0) EXCEPT !.terms = Confuse],
          Download(0, FALSE, Terms), FormDown, FormWith({"f"}, {"char"}),
          FormWith({"f", "T"}, {"char", "timestamp"}),
          [FormWith({"f", "T"}, {"char", "timestamp"}) EXCEPT !.op = "structout"],
          [Whole("f1", 0, 1) EXCEPT !.form = NoForm], [Download(0, FALSE, Terms) EXCEPT !.form = NoForm]}
MCLater ==
    {Download(s, i, t) : s \in 0..2, i \in BOOLEAN, t \in {Terms, Long, Quoted, Twice, Angles}} \cup
    {[Download(0, FALSE, Terms) EXCEPT !.types = {"char", "blob"}], [Download(1, FALSE, Terms) EXCEPT !.where = TRUE], FormDown, Whole("f2", 0, 1), In("f5", 2, 2, 1, All, "REPLACE"),
     [Whole("f1", 0, 0) EXCEPT !.form = BadSeq], In("f12", 0, 0, 1, All, "REPLACE")}
=============================================================================
