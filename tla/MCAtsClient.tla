----------------------------- MODULE MCAtsClient -----------------------------
(***************************************************************************)
(* Instances of AtsClient, and what the list files say when they are read  *)
(* as a tree: the reference for CaseManager::load and mergeCase.           *)
(***************************************************************************)
EXTENDS AtsClient, TLC

MCKindOf == [f \in {"root.ts", "my.ts", "sub.ts", "l.tl", "a.sql", "b.sql", "c.sql", "d.sql",
                    "x.xml", "word", "u.bad"} |->
                CASE f \in {"root.ts", "my.ts", "sub.ts"} -> "TS"
                  [] f = "l.tl" -> "TL" [] f = "x.xml" -> "XML"
                  [] f = "word" -> "word" [] f = "u.bad" -> "other" [] OTHER -> "SQL"]
MCGroups   == {"P", "Q", "R"}
MCComments == {"PASS"}
MCDirOf == [f \in DOMAIN MCKindOf |-> IF f \in {"a.sql", "d.sql"} THEN "d1"
                                      ELSE IF f \in {"b.sql", "c.sql"} THEN "d2" ELSE "top"]

Ln(plat, neg, name) == [name |-> name, plat |-> plat, neg |-> neg, hash |-> FALSE, comment |-> ""]
Nm(name)    == Ln("", FALSE, name)
Off(name)   == [Nm(name) EXCEPT !.hash = TRUE]
UpTo(S, n)  == UNION {[1..k -> S] : k \in 0..n}

(* here is in P, not in Q, and in R only if the last host was read.        *)
Conf == <<[group |-> "P", hosts |-> <<"far", "here">>, newline |-> TRUE],
          [group |-> "Q", hosts |-> <<"far">>, newline |-> TRUE],
          [group |-> "R", hosts |-> <<"here">>, newline |-> FALSE]>>

Common(root, sub) == (<<"common", "root.ts">> :> root) @@ (<<"common", "sub.ts">> :> sub)
User(my)          == <<"user", "my.ts">> :> my
Verdict(v)        == [kind |-> "verdict", verdict |-> v]
Passes            == {Verdict("PASS")}
Normal            == [t |-> "", e |-> 0]

Input(files, user, skip, clean, args, recovery, platform, log, replies) ==
    [files |-> files, shared |-> <<"common", "root.ts">>, user |-> user, skip |-> skip,
     conf |-> Conf, here |-> "here", clean |-> clean, args |-> args, recovery |-> recovery,
     platform |-> platform, log |-> log, replies |-> replies]

(* Restrictions on lines, lists and below lists, before names that are no  *)
(* case, with titles and platforms alone on a line.                        *)
RootLines == {Nm("a.sql"), Ln("P", FALSE, "b.sql"), Nm("sub.ts"), Ln("Q", FALSE, "sub.ts"),
              Ln("P", TRUE, "sub.ts"), Off("sub.ts"), Ln("Q", FALSE, ""), Ln("P", FALSE, "u.bad"),
              Nm("word")}
SubLines  == {Nm("b.sql"), Ln("Q", FALSE, "c.sql"), Ln("R", TRUE, "l.tl")}
Lists3    == {Ln("P", TRUE, "sub.ts"), Ln("Q", FALSE, ""), Ln("P", FALSE, "u.bad")} \X RootLines
             \X {Nm("a.sql"), Nm("sub.ts"), Ln("P", FALSE, "b.sql")}
Load2     == {<<r, s>> \in (UpTo(RootLines, 2) \cup Lists3) \X UpTo(SubLines, 2) :
                /\ (\E k \in DOMAIN r : r[k].name = "sub.ts") \/ s = <<>>
                /\ Len(r) = 3 => s = <<>> \/ (Len(s) = 2 /\ s[1] # s[2])}
Loading   == {Input(Common(l[1], l[2]), NoFile, IF Len(l[1]) = 1 THEN {"b.sql", "sub.ts"} ELSE {}, TRUE,
                    Normal, NoRecovery, TRUE, TRUE, Passes) : l \in Load2}

Merging   == {Input(Common(r, <<Nm("c.sql")>>) @@ User(u), <<"user", "my.ts">>, {}, TRUE, Normal,
                    NoRecovery, TRUE, TRUE, Passes) :
                r \in UpTo({Nm("a.sql"), Nm("b.sql"), Nm("sub.ts")}, 2),
                u \in UpTo({Nm("a.sql"), Nm("b.sql"), Nm("c.sql"), Nm("d.sql")}, 3)}

Lists == {<<Nm("a.sql"), Nm("b.sql"), Nm("d.sql")>>, <<Nm("a.sql"), Off("b.sql")>>,
          <<Ln("R", FALSE, "a.sql"), Nm("sub.ts"), Nm("d.sql")>>,
          <<[Nm("a.sql") EXCEPT !.comment = "PASS"], Nm("c.sql")>>}
Other == {[kind |-> "refused"], [kind |-> "unreachable"], [kind |-> "exception"]}
Every(V) == {Verdict(v) : v \in V} \cup Other

NormalRuns ==
    {Input(Common(l, <<Nm("c.sql")>>), NoFile, {}, c, [t |-> t, e |-> e], NoRecovery, p, g,
           Every({"PASS", "FAIL", "ERROR", "FATAL", "CRASH", "none"})) :
       l \in Lists, c \in BOOLEAN, t \in {"", "regressive", "full", "recovery"}, e \in {0, 50},
       p \in BOOLEAN, g \in BOOLEAN}

SequentialRuns ==
    {Input(Common(l, <<Nm("c.sql")>>), NoFile, {}, TRUE, [t |-> "sequential", e |-> e], p, TRUE, TRUE,
           Every({"HIT", "MISS", "CRASH"})) :
       l \in Lists, e \in {0, 50},
       p \in {NoRecovery, <<>>, <<"p1">>, <<"p1", "", "p2">>, <<"p1", "p2", "p3">>}}

MCInputs == Loading \cup Merging \cup NormalRuns \cup SequentialRuns
-----------------------------------------------------------------------------
(* What the list files say, read as a tree: the reference for load.        *)
NamesCase(l) == l.name # "" /\ KindOf[l.name] \notin {"other", "word"}

(* The platform of line i alone: its own, or the last one in front of it   *)
(* with no case or word in between.                                        *)
Restriction(ls, i) ==
    LET S == {j \in 1..i : /\ ls[j].plat # ""
                           /\ \A k \in j..(i - 1) : ls[k].name = "" \/ KindOf[ls[k].name] = "other"}
    IN  IF S = {} THEN <<"", "OFF">>
        ELSE LET j == CHOOSE j \in S : \A k \in S : k <= j
             IN  <<ls[j].plat, IF ls[j].neg THEN "ON" ELSE "OFF">>

RECURSIVE Tree(_, _, _)
Tree(file, mark, plat) ==
    IF file \notin DOMAIN input.files THEN <<>>
    ELSE LET ls == input.files[file]
             At(i) == LET name == <<file[1], ls[i].name>>
                          own  == IF plat[1] # "" THEN plat ELSE Restriction(ls, i)
                          m    == IF Skips(name) THEN "SKIP" ELSE IF ls[i].hash THEN "NOT"
                                  ELSE mark
                      IN  IF ~NamesCase(ls[i]) THEN <<>>
                          ELSE <<[name |-> name, mark |-> m, plat |-> own]>> \o
                               (IF IsList(KindOf[ls[i].name]) THEN Tree(name, m, own) ELSE <<>>)
         IN  FlattenSeq([i \in DOMAIN ls |-> At(i)])

Seen(c) == [name |-> c.name, mark |-> c.mark,
            plat |-> IF c.plat = "" THEN <<"", "OFF">> ELSE <<c.plat, c.flag>>]

Root(file) == [name |-> file, plat |-> <<"", "OFF">>,
               mark |-> IF Skips(file) THEN "SKIP" ELSE "RUN"]
Whole(file) == <<Root(file)>> \o Tree(file, "RUN", <<"", "OFF">>)
SeenAll(list) == [k \in DOMAIN list |-> Seen(list[k])]

(* CaseManager::load goes through the files with one platform, one flag    *)
(* and one depth for all of its calls.  What it puts in the list is what   *)
(* each line and the lists above it say: the outermost restriction counts, *)
(* and nothing of a list is left over for the lines behind it.             *)
ListIsTree ==
    /\ mpc = "loaded" => SeenAll(mCaseList) = Whole(input.shared)
    /\ mpc = "merge" /\ mi = 1 => SeenAll(mLocalCaseList) = Whole(input.user)
=============================================================================
