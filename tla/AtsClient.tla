------------------------------ MODULE AtsClient ------------------------------
(***************************************************************************)
(* atsclnt/atsc.cpp: the client runs the list of CaseLists, one request    *)
(* to the ats service for every case that may run on this machine, and     *)
(* counts what the replies say.  A sequential recovery test goes round the *)
(* list and steps through the recovery points until enough of them were    *)
(* hit.  The client also tells the service when to link the files of a     *)
(* case's directory into the directory of the results, and when to remove  *)
(* these links.                                                            *)
(*                                                                         *)
(* A request is one step: the service runs a case before it answers.  What *)
(* a run does is Servicer's and ArtRecovery's business; here it ends in    *)
(* any way the input admits.                                               *)
(***************************************************************************)
EXTENDS CaseLists

CONSTANTS DirOf,    \* the directory of a file, the same in both trees
          MaxRun    \* bound of sRun: a sequential test need not end

ASSUME WalkAssumption ==
    /\ MaxRun \in Nat
    /\ DOMAIN DirOf = Ids
    /\ \A in \in Inputs : in.recovery \in Seq(STRING)

(* input.args: [t, e], -t "" and -e 0 when they are not given;             *)
(* input.recovery: the lines of recovery.dat, "" for a blank one, or       *)
(* NoRecovery; input.platform, input.log: platform.conf can be read, the   *)
(* report can be written; input.replies: what the service may answer.      *)
VARIABLES cpc, mTest, all, it, sRun, sOld, gRecPtrList, rit, requests, linked, counts, report

walkvars == <<cpc, mTest, all, it, sRun, sOld, gRecPtrList, rit, requests, linked, counts, report>>
vars     == <<listvars, walkvars>>

Verdicts   == <<"PASS", "FAIL", "ERROR", "FATAL", "HIT", "MISS", "CRASH", "IGNR">>
VerdictSet == Range(Verdicts)
Tests      == {"normal", "regressive", "full", "sequential"}
NoRecovery == <<"no file">>
NoDir      == <<"none", "">>
Dirs       == Range(DirOf)

(* The files of a directory as unlink tells them apart: those named .sh    *)
(* and the others.                                                         *)
Files      == Dirs \X {"data", "script"}

Init ==
    /\ LInit
    /\ cpc = "start" /\ mTest = "normal" /\ all = <<>>
    /\ it = 1 /\ sRun = 0 /\ sOld = NoDir
    /\ gRecPtrList = <<>> /\ rit = 1
    /\ requests = <<>> /\ counts = [v \in VerdictSet |-> 0] /\ report = "none"
    /\ linked = [f \in Files |-> "none"]

dirname(name) == <<name[1], DirOf[name[2]]>>

(* loadRECPOINT: a blank line repeats the point before it. *)
Points(lines) == [k \in DOMAIN lines |->
                     LET S == {j \in 1..k : lines[j] # ""}
                     IN  IF S = {} THEN "" ELSE lines[CHOOSE j \in S : \A h \in S : h <= j]]

(* Either option makes a recovery test of the run. *)
TestType == IF input.args.t = "" /\ input.args.e = 0 THEN "normal" ELSE input.args.t
sEndCdt  == IF input.args.e = 0 THEN 100 ELSE input.args.e

(* writeAllTestCase: all_count.log, a line for each case, under the place  *)
(* the case has in the list.                                               *)
Marked(c) == IF Runnable(c) THEN "Y" ELSE IF c.mark = "SKIP" THEN "S" ELSE "N"
AllCount  == [k \in {k \in DOMAIN mCaseList : mCaseList[k].type = "SQL"} |->
                 [mark |-> Marked(mCaseList[k]), name |-> mCaseList[k].name]]

(* main up to the loop: the options, recovery.dat, platform.conf.  What    *)
(* checkConfFile says of the configuration is printed and ignored.         *)
Starts == /\ TestType \in Tests
          /\ TestType = "sequential" => input.recovery # NoRecovery
          /\ input.platform
Start ==
    /\ mpc = "ready" /\ cpc = "start"
    /\ IF Starts
       THEN /\ cpc' = "walk"
            /\ mTest' = TestType
            /\ all' = AllCount
            /\ gRecPtrList' = IF TestType = "sequential" THEN Points(input.recovery) ELSE <<>>
       ELSE cpc' = "stopped" /\ UNCHANGED <<mTest, all, gRecPtrList>>
    /\ UNCHANGED <<listvars, it, sRun, sOld, rit, requests, linked, counts, report>>

-----------------------------------------------------------------------------
(* The loop over the list. *)
Walking == cpc = "walk" /\ it <= Len(mCaseList) /\ sRun < MaxRun
Case    == mCaseList[it]

sTotal == Len(Points(input.recovery))
Ratio(c) == (c["HIT"] * 100) \div sTotal

(* The end of the body, for the list of points, its iterator and the       *)
(* counts the body leaves.                                                 *)
Bottom(recs, r, c) ==
    IF mTest # "sequential"
    THEN it' = it + 1 /\ rit' = r /\ cpc' = cpc
    ELSE IF sTotal = 0
    THEN it' = it + 1 /\ rit' = r /\ cpc' = "undefined"
    ELSE IF Ratio(c) > sEndCdt
    THEN it' = it + 1 /\ rit' = r /\ cpc' = "report"
    ELSE /\ it' = IF it = Len(mCaseList) THEN 1 ELSE it + 1
         /\ rit' = IF r > Len(recs) THEN 1 ELSE r
         /\ cpc' = cpc

(* A case that must not run: the body is left in front of its end. *)
SkipCase ==
    /\ Walking
    /\ Case.type \in {"TS", "SQL"} /\ ~Runnable(Case)
    /\ sRun' = sRun + 1
    /\ it' = it + 1
    /\ UNCHANGED <<listvars, cpc, mTest, all, sOld, gRecPtrList, rit, requests, linked, counts, report>>

(* A list, or a case the client has no use for. *)
PassList ==
    /\ Walking
    /\ Case.type \in {"TL", "XML"} \/ (Case.type = "TS" /\ Runnable(Case))
    /\ sRun' = sRun + 1
    /\ Bottom(gRecPtrList, rit, counts)
    /\ UNCHANGED <<listvars, mTest, all, sOld, gRecPtrList, requests, linked, counts, report>>

(* Defects: only the first directory is linked; the client forgets the one *)
(* it was in.                                                              *)
MovedOnce   == sOld = NoDir
(* What a request asks for. *)
Moved   == dirname(Case.name) # sOld
sLink   == IF Moved THEN dirname(Case.name) ELSE NoDir
sUnlink == IF Moved THEN sOld ELSE NoDir
LastOne == sRun + 1 = Len(mCaseList)

(* The service's side, Servicer::unlink and link.  Only the directories of *)
(* the common tree have one among the results that is named after them;    *)
(* the links to scripts are never removed, and a link does not replace     *)
(* another of its name.                                                    *)
Removed(ln, d) == IF d[1] = "common" THEN [ln EXCEPT ![<<d[2], "data">>] = "none"] ELSE ln
Linked(ln, d)  == [f \in Files |-> IF d # NoDir /\ f[1] = d[2] /\ ln[f] = "none" THEN d[1] ELSE ln[f]]
Before(ln)     == Linked(Removed(ln, sUnlink), sLink)
After(ln)      == IF LastOne THEN Removed(ln, dirname(Case.name)) ELSE ln

(* The word the client finds in the text of a reply, which holds the       *)
(* verdict and the comment of the case.                                    *)
Found1st(words) == LET S == {k \in DOMAIN Verdicts : Verdicts[k] \in words}
                   IN  IF S = {} THEN "none" ELSE Verdicts[Least(S)]
Reads(reply) == IF reply.kind = "verdict" THEN Found1st({reply.verdict, Case.comment})
                ELSE "IGNR"

(* Defects: a point that was missed is struck off; the iterator stays, or  *)
(* steps over the point behind one that was hit.                           *)
RitAfterStays(v)  == rit
RitAfterHitToo(v) == IF mTest = "sequential" /\ v \in {"HIT", "MISS"} THEN rit + 1 ELSE rit

(* The recovery points after a verdict of a sequential test. *)
RecsAfter(v) == IF mTest = "sequential" /\ v = "HIT" THEN RemoveAt(gRecPtrList, rit) ELSE gRecPtrList
RitAfter(v)  == IF mTest = "sequential" /\ v = "MISS" THEN rit + 1 ELSE rit

Request(kind, read, links) ==
    [name |-> Case.name, point |-> IF mTest = "sequential" THEN gRecPtrList[rit] ELSE "none",
     kind |-> kind, read |-> read,
     links |-> {links[f] : f \in {f \in Files : f[1] = DirOf[Case.name[2]]}}]

CanRun == Walking /\ Case.type = "SQL" /\ Runnable(Case)

(* Every point was hit: the iterator is at the end of an empty list. *)
NoPoint ==
    /\ CanRun
    /\ mTest = "sequential" /\ gRecPtrList = <<>>
    /\ cpc' = "undefined"
    /\ UNCHANGED <<listvars, mTest, all, it, sRun, sOld, gRecPtrList, rit, requests, linked, counts, report>>

(* A reply with a verdict.  FATAL, and a text without any verdict, end the *)
(* loop.  An exception of the service is answered as IGNR; the case may    *)
(* then have come as far as its links or not.                              *)
RunCase(reply) ==
    /\ CanRun
    /\ mTest = "sequential" => gRecPtrList # <<>>
    /\ reply.kind \in {"verdict", "exception"}
    /\ \E far \in (IF reply.kind = "verdict" THEN {TRUE} ELSE BOOLEAN) :
          LET ln == IF far THEN Before(linked) ELSE linked
              v  == Reads(reply)
              c  == IF v = "none" THEN counts ELSE [counts EXCEPT ![v] = @ + 1]
          IN  /\ linked' = IF reply.kind = "verdict" THEN After(ln) ELSE ln
              /\ requests' = Append(requests, Request(reply.kind, v, ln))
              /\ counts' = c
              /\ gRecPtrList' = RecsAfter(v)
              /\ IF v \in {"FATAL", "none"} THEN cpc' = "report" /\ UNCHANGED <<it, rit>>
                 ELSE Bottom(RecsAfter(v), RitAfter(v), c)
    /\ sRun' = sRun + 1
    /\ sOld' = dirname(Case.name)
    /\ UNCHANGED <<listvars, mTest, all, report>>

(* A request that fails: the case is over, the directory counts as linked. *)
(* Codes 2 and 21 mean that there is no service.                           *)
Refused(reply) ==
    /\ CanRun
    /\ mTest = "sequential" => gRecPtrList # <<>>
    /\ reply.kind \in {"refused", "unreachable"}
    /\ requests' = Append(requests, Request(reply.kind, "none", linked))
    /\ IF reply.kind = "unreachable" THEN cpc' = "report" /\ UNCHANGED <<it, rit>>
       ELSE Bottom(gRecPtrList, rit, counts)
    /\ sRun' = sRun + 1
    /\ sOld' = dirname(Case.name)
    /\ UNCHANGED <<listvars, mTest, all, gRecPtrList, linked, counts, report>>

EndOfList ==
    /\ cpc = "walk" /\ it > Len(mCaseList)
    /\ cpc' = "report"
    /\ UNCHANGED <<listvars, mTest, all, it, sRun, sOld, gRecPtrList, rit, requests, linked, counts, report>>

(* The END record, unless the server died; then the counts.  A report that *)
(* cannot be written keeps the counts from being printed.                  *)
Report ==
    /\ cpc = "report"
    /\ report' = IF counts["FATAL"] > 0 THEN "no end" ELSE IF input.log THEN "end" ELSE "failed"
    /\ cpc' = "stopped"
    /\ UNCHANGED <<listvars, mTest, all, it, sRun, sOld, gRecPtrList, rit, requests, linked, counts>>

Load == LoadStep /\ UNCHANGED walkvars

Stopped == /\ cpc \in {"stopped", "undefined"} \/ sRun = MaxRun
           /\ UNCHANGED vars

Next == \/ Load \/ Start \/ SkipCase \/ PassList \/ NoPoint \/ EndOfList \/ Report \/ Stopped
        \/ \E reply \in input.replies : RunCase(reply) \/ Refused(reply)

Spec == Init /\ [][Next]_vars /\ WF_vars(Next)

-----------------------------------------------------------------------------
Lost(r)    == r.kind # "verdict"
Intact     == \A k \in DOMAIN requests : ~Lost(requests[k])
OneTree    == input.user = NoFile
Wanted     == {k \in DOMAIN all : all[k].mark = "Y"}
Rank(k)    == Cardinality({h \in Wanted : h <= k})
Visited    == {DirOf[requests[k].name[2]] : k \in DOMAIN requests}
Sequential == mTest = "sequential" /\ cpc # "start"

(* Every case all_count.log counts as runnable is requested once, in the   *)
(* order of the list, whatever became of the cases before it: the second   *)
(* walk over the list (main) agrees with the first (writeAllTestCase).  A  *)
(* case of the common tree finds the files of its own directory among the  *)
(* results, although only the first request of a directory asks for the    *)
(* links (main's sLink, Servicer::link; a lost request loses them).  The   *)
(* scripts of a directory stay linked once it was run, to the end and      *)
(* after it (the files unlink filters out); of the other files no          *)
(* directory keeps links while another is run (sUnlink), and none keeps    *)
(* them when the list was run to a last entry that was a case.             *)
RequestsFollowList ==
    /\ ~Sequential /\ cpc # "start" =>
        /\ \A k \in Wanted : Rank(k) <= Len(requests) => requests[Rank(k)].name = all[k].name
        /\ IF it > Len(mCaseList) THEN Len(requests) = Cardinality(Wanted)
           ELSE Len(requests) <= Cardinality(Wanted)
    /\ ~Sequential /\ OneTree /\ Intact =>
        LET L == {d \in Dirs : linked[<<d, "data">>] # "none"}
        IN  /\ \A k \in DOMAIN requests : requests[k].links = {requests[k].name[1]}
            /\ {d \in Dirs : linked[<<d, "script">>] # "none"} = Visited
            /\ \A d, e \in L : d = e
            /\ cpc = "stopped" /\ it > Len(mCaseList) /\ Last(mCaseList).type = "SQL" /\ Runnable(Last(mCaseList))
               => L = {}

(* A recovery point leaves the list when it was hit and only then, and one *)
(* that was missed is tried again only when every point still in the list  *)
(* had its turn: erase and the wrap at the end of the list keep the        *)
(* iterator on the next point.                                             *)
PointsTakeTurns ==
    Sequential =>
        LET hit == {k \in DOMAIN requests : requests[k].read = "HIT"}
        IN  /\ Range(gRecPtrList) \cup {requests[k].point : k \in hit} = Range(Points(input.recovery))
            /\ Len(gRecPtrList) + Cardinality(hit) = sTotal
            /\ IsInjective(Points(input.recovery)) =>
                 \A i, j \in DOMAIN requests :
                    (i < j /\ requests[i].point = requests[j].point /\ requests[i].read = "MISS") =>
                        \A p \in Range(gRecPtrList) \ {requests[i].point} :
                            \E k \in i..j : requests[k].point = p

Cases == [name : {"common", "user"} \X DOMAIN KindOf, ts : {"common", "user"} \X DOMAIN KindOf,
          type : {"TS", "TL", "SQL", "XML"}, plat : Groups \cup {""},
          flag : {"ON", "OFF", "unset"}, comment : Comments \cup {""}, mark : {"RUN", "NOT", "SKIP"}]

(* The lists hold cases, the iterators stay in their lists or at the end. *)
TypeOK ==
    /\ mpc \in {"shared", "loading", "loaded", "loadingUser", "merge", "ready"}
    /\ Range(mCaseList) \cup Range(mLocalCaseList) \subseteq Cases
    /\ cpc \in {"start", "walk", "report", "stopped", "undefined"} /\ mTest \in Tests
    /\ it \in 1..(Len(mCaseList) + 1) /\ rit \in 1..(Len(gRecPtrList) + 1) /\ sRun \in 0..MaxRun
    /\ sOld \in {"common", "user", "none"} \X (Dirs \cup {""})
    /\ linked \in [Files -> {"none", "common", "user"}]
    /\ counts \in [VerdictSet -> 0..MaxRun]
    /\ report \in {"none", "end", "no end", "failed"}
=============================================================================
