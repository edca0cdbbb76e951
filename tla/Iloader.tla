------------------------------ MODULE Iloader ------------------------------
(***************************************************************************)
(* iloader (ploader): one session that loads data files into a table (in), *)
(* downloads a table into data files (out) and writes forms (formout), by  *)
(* one command line or by commands at its prompt.                          *)
(*                                                                         *)
(* The statement handle and its attributes, the text of the last           *)
(* statement, the commit mode and the form file outlive a command.  The    *)
(* server is the table with what is committed of it; a row with a value x  *)
(* is refused.  The driver follows ODBC: an array execution goes           *)
(* through all rows and says of each whether it failed, autocommit being   *)
(* switched on commits, the attributes of a statement stay.                *)
(***************************************************************************)
EXTENDS IloaderData, FiniteSets

CONSTANTS Files,       \* names of data files -> characters; a name outside cannot be opened
          First,       \* the commands a session may begin with
          Later,       \* and those that may follow
          MaxCommands, \* commands of a session
          MaxRows,     \* what Fetch sets SQL_ATTR_MAX_ROWS to, 1000 in the source
          MaxFaults    \* commits that fail, servers that are lost and files that cannot be written, together

VARIABLES pc, inter, cmd, count,      \* main
          data, ld, slots, status, bad, \* LoadwithPrepare
          stmt, text, auto, form,     \* iloSQLApi and iloFormDown
          db, open, before, link, faults, \* the server
          out, report                 \* results

main   == <<inter, cmd, count>>
load   == <<data, ld, slots, status, bad>>
api    == <<stmt, text, auto, form>>
server == <<db, open, before, link>>
vars   == <<pc, main, load, api, server, faults, out, report>>

Refused == <<"x">>
Old     == <<<<"o">>, <<"o">>>>
Older   == <<Null, <<"o">>>>
NoCommand == [op |-> "none"]
NoOut == [rows |-> <<>>, at |-> 0, max |-> 0, files |-> <<>>, informix |-> FALSE, split |-> 0,
          failed |-> FALSE, lost |-> FALSE]

Init ==
    /\ pc = "connect" /\ inter \in BOOLEAN /\ cmd = NoCommand /\ count = 0
    /\ ld = [ix |-> 1, pos |-> 1, real |-> 0, total |-> 0, err |-> 0, nload |-> 1, ret |-> 1]
    /\ data = <<>> /\ slots = <<>> /\ status = <<>> /\ bad = <<>>
    /\ stmt = [paramset |-> 1, status |-> "none", sql |-> "none", max |-> 0]
    /\ text = "none" /\ auto = TRUE /\ form = "none"
    /\ db = [table |-> <<Old, Older>>, work |-> <<Old, Older>>]
    /\ open = 0 /\ before = <<>> /\ link = "up" /\ faults = 0
    /\ out = NoOut /\ report = [load |-> 0, err |-> 0]

Goto(l) == pc' = l

(* Behind a command: the next one, or exit_pos when there was a command    *)
(* line.                                                                   *)
Prompt == Goto("prompt")

(* An environment, a connection, a statement: what Open has got when it    *)
(* returns.  Only with all three is there a session.                       *)
Handles == <<"env", "con", "stmt">>
Open    == {SubSeq(Handles, 1, k) : k \in 0..3}

(* main up to its prompt; AutoCommit(true) follows the connection. *)
Connect ==
    /\ pc = "connect"
    /\ \E got \in Open : IF got = Handles THEN Prompt ELSE Goto("exit")
    /\ UNCHANGED <<main, load, api, server, faults, out, report>>

(* The server goes away; what is not committed is undone. *)
Lose ==
    /\ link = "up" /\ faults < MaxFaults /\ pc \notin {"connect", "exit", "undefined"}
    /\ link' = "lost" /\ faults' = faults + 1
    /\ db' = [db EXCEPT !.work = db.table] /\ open' = 0
    /\ UNCHANGED <<pc, main, load, api, before, out, report>>

AutoCommit(on) == auto' = IF link = "up" THEN on ELSE auto

(* IsValidOption: what a command must be given, and terminators that       *)
(* differ.  A command with -split for "in", or an array of no rows, is     *)
(* refused too.                                                            *)
ValidTermString(t) == t.ft # t.rt /\ (t.en # <<>> => t.en \notin {t.ft, t.rt})
IsValidOption(c) ==
    CASE c.op = "in"  -> {"f", "d"} \subseteq c.given /\ ValidTermString(c.terms) /\ "split" \notin c.given
      [] c.op = "out" -> {"f", "d"} \subseteq c.given /\ ValidTermString(c.terms)
      [] OTHER        -> {"f", "T"} \subseteq c.given

(* At the prompt the command is left; on the command line iloader ends     *)
(* (TestCommandLineOption, where it would not even have connected).        *)
Invalid(c) ==
    /\ pc = "prompt" /\ ~IsValidOption(c)
    /\ count' = count + 1 /\ cmd' = c
    /\ Prompt
    /\ UNCHANGED <<inter, load, api, server, faults, out, report>>

-----------------------------------------------------------------------------
(* LoadwithPrepare. *)

(* GetTableInfo makes the array count 1 when there is no -array. *)
ArrayCount == IF cmd.array = 0 THEN 1 ELSE cmd.array

(* AutoCommit, then alterReplication, in front of the load. *)
DataIn(c) ==
    /\ pc = "prompt" /\ c.op = "in" /\ IsValidOption(c)
    /\ cmd' = c /\ count' = count + 1
    /\ AutoCommit(c.commit = 0)
    /\ before' = db.table
    /\ report' = [load |-> 0, err |-> 0]
    /\ Goto("open")
    /\ UNCHANGED <<inter, load, stmt, text, form, db, open, link, faults, out>>

(* The form is read and parsed; here one that cannot be has no columns. *)
GetTableTree(form_) == form_.types # <<>>

(* The form, the data file, the log or the bad file cannot be opened, or   *)
(* the rows cannot be deleted.  The memory of the attributes stays.        *)
CannotLoad ==
    /\ pc = "open"
    /\ \/ ~GetTableTree(cmd.form) \/ cmd.file \notin DOMAIN Files
       \/ cmd.mode = "REPLACE" /\ link = "lost"
    /\ text' = IF GetTableTree(cmd.form) /\ cmd.file \in DOMAIN Files THEN "delete" ELSE text
    /\ Goto("loaded")
    /\ UNCHANGED <<main, load, stmt, auto, form, server, faults, out, report>>

Undone == [db EXCEPT !.work = db.table]
Kept   == [db EXCEPT !.table = db.work]
Done(work) == [table |-> IF auto THEN work ELSE db.table, work |-> work]

(* BindParameter: only an array sets the attributes of arrays. *)
BindParameter ==
    IF ArrayCount > 1 THEN [stmt EXCEPT !.paramset = ArrayCount, !.status = "live"] ELSE stmt

(* Columns no parameter is bound for: their value comes from a sequence,   *)
(* is left out, or is the timestamp of the statement.                      *)
Sequenced(i) == \E k \in DOMAIN cmd.form.seqs : cmd.form.seqs[k] = i
Unbound(i)   == Sequenced(i) \/ i \in cmd.form.skip \/ Stamp(cmd.form, i)

(* seqColChk and seqDupChk: each sequence of the form has a column of its  *)
(* own.                                                                    *)
SeqColChk == \A k \in DOMAIN cmd.form.seqs : cmd.form.seqs[k] \in DOMAIN cmd.form.types
SeqDupChk == IsInjective(cmd.form.seqs)

(* The text of the INSERT stays unmade when the sequences of the form do   *)
(* not fit its columns: the statement before it is prepared again.         *)
MakePrepareSQLStatement(before_) == IF SeqColChk /\ SeqDupChk THEN "insert" ELSE before_

AllocTableAttr ==
    /\ slots'  = [i \in 1..ArrayCount |-> Garbage(cmd.form)]
    /\ status' = [i \in 1..ArrayCount |-> "garbage"]

FreeTableAttr == [stmt EXCEPT !.status = IF @ = "live" THEN "freed" ELSE @]

(* ExecuteDeleteStmt, with -mode replace. *)
Emptied == IF cmd.mode = "REPLACE" THEN Done(<<>>) ELSE db

(* That MakePrepareSQLStatement, Prepare and BindParameter may fail is not *)
(* looked at.                                                              *)
OpenLoad ==
    /\ pc = "open" /\ GetTableTree(cmd.form) /\ cmd.file \in DOMAIN Files
    /\ cmd.mode = "REPLACE" => link = "up"
    /\ data' = Tokens(Files[cmd.file], cmd.terms)
    /\ db'   = Emptied
    /\ text' = MakePrepareSQLStatement(IF cmd.mode = "REPLACE" THEN "delete" ELSE text)
    /\ stmt' = [BindParameter EXCEPT !.sql = IF link = "up" THEN text' ELSE "none"]
    /\ ld'   = [ix |-> 1, pos |-> 1, real |-> 0, total |-> 0, err |-> 0, nload |-> 1, ret |-> 1]
    /\ AllocTableAttr
    /\ bad' = <<>>
    /\ Goto("load")
    /\ UNCHANGED <<main, auto, form, open, before, link, faults, out, report>>

(* The slot the next record goes to. *)
Reused(l) == IF l.real = ArrayCount THEN 0 ELSE l.real

(* A full array, the end of the file or the last row asked for. *)
BatchDue(l) == l.real = ArrayCount \/ l.ret = 2 \/ l.ix = cmd.last

(* The top of the loop, up to the place where a batch is executed.  ix is  *)
(* the number of the record in hand (the source counts it up at the end).  *)
(* A value longer than its slot is written over what lies behind it.       *)
ReadRecord ==
    /\ pc = "load" /\ ld.ret # 2
    /\ LET k == Reused(ld)
           r == ReadOneRecord(data, ld.pos, slots[k + 1], cmd.form, cmd.informix)
           l == [ld EXCEPT !.pos = r.pos, !.real = k, !.ret = r.ret]
           next   == [l EXCEPT !.ix = @ + 1]
           parsed == [l EXCEPT !.real = @ + 1, !.total = IF r.ret # 2 THEN @ + 1 ELSE @]
       IN  /\ slots' = [slots EXCEPT ![k + 1] = r.slot]
           /\ \/ /\ ~r.fits
                 /\ Goto("undefined") /\ UNCHANGED <<ld, bad>>
              \/ /\ r.fits /\ r.ret = 2 /\ k = 0
                 /\ ld' = next /\ UNCHANGED <<pc, bad>>
              \/ /\ r.fits /\ ~(r.ret = 2 /\ k = 0) /\ ld.ix < cmd.first
                 /\ ld' = [next EXCEPT !.real = 0] /\ UNCHANGED <<pc, bad>>
              \/ /\ r.fits /\ ~(r.ret = 2 /\ k = 0) /\ ld.ix > cmd.last
                 /\ ld' = l /\ Goto("done") /\ UNCHANGED bad
              \/ /\ r.fits /\ r.ret = 0 /\ ld.ix \in cmd.first..cmd.last
                 /\ ld' = [next EXCEPT !.total = @ + 1, !.err = @ + 1]
                 /\ bad' = Append(bad, Printed(r.slot, cmd.form)) /\ UNCHANGED pc
              \/ /\ r.fits /\ r.ret # 0 /\ ~(r.ret = 2 /\ k = 0) /\ ld.ix \in cmd.first..cmd.last
                 /\ ld' = parsed /\ UNCHANGED bad
                 /\ Goto(IF BatchDue(parsed) THEN "execute" ELSE "commit")
    /\ UNCHANGED <<main, data, status, api, server, faults, out, report>>

(* Defects: at the end of the file the record that is none is counted; at  *)
(* the last row asked for the row itself is not.                           *)
ParamsetAtEnd == IF ld.ret = 2 THEN ld.real ELSE IF ld.ix = cmd.last THEN ld.real ELSE stmt.paramset

ParamsetShort == IF ld.ret = 2 \/ ld.ix = cmd.last THEN ld.real - 1 ELSE stmt.paramset

(* SQL_ATTR_PARAMSET_SIZE of this execution: the end of the file took a    *)
(* slot without a record.                                                  *)
Paramset == IF ld.ret = 2 THEN ld.real - 1 ELSE IF ld.ix = cmd.last THEN ld.real ELSE stmt.paramset

(* What the table gets of a slot. *)
Row(slot)  == [i \in DOMAIN slot.vals |-> IF Unbound(i) THEN <<"n">> ELSE slot.vals[i]]
Fits(slot) == \A i \in DOMAIN slot.vals : Unbound(i) \/ slot.vals[i] # Refused

(* What Execute does on the server with n parameter sets. *)
Inserted(n) == SelectSeq(SubSeq(slots, 1, n), Fits)
Rows(n)     == [k \in DOMAIN Inserted(n) |-> Row(Inserted(n)[k])]
Effect(n) ==
    IF link = "lost" THEN db
    ELSE CASE stmt.sql = "insert" -> Done(db.work \o Rows(n))
           [] stmt.sql = "delete" -> Done(<<>>)
           [] OTHER -> db
Executed(n) ==
    /\ link = "up" /\ stmt.sql # "none"
    /\ stmt.sql = "insert" => \A i \in 1..n : Fits(slots[i])

(* The statuses an execution leaves: a driver that cannot reach the server *)
(* may or may not write them.                                              *)
Statuses(n) ==
    LET said == [i \in DOMAIN status |->
                   IF i > n THEN status[i]
                   ELSE IF link = "up" /\ stmt.sql # "none" /\ Fits(slots[i]) THEN "ok" ELSE "error"]
    IN  IF link = "up" /\ stmt.sql # "none" THEN {said} ELSE {said, status}

(* The statuses looked at after an array execution failed. *)
LookedAt == IF ld.ret = 2 THEN ld.real - 1 ELSE ArrayCount

(* The failed rows of an array, where memory never written may say either. *)
FailedSets(st) ==
    LET seen == 1..LookedAt
        must == {i \in seen : st[i] \notin {"ok", "garbage"}}
    IN  {must \cup S : S \in SUBSET {i \in seen : st[i] = "garbage"}}

(* The rows of the array a failed execution writes to the bad file. *)
PrintedAll(S) == [k \in 1..Cardinality(S) |->
                    Printed(slots[CHOOSE i \in S : Cardinality({h \in S : h < i}) = k - 1], cmd.form)]

(* An execution over memory that is freed, or that is no part of the       *)
(* arrays: the attributes of an earlier load are still those of stmt.      *)
Dangling == Paramset > ArrayCount \/ stmt.status = "freed"

Counted == [ld EXCEPT !.ix = @ + 1]

(* Execute and the reading of its errors.  None of the three codes that    *)
(* would stop the load is ever seen, for SQLError always gives 0.          *)
ExecuteBatch ==
    /\ pc = "execute"
    /\ stmt' = [stmt EXCEPT !.paramset = Paramset]
    /\ IF Dangling
       THEN Goto("undefined") /\ UNCHANGED <<ld, status, bad, db, open>>
       ELSE /\ db' = Effect(Paramset)
            /\ open' = IF auto \/ stmt.sql # "insert" THEN open ELSE open + Len(db'.work) - Len(db.work)
            /\ status' \in Statuses(Paramset)
            /\ \/ /\ Executed(Paramset) /\ UNCHANGED bad
                  /\ ld' = IF ld.ret = 2 THEN Counted ELSE ld
                  /\ Goto(IF ld.ret = 2 THEN "load" ELSE "commit")
               \/ /\ ~Executed(Paramset) /\ ArrayCount = 1
                  /\ ld' = [Counted EXCEPT !.err = @ + 1]
                  /\ bad' = Append(bad, Printed(slots[ld.real], cmd.form))
                  /\ Goto("load")
               \/ /\ ~Executed(Paramset) /\ ArrayCount > 1
                  /\ \E S \in FailedSets(status') :
                        /\ bad' = bad \o PrintedAll(S)
                        /\ ld' = [(IF ld.ret = 2 THEN Counted ELSE ld) EXCEPT !.err = @ + Cardinality(S)]
                  /\ Goto(IF ld.ret = 2 THEN "load" ELSE "commit")
    /\ UNCHANGED <<main, data, slots, text, auto, form, before, link, faults, out, report>>

(* Defect: the unit is counted once. *)
CommitDueOnce == cmd.commit > 0 /\ ld.nload = cmd.commit

(* A unit is full: records read into the array count with those executed. *)
CommitDue == cmd.commit > 0 /\ ld.nload % cmd.commit = 0

(* EndTran: a commit that fails is followed by a rollback. *)
Committed   == link = "up" /\ db' = Kept /\ open' = 0 /\ UNCHANGED faults
NotCommitted ==
    /\ \/ link = "lost" /\ UNCHANGED faults
       \/ link = "up" /\ faults < MaxFaults /\ faults' = faults + 1
    /\ db' = Undone /\ open' = 0

CommitRecord ==
    /\ pc = "commit"
    /\ Goto("load")
    /\ \/ /\ ~CommitDue
          /\ ld' = [Counted EXCEPT !.nload = @ + 1] /\ UNCHANGED <<bad, db, open, faults>>
       \/ /\ CommitDue /\ Committed
          /\ ld' = [Counted EXCEPT !.nload = @ + 1] /\ UNCHANGED bad
       \/ /\ CommitDue /\ NotCommitted
          /\ ld' = [Counted EXCEPT !.err = @ + cmd.commit]
          /\ bad' = IF cmd.commit = 1 THEN Append(bad, Printed(slots[ld.real], cmd.form)) ELSE bad
    /\ UNCHANGED <<main, data, slots, status, api, before, link, out, report>>

(* FreeTableAttr, the last commit and the counts. *)
FinishLoad ==
    /\ pc = "done" \/ (pc = "load" /\ ld.ret = 2)
    /\ stmt' = FreeTableAttr
    /\ LET rest == IF cmd.commit > 0 THEN (ld.nload - 1) % cmd.commit ELSE 0
           Report(err) == report' = [load |-> ld.total - err, err |-> err]
       IN  \/ rest = 0 /\ Report(ld.err) /\ UNCHANGED <<db, open, faults>>
           \/ rest > 0 /\ Committed /\ Report(ld.err)
           \/ rest > 0 /\ NotCommitted /\ Report(ld.err + rest)
    /\ Goto("loaded")
    /\ UNCHANGED <<main, load, text, auto, form, before, link, out>>

(* main behind LoadwithPrepare: AutoCommit(true) commits what is open. *)
EndDataIn ==
    /\ pc = "loaded"
    /\ IF cmd.commit > 0 THEN AutoCommit(TRUE) ELSE UNCHANGED auto
    /\ IF cmd.commit > 0 /\ link = "up" THEN db' = Kept /\ open' = 0 ELSE UNCHANGED <<db, open>>
    /\ Prompt
    /\ UNCHANGED <<main, load, stmt, text, form, before, link, faults, out, report>>

-----------------------------------------------------------------------------
(* DownLoad. *)

(* The columns of the table have types SelectExecute knows, and as many as *)
(* the form (CompareAttrType).                                             *)
SelectExecute   == link = "up" /\ cmd'.types \subseteq {"char", "timestamp"}
CompareAttrType == \A k \in DOMAIN db.work : Len(db.work[k]) = Len(cmd'.form.types)

(* The rows of the SELECT: its text ends with the condition of the form.   *)
GetQueryString(c) == IF c.where THEN SelectSeq(db.work, LAMBDA row : row[1] # Null) ELSE db.work

DataOut(c) ==
    /\ pc = "prompt" /\ c.op = "out" /\ IsValidOption(c)
    /\ cmd' = c /\ count' = count + 1
    /\ text' = "select" /\ stmt' = [stmt EXCEPT !.sql = "none"]
    /\ out' = [NoOut EXCEPT !.informix = c.informix, !.split = c.split, !.max = stmt.max]
    /\ IF GetTableTree(c.form) /\ SelectExecute /\ CompareAttrType THEN Goto("openout") ELSE Prompt
    /\ UNCHANGED <<inter, load, auto, form, server, faults, report>>

(* The data file, or the next one of a split download.  When it cannot be  *)
(* opened the download is over, without its total.                         *)
OpenOut ==
    /\ pc = "openout"
    /\ \/ /\ out' = [out EXCEPT !.files = Append(@, <<>>)]
          /\ Goto("fetch") /\ UNCHANGED faults
       \/ /\ faults < MaxFaults /\ faults' = faults + 1
          /\ out' = [out EXCEPT !.failed = TRUE] /\ Prompt
    /\ UNCHANGED <<main, load, api, server, report>>

SplitDue(i) == cmd.split > 0 /\ i % cmd.split = 0

(* SQL_ATTR_MAX_ROWS cuts the rows when the statement is executed: what an *)
(* earlier download set is still there.                                    *)
UpTo(n, rows) == IF n = 0 \/ Len(rows) <= n THEN rows ELSE SubSeq(rows, 1, n)
Selected      == UpTo(out.max, GetQueryString(cmd))

(* An error is the end of the data.  The limit is set in front of each     *)
(* fetch, too late for this SELECT.                                        *)
Fetch   == link = "up" /\ out.at < Len(Selected)
Limited == stmt' = [stmt EXCEPT !.max = MaxRows]

(* The file in hand, when chars are added to it or when it is closed (with *)
(* none).  It is written from a buffer: a write that fails loses the       *)
(* buffer or a part of it, and nobody looks at what fprintf and fclose     *)
(* return.                                                                 *)
Written(chars) ==
    LET f     == Len(out.files)
        whole == out.files[f] \o chars
        part  == {<<>>, out.files[f], Cut(whole, 1)} \ {whole}
    IN  {[file |-> whole, failed |-> 0]} \cup
        (IF faults < MaxFaults /\ whole # <<>> THEN {[file |-> p, failed |-> 1] : p \in part} ELSE {})
Keep(o, w) == [o EXCEPT !.files[Len(o.files)] = w.file, !.lost = @ \/ w.failed = 1]

FetchRow ==
    /\ pc = "fetch" /\ Fetch
    /\ LET i   == out.at + 1
           row == Selected[i]
       IN  /\ \E w \in Written(PrintOneRecord(row, cmd.terms, cmd.informix)) :
                 /\ out' = Keep([out EXCEPT !.at = i, !.rows = Append(@, row)], w)
                 /\ faults' = faults + w.failed
           /\ Goto(IF SplitDue(i) THEN "openout" ELSE "fetch")
    /\ Limited
    /\ UNCHANGED <<main, load, text, auto, form, server, report>>

EndDataOut ==
    /\ pc = "fetch" /\ ~Fetch
    /\ \E w \in Written(<<>>) : out' = Keep(out, w) /\ faults' = faults + w.failed
    /\ Limited
    /\ Prompt
    /\ UNCHANGED <<main, load, text, auto, form, server, report>>

-----------------------------------------------------------------------------
(* FormDown and FormDownAsStruct: Columns, OpenFormFile, the columns one   *)
(* by one up to a type that is not known, CloseFormFile.  A file that      *)
(* cannot be opened leaves none; when Columns fails CloseFormFile closes   *)
(* what an earlier command has closed.                                     *)
Columns == link = "up"
WriteColumns(types)         == IF types \subseteq {"char", "timestamp"} THEN "closed" ELSE "partly"
WriteColumnsAsStruct(types) == IF types \subseteq {"char"} THEN "closed" ELSE "partly"

FormOut(c) ==
    /\ pc = "prompt" /\ c.op \in {"formout", "structout"} /\ IsValidOption(c)
    /\ cmd' = c /\ count' = count + 1
    /\ \/ /\ Columns /\ Prompt
          /\ form' \in {"none", IF c.op = "formout" THEN WriteColumns(c.types) ELSE WriteColumnsAsStruct(c.types)}
       \/ ~Columns /\ form # "none" /\ Goto("undefined") /\ UNCHANGED form
       \/ ~Columns /\ form = "none" /\ Prompt /\ UNCHANGED form
    /\ UNCHANGED <<inter, load, stmt, text, auto, server, faults, out, report>>

(* The statement, the connection and the environment are given back. *)
Close == stmt' = [stmt EXCEPT !.sql = "none"] /\ link' = "closed"

Exit == /\ pc = "prompt" /\ (inter \/ count > 0)
        /\ Goto("exit") /\ Close
        /\ UNCHANGED <<main, load, text, auto, form, db, open, before, faults, out, report>>

Command ==
    \E c \in IF count = 0 THEN First ELSE IF inter /\ count < MaxCommands THEN Later ELSE {} :
        DataIn(c) \/ DataOut(c) \/ FormOut(c) \/ Invalid(c)

Next == \/ Connect \/ Lose \/ Command \/ CannotLoad \/ OpenLoad \/ ReadRecord \/ ExecuteBatch
        \/ CommitRecord \/ FinishLoad \/ EndDataIn \/ OpenOut \/ FetchRow \/ EndDataOut \/ Exit

Spec == Init /\ [][Next]_vars

-----------------------------------------------------------------------------
(***************************************************************************)
(* Properties.                                                             *)
(***************************************************************************)
Places == {"connect", "prompt", "open", "load", "execute", "commit", "done", "loaded",
           "openout", "fetch", "exit", "undefined"}

(* The slots in use are those of the arrays, the counts are numbers of     *)
(* records, and what an execution goes through lies in the arrays, unless  *)
(* the statement was left as an array load needs it.                       *)
TypeOK ==
    /\ pc \in Places /\ count \in 0..MaxCommands /\ faults \in 0..MaxFaults
    /\ ld.real \in 0..Len(slots) /\ Len(status) = Len(slots)
    /\ ld.err \in Nat /\ ld.nload \in 1..(ld.total + 1) /\ ld.ix \in Nat
    /\ pc = "execute" => Paramset \in 1..(IF stmt.status = "freed" THEN stmt.paramset ELSE ArrayCount)
    /\ stmt.status \in {"none", "live", "freed"} /\ form \in {"none", "closed", "partly"}
    /\ open \in Nat /\ out.at = Len(out.rows)

(* The lines of a file and the fields of a line, read without the loader,  *)
(* where the terminators are single characters and nothing is enclosed.    *)
Pieces(s, c) ==
    LET ends == {k \in DOMAIN s : s[k] = c}
        nth(j) == CHOOSE e \in ends : Cardinality({d \in ends : d < e}) = j - 1
        from(j) == IF j = 1 THEN 1 ELSE nth(j - 1) + 1
    IN  [j \in 1..(Cardinality(ends) + 1) |->
            SubSeq(s, from(j), IF j > Cardinality(ends) THEN Len(s) ELSE nth(j) - 1)]
AllLines(f) == LET p == Pieces(SelectSeq(f, LAMBDA c : c # CR), cmd.terms.rt[1])
               IN  IF p[Len(p)] = <<>> THEN SubSeq(p, 1, Len(p) - 1) ELSE p
Fields(line) == Pieces(line, cmd.terms.ft[1])

(* The lines a load comes to: a field that is too long, its terminator     *)
(* counted, ends the file for it.                                          *)
TooLong(line) == \E j \in DOMAIN Fields(line) : Len(Fields(line)[j]) + 1 >= MaxToken
Lines(f) == LET long == {k \in DOMAIN AllLines(f) : TooLong(AllLines(f)[k])}
            IN  IF long = {} THEN AllLines(f)
                ELSE SubSeq(AllLines(f), 1, (CHOOSE k \in long : \A h \in long : k <= h) - 1)

(* Files every reader agrees about: no line has a field too many, the last *)
(* line does not stop behind a field terminator, and no carriage return    *)
(* follows another.                                                        *)
Width    == Len(cmd.form.types)
Plain(f)   == /\ \A k \in DOMAIN AllLines(f) : Len(Fields(AllLines(f)[k])) <= Width
              /\ f = <<>> \/ f[Len(f)] # cmd.terms.ft[1]
              /\ \A k \in 1..(Len(f) - 1) : f[k] # CR \/ f[k + 1] # CR
WellFormed(line) == Len(Fields(line)) = Width
EndOfRow(f) == f[Len(f)] = cmd.terms.rt[1]
Good(line) == WellFormed(line) /\ Refused \notin {Fields(line)[j] : j \in DOMAIN Fields(line)}

Chosen(f)   == SubSeq(Lines(f), cmd.first, IF cmd.last > Len(Lines(f)) THEN Len(Lines(f)) ELSE cmd.last)
Expected(f) == LET g == SelectSeq(Chosen(f), Good) IN [k \in DOMAIN g |-> Fields(g[k])]
AllGood(f)  == Expected(f) = [k \in DOMAIN Chosen(f) |-> Fields(Chosen(f)[k])]

(* A load the property speaks of; the comment at LoadIsTrue names the rest. *)
ForFaithfulLoad(f) ==
    /\ IsValidOption(cmd) /\ faults = 0 /\ GetTableTree(cmd.form)
    /\ SeqColChk /\ ~cmd.informix /\ cmd.terms.en = <<>> /\ Len(cmd.terms.ft) = 1
    /\ \A i \in DOMAIN cmd.form.types : ~Unbound(i)
    /\ Plain(f)
    /\ ArrayCount = 1 \/ cmd.last > Len(Lines(f)) \/ AllGood(f)

(* A load without a fault puts the good lines asked for into the table, in *)
(* their order, and no others, behind the rows that were there or instead  *)
(* of them; its counts say so, and the bad file has an entry for each line *)
(* that failed, the whole of it when the server refused it.  It holds with *)
(* every array, unit and choice of lines, except: -L under -array with a   *)
(* bad line among those chosen (rows of the last, partial array are lost,  *)
(* or rows that are none are counted as errors), a form whose sequences do *)
(* not fit, a file two readers would not agree about, a value that does    *)
(* not fit its slot.  A field of MAX_TOKEN_VALUE_LEN characters ends the   *)
(* load as the end of the file does: its line and the good lines behind it *)
(* are neither loaded nor counted (err_token_overflow).  When the prompt   *)
(* is back all of it is committed.                                         *)
LoadIsTrue ==
    LET f == Files[cmd.file] IN
    /\ (cmd.op = "in" /\ pc \in {"loaded", "prompt"} /\ cmd.file \in DOMAIN Files /\ ForFaithfulLoad(f)) =>
           /\ db.work = (IF cmd.mode = "REPLACE" THEN <<>> ELSE before) \o Expected(f)
           /\ report.load = Len(Expected(f)) /\ report.err = Len(Chosen(f)) - report.load
           /\ Len(bad) = report.err
           /\ \A k \in DOMAIN Chosen(f) :
                 (WellFormed(Chosen(f)[k]) /\ ~Good(Chosen(f)[k]) /\ EndOfRow(f)) =>
                     \E j \in DOMAIN bad : bad[j] = Fields(Chosen(f)[k])
    /\ (pc = "prompt" /\ link = "up") => (auto /\ open = 0 /\ db.table = db.work)

(* With -commit n no more rows are ever uncommitted than n and what the    *)
(* array may hold back, whatever fails: the loader counts records read,    *)
(* not rows inserted.                                                      *)
CommitBound == (cmd.op = "in" /\ pc # "undefined" /\ cmd.commit > 0) => open <= cmd.commit + ArrayCount - 1

(* The places where one of the terms ends in v and the term behind it.     *)
Ends(v, terms) == {<<k, term>> \in (1..Len(v)) \X terms : Len(term) <= k /\ SubSeq(v, k - Len(term) + 1, k) = term}
Clear(v, term, terms) == Ends(v \o term, terms) = {<<Len(v) + Len(term), term>>}

(* Terminators that a reader cannot mistake for one another, and which     *)
(* enclosing characters do not begin like; several enclosing characters    *)
(* must all differ, for GetToken does not look back for them.              *)
Separate(t) ==
    LET terms == {t.ft, t.rt}
    IN  /\ Clear(<<>>, t.ft, terms) /\ Clear(<<>>, t.rt, terms)
        /\ t.en # <<>> => IsInjective(t.en) /\ t.en[1] \notin {t.ft[1], t.rt[1]}
        /\ CR \notin Range(t.ft) \cup Range(t.rt) \cup Range(t.en)

(* Values a download can write.  In the value with what is printed behind  *)
(* it the terminators are found once, at its end: a value must not even    *)
(* end like the terminator begins, when it may begin in two places (| in   *)
(* front of ||).  No value has a carriage return, which GetToken leaves    *)
(* out, is too long, or is empty between several enclosing characters.     *)
Writable(row) ==
    LET t == cmd.terms
        Behind(i) == IF t.en # <<>> THEN t.en ELSE IF i < Len(row) \/ cmd.informix THEN t.ft ELSE t.rt
    IN  \A i \in DOMAIN row :
            /\ Clear(row[i], Behind(i), IF t.en = <<>> THEN {t.ft, t.rt} ELSE {t.en})
            /\ CR \notin Range(row[i])
            /\ Len(row[i]) < MaxValue /\ Len(row[i]) + Len(Behind(i)) < MaxToken
            /\ Len(t.en) > 1 => row[i] # Null

(* What a download wrote is read back by a load with the same options as   *)
(* the rows that were fetched, and these are the rows of the table the     *)
(* form asks for; its files hold -split rows each, but for the last one.   *)
(* It holds for terminators and values that can be told apart, and while   *)
(* no write of a file fails, which the download does not notice.  All rows *)
(* are fetched by the first command of a session; once Fetch has set its   *)
(* limit, a later download may stop behind the first MaxRows.              *)
WrittenReadsBack ==
    (/\ cmd.op = "out" /\ pc \in {"prompt", "exit"} /\ out.files # <<>> /\ ~out.lost
     /\ Separate(cmd.terms) /\ \A k \in DOMAIN out.rows : Writable(out.rows[k])) =>
        LET Read(k) == ReadAll(out.files[k], cmd.terms, cmd.form, out.informix)
            all     == FoldLeft(LAMBDA got, f : got \o ReadAll(f, cmd.terms, cmd.form, out.informix), <<>>, out.files)
        IN  /\ Len(all) = Len(out.rows)
            /\ \A k \in DOMAIN all : all[k].slot.vals = out.rows[k]
            /\ \A k \in DOMAIN all : all[k].ret = 1
            /\ out.split > 0 => /\ \A k \in 1..(Len(out.files) - 1) : Len(Read(k)) = out.split
                                /\ Len(Read(Len(out.files))) <= out.split
            /\ faults = 0 => /\ out.rows \in {GetQueryString(cmd), UpTo(MaxRows, GetQueryString(cmd))}
                             /\ count = 1 => out.rows = GetQueryString(cmd)
=============================================================================
