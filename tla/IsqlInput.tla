------------------------------ MODULE IsqlInput ------------------------------
(***************************************************************************)
(* Where isql takes its commands from (psql/src/iSQLCompiler.cpp and       *)
(* iSQLPreLexer.l): a stack of script files over standard input, and the   *)
(* history of the commands typed (iSQLCommandQueue.cpp).  Both are plain   *)
(* values here: "in" is the state of the input, "his" that of the history, *)
(* and an operator maps a state to the next one.                           *)
(*                                                                         *)
(* A script is a record [name, rest, tail, nl]: the commands still to be   *)
(* read, whether the text ends in a command that is not terminated, and    *)
(* whether the last line ends with a newline.                              *)
(***************************************************************************)
EXTENDS Integers, Sequences, SequencesExt

CONSTANTS Slots,        \* COM_QUEUE_SIZE, 21 in the code
          Stdin,        \* the name of standard input
          NoCommand     \* an entry of the history that holds nothing

ASSUME SlotsAssumption == Slots \in Nat /\ Slots > 2

Script(name, cmds, tail, nl) == [name |-> name, rest |-> cmds, tail |-> tail, nl |-> nl]

(***************************************************************************)
(* m_flist is in.list, its head first.                                     *)
(***************************************************************************)
NewInput == [list |-> <<>>, eof |-> FALSE, fileRead |-> FALSE, text |-> FALSE,
             inLoad |-> FALSE, inEdit |-> FALSE, glogin |-> FALSE, login |-> FALSE]

RegStdin(in) == [in EXCEPT !.list = <<Script(Stdin, <<>>, FALSE, TRUE)>> \o @]

SetScriptFile(in, script) == [in EXCEPT !.list = <<script>> \o @, !.fileRead = TRUE]

(* The end of the file on top, or of a LOAD: -f has no standard input to   *)
(* come back to.                                                           *)
ResetInputKeepsMode(in, isInFile) ==   \* defect: the mode follows -f only
    LET rest == Tail(in.list)
    IN  [in EXCEPT !.list = rest, !.fileRead = IF rest = <<>> THEN FALSE ELSE @]

ResetInput(in, isInFile) ==
    LET rest == Tail(in.list)
    IN  [in EXCEPT !.list = rest,
                   !.fileRead = IF rest = <<>> \/ (~isInFile /\ Len(rest) = 1)
                                THEN FALSE ELSE @]

Top(in) == in.list[1]

AtStdin(in) == in.list # <<>> /\ Top(in).name = Stdin

(***************************************************************************)
(* iSQLPreLexer_input.  The first end of file after a logon ends           *)
(* glogin.sql, the second one login.sql.                                   *)
(***************************************************************************)
EndOfFile(in) == [in EXCEPT !.eof = TRUE,
                            !.glogin = FALSE,
                            !.login = IF in.glogin THEN @ ELSE FALSE]

Exhausted(in) == in.list # <<>> /\ ~in.eof /\ Top(in).rest = <<>>

(* Text that no ";" ended is left in the buffer of the lexer.              *)
ReadEnd(in) == [EndOfFile(in) EXCEPT !.text = Top(in).tail]

(* A last line without a newline is read together with the end of file.    *)
ReadCommand(in) ==
    LET t    == Top(in)
        next == [in EXCEPT !.list[1].rest = Tail(@)]
    IN  IF Len(t.rest) = 1 /\ ~t.tail /\ ~t.nl THEN EndOfFile(next) ELSE next

(* The next input after the end of a file.  Unterminated text ends a LOAD  *)
(* or an EDIT, and the lexer returns; otherwise an empty stack ends isql.  *)
AbortsLoad(in) == in.text /\ (in.inLoad \/ in.inEdit)
AfterEnd(in, isInFile) ==
    LET popped == [ResetInput(in, isInFile) EXCEPT !.eof = FALSE, !.text = FALSE]
    IN  IF AbortsLoad(in) THEN [popped EXCEPT !.inLoad = FALSE, !.inEdit = FALSE] ELSE popped

(***************************************************************************)
(* gExecuteLogin and gExecuteGlogin: "scripts" holds what can be opened.   *)
(* Without ALTIBASE_HOME glogin.sql counts as run, and nothing is pushed.  *)
(***************************************************************************)
gExecuteLogin(in, scripts) ==
    IF "login" \in DOMAIN scripts
    THEN [SetScriptFile(in, scripts["login"]) EXCEPT !.login = TRUE]
    ELSE [in EXCEPT !.login = FALSE]

gExecuteGlogin(in, scripts, home) ==
    IF ~home THEN [in EXCEPT !.glogin = TRUE]
    ELSE IF "glogin" \in DOMAIN scripts
    THEN [SetScriptFile(in, scripts["glogin"]) EXCEPT !.glogin = TRUE]
    ELSE [in EXCEPT !.glogin = FALSE]

ExecuteLoginScripts(in, scripts, home) == gExecuteGlogin(gExecuteLogin(in, scripts), scripts, home)

(***************************************************************************)
(* The history: a ring of Slots - 1 commands, entry 0 is never used.       *)
(***************************************************************************)
NewHistory == [queue |-> [i \in 1 .. Slots - 1 |-> NoCommand], cur |-> -1, max |-> 0]

PreviousAtOne(his) ==   \* defect: entry 1 takes itself for the one before
    IF his.cur = 1 THEN 1 ELSE his.cur - 1

Previous(his) == IF his.cur = 1 THEN Slots - 1 ELSE his.cur - 1

AddCommand(his, cmd) ==
    LET cur == IF his.cur = -1 THEN 1 ELSE his.cur
    IN  IF his.cur # -1 /\ his.queue[Previous(his)] = cmd THEN his
        ELSE [queue |-> [his.queue EXCEPT ![cur] = cmd],
              cur   |-> IF cur = Slots - 1 THEN 1 ELSE cur + 1,
              max   |-> his.max + 1]

CheckHisNum(his, n) == his.cur # -1 /\ n >= 0 /\ n <= Slots - 1

HasCommand(his, n) == CheckHisNum(his, n) /\ n <= his.max

GetCommand(his, n) == IF n = 0 THEN his.queue[Previous(his)] ELSE his.queue[n]

(* What HISTORY prints, as the numbers of the entries, the oldest first    *)
(* when the ring is full; from entry 1 when the next one is the last.      *)
DisplayHistory(his) ==
    LET first == IF his.cur = Slots - 1 THEN 1 ELSE his.cur
        turn  == [k \in 1 .. Slots - 1 |-> ((first + k - 2) % (Slots - 1)) + 1]
    IN  IF his.cur = -1 THEN <<>>
        ELSE SelectSeq(turn, LAMBDA n : his.max >= n \/ his.max > Slots - 1)
=============================================================================
