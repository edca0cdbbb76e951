------------------------ MODULE AltibaseHandlerProofs ------------------------
(***************************************************************************)
(* Whose answer a laborer takes: OwnAnswer of AltibaseHandler for every    *)
(* number of laborers, commands and ends of isql.                          *)
(***************************************************************************)
EXTENDS AltibaseHandler, SequenceTheorems, TLAPS

(* What reading and writing a line do to the lines still to be read. *)
LEMMA Reading ==
    ASSUME NEW S, NEW s \in Seq(S), NEW t \in Seq(S), s # <<>>
    PROVE  /\ s \o t # <<>> /\ Tail(s) \o t = Tail(s \o t) /\ Head(s) = (s \o t)[1] /\ Head(s) \in S
           /\ Tail(s) \in Seq(S)
  <1>1. Len(s) \in Nat /\ Len(s) > 0 /\ Len(t) \in Nat
    OBVIOUS
  <1>2. Tail(s) \in Seq(S) /\ Len(Tail(s)) = Len(s) - 1 /\ \A k \in 1..(Len(s) - 1) : Tail(s)[k] = s[k + 1]
    BY <1>1
  <1>3. /\ s \o t \in Seq(S) /\ Len(s \o t) = Len(s) + Len(t)
        /\ \A k \in 1..(Len(s) + Len(t)) : (s \o t)[k] = IF k <= Len(s) THEN s[k] ELSE t[k - Len(s)]
    OBVIOUS
  <1>4. s \o t # <<>> /\ Head(s) = (s \o t)[1]
    BY <1>1, <1>3
  <1>5. Head(s) \in S
    OBVIOUS
  <1> DEFINE a == Tail(s) \o t
             b == Tail(s \o t)
  <1>6. /\ b \in Seq(S) /\ Len(b) = Len(s) + Len(t) - 1
        /\ \A k \in 1..(Len(s) + Len(t) - 1) : b[k] = (s \o t)[k + 1]
    BY <1>1, <1>3, <1>4
  <1>7. /\ a \in Seq(S) /\ Len(a) = Len(s) + Len(t) - 1
        /\ \A k \in 1..(Len(s) + Len(t) - 1) : a[k] = IF k <= Len(s) - 1 THEN Tail(s)[k] ELSE t[k - (Len(s) - 1)]
    BY <1>1, <1>2
  <1> HIDE DEF a, b
  <1>8. ASSUME NEW k \in 1..(Len(s) + Len(t) - 1)
        PROVE  a[k] = b[k]
    <2>1. k + 1 \in 1..(Len(s) + Len(t)) /\ (k <= Len(s) - 1 <=> k + 1 <= Len(s))
      BY <1>1
    <2>2. CASE k <= Len(s) - 1
      <3>1. k \in 1..(Len(s) - 1)
        BY <1>1, <2>2
      <3>2. a[k] = s[k + 1]
        BY <1>2, <1>7, <2>2, <3>1
      <3>3. b[k] = s[k + 1]
        BY <1>3, <1>6, <2>1, <2>2
      <3>4. QED
        BY <3>2, <3>3
    <2>3. CASE ~(k <= Len(s) - 1)
      <3>1. k - (Len(s) - 1) = (k + 1) - Len(s)
        BY <1>1
      <3>2. QED
        BY <1>3, <1>6, <1>7, <2>1, <2>3, <3>1
    <2>4. QED
      BY <2>2, <2>3
  <1>9. a = b
    BY <1>6, <1>7, <1>8, SeqEqual
  <1>10. QED
    BY <1>2, <1>4, <1>5, <1>9 DEF a, b

LEMMA Writing ==
    ASSUME NEW S, NEW s \in Seq(S), NEW t \in Seq(S), NEW e \in S
    PROVE  s \o Append(t, e) = Append(s \o t, e)
  <1>1. <<e>> \in Seq(S) /\ s \o t \in Seq(S)
    OBVIOUS
  <1>2. Append(t, e) = t \o <<e>> /\ Append(s \o t, e) = (s \o t) \o <<e>>
    BY <1>1, AppendIsConcat
  <1>3. QED
    BY <1>1, <1>2, ConcatAssociative

-----------------------------------------------------------------------------
(* The types. *)
LEMMA LimitTyped ==
    ASSUME NEW l \in Limits
    PROVE  /\ l.commands \in [Proc -> 0..MaxCommand] /\ l.ends \in 0..MaxEnds
           /\ l.retries \in SUBSET BOOLEAN
  BY LimitsAssumption DEF Limit

LEMMA Bounded ==
    ASSUME TypeOK, ends < limit.ends
    PROVE  ends + 1 \in 0..MaxEnds
  <1>1. ends \in 0..MaxEnds /\ limit.ends \in 0..MaxEnds
    BY LimitTyped DEF TypeOK
  <1>2. QED
    BY <1>1, BoundsAssumption

LEMMA InitTyped == Init => TypeOK
  <1> SUFFICES ASSUME Init PROVE TypeOK
    OBVIOUS
  <1>1. limit \in Limits /\ limit.retries \in SUBSET BOOLEAN /\ 0 \in 0..MaxEnds
    BY LimitTyped, BoundsAssumption DEF Init
  <1>2. mRetry \in [Proc -> BOOLEAN]
    BY <1>1 DEF Init
  <1>3. QED
    BY <1>1, <1>2 DEF Init, TypeOK

LEMMA CommandTyped ==
    ASSUME TypeOK, NEW p \in Proc, UNCHANGED limit,
           NextCommand(p) \/ NoMoreCommands(p) \/ Relogon(p) \/ TakeResult(p)
    PROVE  TypeOK'
  <1>1. /\ cmd \in [Proc -> Nat] /\ mResult \in [Proc -> Seq(Line)] /\ <<>> \in Seq(Line)
        /\ again \in [Proc -> BOOLEAN] /\ mLogon \in [Proc -> BOOLEAN]
    BY DEF TypeOK
  <1>2. cmd' \in [Proc -> Nat]
    <2>1. cmd[p] + 1 \in Nat
      BY <1>1
    <2>2. QED
      BY <1>1, <2>1 DEF NextCommand, NoMoreCommands, Relogon, TakeResult
  <1>3. /\ mResult' \in [Proc -> Seq(Line)] /\ again' \in [Proc -> BOOLEAN]
        /\ mLogon' \in [Proc -> BOOLEAN]
    BY <1>1 DEF NextCommand, NoMoreCommands, Relogon, TakeResult, rvars
  <1>4. hpc' \in [Proc -> {"next", "logout", "pipe", "piped", "forked", "ping", "pong", "write",
                         "select", "read", "checked", "dead", "ended"}]
    BY DEF NextCommand, NoMoreCommands, Relogon, TakeResult, Go, TypeOK
  <1>5. UNCHANGED <<mRetry, errno, file, pvars, ivars, gvars>>
    BY DEF NextCommand, NoMoreCommands, Relogon, TakeResult, rvars
  <1>6. QED
    BY <1>2, <1>3, <1>4, <1>5 DEF TypeOK, pvars, ivars, gvars

LEMMA LogonTyped ==
    ASSUME TypeOK, NEW p \in Proc, UNCHANGED limit, LogonStep(p)
    PROVE  TypeOK'
  <1>1. /\ mResult \in [Proc -> Seq(Line)] /\ file \in [Proc -> Seq(Line)]
        /\ toIsql \in [Proc -> Seq(Nat)] /\ fromIsql \in [Proc -> Seq(Line)]
        /\ heirs \in [Proc -> SUBSET Proc]
        /\ <<>> \in Seq(Line) /\ <<>> \in Seq(Nat)
    BY DEF TypeOK
  <1>2. hpc' \in [Proc -> {"next", "logout", "pipe", "piped", "forked", "ping", "pong", "write",
                         "select", "read", "checked", "dead", "ended"}]
    BY DEF LogonStep, Logout, Pipe, Fork, ForkFails, CloseEnds, Ping, Pong, PongEndOfFile, Go, TypeOK
  <1>3. UNCHANGED <<cmd, mLogon, mRetry, again, errno, cut>>
    BY DEF LogonStep, Logout, Pipe, Fork, ForkFails, CloseEnds, Ping, Pong, PongEndOfFile, gvars
  <1>4. CASE Logout(p)
    <2>1. heirs' \in [Proc -> SUBSET Proc]
      BY <1>1, <1>4 DEF Logout, Heirless
    <2>2. /\ mResult' \in [Proc -> Seq(Line)] /\ file' \in [Proc -> Seq(Line)]
          /\ toIsql' \in [Proc -> Seq(Nat)] /\ fromIsql' \in [Proc -> Seq(Line)]
      BY <1>1, <1>4 DEF Logout
    <2>3. QED
      BY <1>2, <1>3, <1>4, <2>1, <2>2 DEF Logout, TypeOK
  <1>5. CASE Pipe(p) \/ CloseEnds(p) \/ PongEndOfFile(p)
    <2>1. heirs' \in [Proc -> SUBSET Proc]
      BY <1>1, <1>5 DEF Pipe, CloseEnds, PongEndOfFile, ivars
    <2>2. UNCHANGED <<rvars, pvars, isql, busy, ends, gvars>>
      BY <1>5 DEF Pipe, CloseEnds, PongEndOfFile, ivars
    <2>3. QED
      BY <1>2, <1>3, <2>1, <2>2 DEF TypeOK, rvars, pvars, gvars
  <1>6. CASE Fork(p)
    <2>1. heirs' \in [Proc -> SUBSET Proc]
      BY <1>1, <1>6 DEF Fork
    <2>2. isql' \in [Proc -> {"none", "up", "gone"}] /\ busy' \in [Proc -> {"idle", "said"}]
      BY <1>6 DEF Fork, TypeOK
    <2>3. QED
      BY <1>2, <1>3, <1>6, <2>1, <2>2 DEF Fork, TypeOK, rvars, pvars, gvars
  <1>7. CASE ForkFails(p)
    <2>1. ends' \in 0..MaxEnds
      BY <1>7, Bounded DEF ForkFails
    <2>2. QED
      BY <1>2, <1>3, <1>7, <2>1 DEF ForkFails, TypeOK, rvars, pvars, gvars
  <1>8. CASE Ping(p)
    <2>1. Append(toIsql[p], 0) \in Seq(Nat)
      BY <1>1
    <2>2. toIsql' \in [Proc -> Seq(Nat)]
      BY <1>1, <1>8, <2>1 DEF Ping
    <2>3. QED
      BY <1>2, <1>3, <1>8, <2>2 DEF Ping, TypeOK, rvars, ivars, gvars
  <1>9. CASE Pong(p)
    <2>1. file[p] \in Seq(Line) /\ file[p] # <<>> /\ mResult[p] \in Seq(Line)
      BY <1>1, <1>9 DEF Pong, Gets
    <2>2. Head(file[p]) \in Line /\ Tail(file[p]) \in Seq(Line)
      BY <2>1
    <2>3. Append(mResult[p], Head(file[p])) \in Seq(Line)
      BY <2>1, <2>2
    <2>4. mResult' \in [Proc -> Seq(Line)] /\ file' \in [Proc -> Seq(Line)]
      BY <1>1, <1>9, <2>2, <2>3 DEF Pong, Gets, Keep
    <2>5. QED
      BY <1>2, <1>3, <1>9, <2>4 DEF Pong, TypeOK, pvars, ivars, gvars
  <1>10. QED
    BY <1>4, <1>5, <1>6, <1>7, <1>8, <1>9 DEF LogonStep

LEMMA ExecuteTyped ==
    ASSUME TypeOK, NEW p \in Proc, UNCHANGED limit, ExecuteStep(p) \/ Fill(p)
    PROVE  TypeOK'
  <1>1. /\ mResult \in [Proc -> Seq(Line)] /\ file \in [Proc -> Seq(Line)] /\ cmd[p] \in Nat
        /\ toIsql \in [Proc -> Seq(Nat)] /\ fromIsql \in [Proc -> Seq(Line)]
        /\ late \in [Proc -> BOOLEAN] /\ cut \in [Proc -> BOOLEAN] /\ errno \in [Proc -> {"any", "EPIPE"}]
        /\ <<>> \in Seq(Line) /\ <<>> \in Seq(Nat)
    BY DEF TypeOK
  <1>2. hpc' \in [Proc -> {"next", "logout", "pipe", "piped", "forked", "ping", "pong", "write",
                         "select", "read", "checked", "dead", "ended"}]
    <2>1. Go(p, "select") \/ Go(p, "read") \/ Go(p, "checked") \/ UNCHANGED hpc
      BY DEF ExecuteStep, Fill, Write, Select, SelectTimeout, ReadLine, ReadEof, ReadEndOfFile, hvars
    <2>2. QED
      BY <2>1 DEF Go, TypeOK
  <1>3. UNCHANGED <<cmd, mLogon, mRetry, again, ivars>>
    BY DEF ExecuteStep, Fill, Write, Select, SelectTimeout, ReadLine, ReadEof, ReadEndOfFile, hvars
  <1>4. /\ late' \in [Proc -> BOOLEAN] /\ cut' \in [Proc -> BOOLEAN] /\ errno' \in [Proc -> {"any", "EPIPE"}]
    BY <1>1 DEF ExecuteStep, Fill, Write, Select, SelectTimeout, ReadLine, ReadEof, ReadEndOfFile, hvars, gvars, EndsOpen
  <1>5. mResult' \in [Proc -> Seq(Line)]
    <2>1. CASE ReadLine(p)
      <3>1. file[p] \in Seq(Line) /\ file[p] # <<>> /\ mResult[p] \in Seq(Line)
        BY <1>1, <2>1 DEF ReadLine, Gets
      <3>2. Head(file[p]) \in Line
        BY <3>1
      <3>3. Append(mResult[p], Head(file[p])) \in Seq(Line)
        BY <3>1, <3>2
      <3>4. QED
        BY <1>1, <2>1, <3>3 DEF ReadLine, Keep
    <2>2. CASE ReadEndOfFile(p)
      <3>1. Says(cmd[p], "lost") \in Line
        BY <1>1 DEF Says, Line
      <3>2. <<Says(cmd[p], "lost")>> \in Seq(Line)
        BY <3>1
      <3>3. QED
        BY <1>1, <2>2, <3>2 DEF ReadEndOfFile
    <2>3. CASE Write(p) \/ mResult' = mResult
      BY <1>1, <2>3 DEF Write
    <2>4. QED
      BY <2>1, <2>2, <2>3 DEF ExecuteStep, Fill, Select, SelectTimeout, ReadEof, rvars
  <1>6. file' \in [Proc -> Seq(Line)] /\ fromIsql' \in [Proc -> Seq(Line)]
    <2>1. CASE ReadLine(p) \/ ReadEof(p)
      <3>1. file[p] \in Seq(Line) /\ file[p] # <<>>
        BY <1>1, <2>1 DEF ReadLine, ReadEof, Gets
      <3>2. Tail(file[p]) \in Seq(Line)
        BY <3>1
      <3>3. QED
        BY <1>1, <2>1, <3>2 DEF ReadLine, ReadEof, Gets, pvars
    <2>2. CASE Fill(p)
      BY <1>1, <2>2 DEF Fill
    <2>3. CASE file' = file /\ fromIsql' = fromIsql
      BY <1>1, <2>3
    <2>4. QED
      BY <2>1, <2>2, <2>3 DEF ExecuteStep, Write, Select, SelectTimeout, ReadEndOfFile, rvars, pvars
  <1>7. toIsql' \in [Proc -> Seq(Nat)]
    <2>1. CASE Write(p)
      <3>1. Append(toIsql[p], cmd[p]) \in Seq(Nat)
        BY <1>1
      <3>2. QED
        BY <1>1, <2>1, <3>1 DEF Write
    <2>2. CASE toIsql' = toIsql
      BY <1>1, <2>2
    <2>3. QED
      BY <2>1, <2>2 DEF ExecuteStep, Fill, Select, SelectTimeout, ReadLine, ReadEof, ReadEndOfFile, pvars
  <1>8. QED
    BY <1>2, <1>3, <1>4, <1>5, <1>6, <1>7 DEF TypeOK, ivars

LEMMA IsqlTyped ==
    ASSUME TypeOK, NEW p \in Proc, UNCHANGED limit, Fresh(p), Answer(p) \/ AnswerEnds(p) \/ IsqlEnds(p)
    PROVE  TypeOK'
  <1>1. /\ fromIsql \in [Proc -> Seq(Line)] /\ toIsql \in [Proc -> Seq(Nat)]
        /\ busy \in [Proc -> {"idle", "said"}] /\ heirs \in [Proc -> SUBSET Proc]
        /\ isql \in [Proc -> {"none", "up", "gone"}]
    BY DEF TypeOK
  <1>2. CASE Answer(p)
    <2>1. toIsql[p] \in Seq(Nat) /\ toIsql[p] # <<>> /\ fromIsql[p] \in Seq(Line)
      BY <1>1, <1>2 DEF Answer
    <2>2. Head(toIsql[p]) \in Nat
      BY <2>1
    <2>3. \A text \in {"ok", "refused", "comm", "lost"} : Says(Head(toIsql[p]), text) \in Line
      BY <2>2 DEF Says, Line
    <2>4. \A text \in {"ok", "refused", "comm", "lost"} :
             Append(fromIsql[p], Says(Head(toIsql[p]), text)) \in Seq(Line)
      BY <2>1, <2>3
    <2>5. fromIsql' \in [Proc -> Seq(Line)]
      BY <1>1, <1>2, <2>4 DEF Answer
    <2>6. busy' \in [Proc -> {"idle", "said"}]
      BY <1>1, <1>2 DEF Answer
    <2>7. QED
      BY <1>2, <2>5, <2>6 DEF Answer, TypeOK, hvars, rvars, gvars
  <1>3. CASE AnswerEnds(p)
    <2>1. toIsql[p] \in Seq(Nat) /\ toIsql[p] # <<>> /\ fromIsql[p] \in Seq(Line)
      BY <1>1, <1>3 DEF AnswerEnds, Fresh
    <2>2. Head(toIsql[p]) \in Nat /\ Tail(toIsql[p]) \in Seq(Nat)
      BY <2>1
    <2>3. Says(Head(toIsql[p]), "eof") \in Line
      BY <2>2 DEF Says, Line
    <2>4. Append(fromIsql[p], Says(Head(toIsql[p]), "eof")) \in Seq(Line)
      BY <2>1, <2>3
    <2>5. fromIsql' \in [Proc -> Seq(Line)]
      BY <1>1, <1>3, <2>4 DEF AnswerEnds
    <2>6. toIsql' \in [Proc -> Seq(Nat)] /\ busy' \in [Proc -> {"idle", "said"}]
      BY <1>1, <1>3, <2>2 DEF AnswerEnds
    <2>7. QED
      BY <1>3, <2>5, <2>6 DEF AnswerEnds, TypeOK, hvars, rvars, gvars
  <1>4. CASE IsqlEnds(p)
    <2>1. ends' \in 0..MaxEnds
      BY <1>4, Bounded DEF IsqlEnds
    <2>2. /\ isql' \in [Proc -> {"none", "up", "gone"}] /\ busy' \in [Proc -> {"idle", "said"}]
          /\ heirs' \in [Proc -> SUBSET Proc]
      BY <1>1, <1>4 DEF IsqlEnds, Heirless
    <2>3. QED
      BY <1>4, <2>1, <2>2 DEF IsqlEnds, TypeOK, hvars, rvars, pvars, gvars
  <1>5. QED
    BY <1>2, <1>3, <1>4

-----------------------------------------------------------------------------
(* The other laborers: a step of p leaves what they own alone.  Of q it    *)
(* may only change who has inherited its pipes, and it adds an heir only   *)
(* while the laborer of q has them open itself.                            *)
Local(q) == Fresh(q) /\ InPairs(q) /\ OneAtATime(q) /\ CutShows(q)

Apart(q) ==
    /\ hpc'[q] = hpc[q] /\ cmd'[q] = cmd[q] /\ errno'[q] = errno[q]
    /\ mResult'[q] = mResult[q] /\ file'[q] = file[q]
    /\ isql'[q] = isql[q] /\ busy'[q] = busy[q]
    /\ toIsql'[q] = toIsql[q] /\ fromIsql'[q] = fromIsql[q]
    /\ late'[q] = late[q] /\ cut'[q] = cut[q]
    /\ hpc[q] \in {"piped", "forked"} \/ heirs'[q] \subseteq heirs[q]

LEMMA ApartLocal ==
    ASSUME NEW q \in Proc, Local(q), Apart(q)
    PROVE  Local(q)'
  <1>1. Lines(q)' = Lines(q) /\ Expected(q)' = Expected(q) /\ NoLineBefore(q)' = NoLineBefore(q)
    BY DEF Apart, Lines, Expected, NoLineBefore
  <1>2. Fresh(q)' /\ InPairs(q)'
    BY <1>1 DEF Apart, Local, Fresh, InPairs
  <1>3. OneAtATime(q)'
    BY <1>1 DEF Apart, Local, OneAtATime
  <1>4. CutShows(q)'
    BY <1>1 DEF Apart, Local, CutShows, EndsOpen, IsLost
  <1>5. QED
    BY <1>2, <1>3, <1>4 DEF Local

LEMMA LogonApart ==
    ASSUME TypeOK, NEW p \in Proc, LogonStep(p), NEW q \in Proc \ {p}
    PROVE  Apart(q)
  <1>1. CASE Logout(p) \/ Pipe(p) \/ CloseEnds(p)
    BY <1>1 DEF Logout, Pipe, CloseEnds, Apart, Go, Heirless, TypeOK, rvars, pvars, ivars, gvars
  <1>2. CASE Fork(p) \/ ForkFails(p)
    BY <1>2 DEF Fork, ForkFails, Apart, Go, TypeOK, rvars, pvars, gvars
  <1>3. CASE Ping(p) \/ Pong(p) \/ PongEndOfFile(p)
    BY <1>3 DEF Ping, Pong, PongEndOfFile, Gets, Keep, Apart, Go, TypeOK, rvars, pvars, ivars, gvars
  <1>4. QED
    BY <1>1, <1>2, <1>3 DEF LogonStep

LEMMA ExecuteApart ==
    ASSUME TypeOK, NEW p \in Proc, ExecuteStep(p) \/ Fill(p), NEW q \in Proc \ {p}
    PROVE  Apart(q)
  <1>1. CASE Write(p) \/ Select(p) \/ SelectTimeout(p)
    BY <1>1 DEF Write, Select, SelectTimeout, Apart, Go, TypeOK, rvars, pvars, ivars, gvars
  <1>2. CASE ReadLine(p) \/ ReadEof(p) \/ ReadEndOfFile(p)
    BY <1>2 DEF ReadLine, ReadEof, ReadEndOfFile, Gets, Keep, Apart, Go, TypeOK, rvars, pvars, ivars, gvars
  <1>3. CASE Fill(p)
    BY <1>3 DEF Fill, Apart, TypeOK, hvars, ivars, gvars
  <1>4. QED
    BY <1>1, <1>2, <1>3 DEF ExecuteStep

LEMMA CommandApart ==
    ASSUME TypeOK, NEW p \in Proc, NEW q \in Proc \ {p},
           NextCommand(p) \/ NoMoreCommands(p) \/ Relogon(p) \/ TakeResult(p)
    PROVE  Apart(q)
  BY DEF NextCommand, NoMoreCommands, Relogon, TakeResult, Apart, Go, TypeOK, rvars, pvars, ivars, gvars

LEMMA IsqlApart ==
    ASSUME TypeOK, NEW p \in Proc, NEW q \in Proc \ {p}, Answer(p) \/ AnswerEnds(p) \/ IsqlEnds(p)
    PROVE  Apart(q)
  <1>1. CASE Answer(p)
    BY <1>1 DEF Answer, Apart, TypeOK, hvars, rvars, pvars, gvars
  <1>2. CASE AnswerEnds(p)
    BY <1>2 DEF AnswerEnds, Apart, TypeOK, hvars, rvars, pvars, gvars
  <1>3. CASE IsqlEnds(p)
    BY <1>3 DEF IsqlEnds, Heirless, Apart, TypeOK, hvars, rvars, pvars, gvars
  <1>4. QED
    BY <1>1, <1>2, <1>3

-----------------------------------------------------------------------------
(* What a step of p does to the lines p has still to read. *)
LEMMA LinesTyped ==
    ASSUME TypeOK, NEW p \in Proc
    PROVE  /\ Lines(p) \in Seq(Line) /\ Len(Lines(p)) \in Nat /\ DOMAIN Lines(p) = 1..Len(Lines(p))
           /\ mResult[p] \in Seq(Line) /\ file[p] \in Seq(Line) /\ fromIsql[p] \in Seq(Line)
           /\ toIsql[p] \in Seq(Nat)
  <1>1. /\ file[p] \in Seq(Line) /\ fromIsql[p] \in Seq(Line) /\ mResult[p] \in Seq(Line)
        /\ toIsql[p] \in Seq(Nat)
    BY DEF TypeOK
  <1>2. Lines(p) \in Seq(Line)
    BY <1>1 DEF Lines
  <1>3. QED
    BY <1>1, <1>2

LEMMA Got ==
    ASSUME TypeOK, NEW p \in Proc, Gets(p), fromIsql'[p] = fromIsql[p]
    PROVE  /\ Lines(p) # <<>> /\ Head(file[p]) = Lines(p)[1] /\ Len(Lines(p)) > 0 /\ Lines(p)[1] \in Line
           /\ DOMAIN Lines(p)' = 1..(Len(Lines(p)) - 1) /\ Len(Lines(p)') = Len(Lines(p)) - 1
           /\ \A k \in 1..(Len(Lines(p)) - 1) : Lines(p)'[k] = Lines(p)[k + 1]
           /\ Lines(p)' = <<>> <=> Len(Lines(p)) = 1
  <1>1. file[p] # <<>> /\ file'[p] = Tail(file[p])
    BY DEF Gets, TypeOK
  <1>2. /\ Lines(p) # <<>> /\ Lines(p)' = Tail(Lines(p)) /\ Head(file[p]) = Lines(p)[1]
        /\ Head(file[p]) \in Line
    <2>1. file[p] \in Seq(Line) /\ fromIsql[p] \in Seq(Line)
      BY LinesTyped
    <2>2. /\ file[p] \o fromIsql[p] # <<>>
          /\ Tail(file[p]) \o fromIsql[p] = Tail(file[p] \o fromIsql[p])
          /\ Head(file[p]) = (file[p] \o fromIsql[p])[1] /\ Head(file[p]) \in Line
      BY <1>1, <2>1, Reading
    <2>3. QED
      BY <1>1, <2>2 DEF Lines
  <1>3. Lines(p) \in Seq(Line) /\ Len(Lines(p)) \in Nat /\ Len(Lines(p)) > 0
    BY <1>2, LinesTyped
  <1>4. /\ Lines(p)' \in Seq(Line) /\ Len(Lines(p)') = Len(Lines(p)) - 1
        /\ \A k \in 1..Len(Lines(p)') : Lines(p)'[k] = Lines(p)[k + 1]
    BY <1>2, <1>3, HeadTailProperties
  <1>5. Lines(p)' = <<>> <=> Len(Lines(p)') = 0
    BY <1>4
  <1>6. DOMAIN Lines(p)' = 1..Len(Lines(p)')
    BY <1>4
  <1>7. QED
    BY <1>2, <1>3, <1>4, <1>5, <1>6

LEMMA Said ==
    ASSUME TypeOK, NEW p \in Proc, NEW e \in Line,
           fromIsql'[p] = Append(fromIsql[p], e), file'[p] = file[p]
    PROVE  /\ Len(Lines(p)') = Len(Lines(p)) + 1 /\ DOMAIN Lines(p)' = 1..(Len(Lines(p)) + 1)
           /\ \A k \in 1..Len(Lines(p)) : Lines(p)'[k] = Lines(p)[k]
           /\ Lines(p)'[Len(Lines(p)) + 1] = e
           /\ Lines(p)' # <<>>
  <1>1. Lines(p)' = Append(Lines(p), e)
    <2>1. file[p] \in Seq(Line) /\ fromIsql[p] \in Seq(Line)
      BY LinesTyped
    <2>2. \A s, t \in Seq(Line) : s \o Append(t, e) = Append(s \o t, e)
      BY Writing
    <2>3. file[p] \o Append(fromIsql[p], e) = Append(file[p] \o fromIsql[p], e)
      BY <2>1, <2>2
    <2>4. QED
      BY <2>3 DEF Lines
  <1>2. Lines(p) \in Seq(Line) /\ Len(Lines(p)) \in Nat
    BY LinesTyped
  <1>3. QED
    BY <1>1, <1>2

LEMMA Silent ==
    ASSUME TypeOK, NEW p \in Proc, EndOfFile(p)
    PROVE  Lines(p) = <<>> /\ isql[p] # "up"
  BY LinesTyped DEF EndOfFile, Lines, EndsOpen

-----------------------------------------------------------------------------
(* What a step of p does to the order of its answers. *)
LEMMA CommandLocal ==
    ASSUME TypeOK, NEW p \in Proc, Local(p),
           NextCommand(p) \/ NoMoreCommands(p) \/ Relogon(p) \/ TakeResult(p)
    PROVE  Local(p)'
  <1>1. /\ UNCHANGED <<errno, file, pvars, ivars, gvars>>
        /\ hpc[p] \in {"next", "checked"} /\ hpc'[p] \in {"write", "logout", "ended", "next"}
        /\ mResult'[p] \in {mResult[p], <<>>}
    BY DEF NextCommand, NoMoreCommands, Relogon, TakeResult, Go, TypeOK, rvars
  <1>2. Lines(p)' = Lines(p) /\ NoLineBefore(p)' = NoLineBefore(p)
    BY <1>1 DEF Lines, NoLineBefore, pvars, ivars
  <1>3. Len(<<>>) <= 1
    OBVIOUS
  <1>4. Fresh(p)' /\ InPairs(p)'
    BY <1>1, <1>2, <1>3 DEF Local, Fresh, InPairs, pvars, ivars
  <1>5. OneAtATime(p)'
    BY <1>1, <1>2 DEF Local, OneAtATime, pvars, ivars, gvars
  <1>6. CutShows(p)'
    BY <1>1 DEF CutShows
  <1>7. QED
    BY <1>4, <1>5, <1>6 DEF Local

LEMMA OpenLocal ==
    ASSUME TypeOK, NEW p \in Proc, Local(p),
           Logout(p) \/ Pipe(p) \/ Fork(p) \/ ForkFails(p) \/ CloseEnds(p)
    PROVE  Local(p)'
  <1>1. /\ Lines(p)' = <<>> /\ mResult'[p] = <<>> /\ toIsql'[p] = <<>>
        /\ busy'[p] = "idle" /\ ~late'[p]
        /\ hpc'[p] \in {"pipe", "piped", "forked", "ping", "dead"}
    <2>1. CASE Logout(p)
      <3>1. file'[p] = <<>> /\ fromIsql'[p] = <<>>
        BY <2>1 DEF Logout, TypeOK
      <3>2. Lines(p)' = <<>>
        BY <3>1 DEF Lines
      <3>3. QED
        BY <2>1, <3>2 DEF Logout, Go, TypeOK
    <2>2. CASE Pipe(p) \/ Fork(p) \/ ForkFails(p) \/ CloseEnds(p)
      <3>1. /\ UNCHANGED <<rvars, pvars, gvars>> /\ busy'[p] \in {busy[p], "idle"}
            /\ hpc[p] \in {"pipe", "piped", "forked"}
            /\ hpc'[p] \in {"piped", "forked", "ping", "dead"}
        BY <2>2 DEF Pipe, Fork, ForkFails, CloseEnds, Go, ivars, TypeOK
      <3>2. QED
        BY <3>1 DEF Local, Fresh, Lines, rvars, pvars, gvars
    <2>3. QED
      BY <2>1, <2>2
  <1>2. DOMAIN Lines(p)' = {} /\ Len(mResult'[p]) <= 1
    BY <1>1
  <1>3. QED
    BY <1>1, <1>2 DEF Local, Fresh, InPairs, OneAtATime, CutShows

LEMMA PingLocal ==
    ASSUME TypeOK, NEW p \in Proc, Local(p), Ping(p)
    PROVE  Local(p)'
  <1>1. /\ hpc[p] = "ping" /\ hpc'[p] = "pong" /\ UNCHANGED <<rvars, fromIsql, ivars, gvars>>
        /\ toIsql'[p] = IF EndsOpen(p) THEN Append(toIsql[p], 0) ELSE toIsql[p]
    BY DEF Ping, Go, TypeOK
  <1>2. ~late[p] /\ mResult[p] = <<>> /\ Lines(p) = <<>> /\ toIsql[p] = <<>> /\ busy[p] = "idle"
    BY <1>1 DEF Local, Fresh
  <1>3. Lines(p)' = <<>> /\ mResult'[p] = <<>> /\ busy'[p] = "idle" /\ ~late'[p]
    BY <1>1, <1>2 DEF Lines, rvars, ivars, gvars
  <1>4. toIsql'[p] \in {<<>>, <<0>>}
    BY <1>1, <1>2
  <1>5. DOMAIN Lines(p)' = {} /\ DOMAIN mResult'[p] = {} /\ Len(mResult'[p]) <= 1
    BY <1>3
  <1>6. QED
    BY <1>1, <1>3, <1>4, <1>5 DEF Local, Fresh, InPairs, OneAtATime, Expected, CutShows

LEMMA PongEndOfFileLocal ==
    ASSUME TypeOK, NEW p \in Proc, Local(p), PongEndOfFile(p)
    PROVE  Local(p)'
  <1>1. hpc[p] = "pong" /\ hpc'[p] = "dead" /\ UNCHANGED <<rvars, pvars, ivars, gvars>>
    BY DEF PongEndOfFile, Go, TypeOK
  <1>2. QED
    BY <1>1 DEF Local, Fresh, InPairs, NoLineBefore, OneAtATime, CutShows, Lines, rvars, pvars, ivars, gvars

(* Reading a line leaves the pairs that follow as they are. *)
LEMMA NextPairs ==
    ASSUME TypeOK, NEW p \in Proc, Local(p), Gets(p), UNCHANGED <<pvars, ivars>>,
           NEW k \in DOMAIN Lines(p)', Lines(p)'[k].text # "eof"
    PROVE  IF k < Len(Lines(p)') THEN Lines(p)'[k + 1].text = "eof" ELSE NoLineBefore(p)'
  <1>1. /\ DOMAIN Lines(p)' = 1..(Len(Lines(p)) - 1) /\ Len(Lines(p)') = Len(Lines(p)) - 1
        /\ \A n \in 1..(Len(Lines(p)) - 1) : Lines(p)'[n] = Lines(p)[n + 1]
        /\ DOMAIN Lines(p) = 1..Len(Lines(p)) /\ Len(Lines(p)) \in Nat
    BY Got, LinesTyped DEF pvars
  <1>2. NoLineBefore(p)' = NoLineBefore(p)
    BY DEF NoLineBefore, ivars
  <1>3. k \in 1..(Len(Lines(p)) - 1) /\ k + 1 \in 1..Len(Lines(p)) /\ Lines(p)[k + 1].text # "eof"
    BY <1>1
  <1>4. IF k + 1 < Len(Lines(p)) THEN Lines(p)[(k + 1) + 1].text = "eof" ELSE NoLineBefore(p)
    BY <1>1, <1>3 DEF Local, InPairs
  <1>5. CASE k < Len(Lines(p)) - 1
    <2>1. k + 1 < Len(Lines(p)) /\ k + 1 \in 1..(Len(Lines(p)) - 1)
      BY <1>1, <1>3, <1>5
    <2>2. Lines(p)'[k + 1] = Lines(p)[(k + 1) + 1]
      BY <1>1, <2>1
    <2>3. QED
      BY <1>1, <1>4, <1>5, <2>1, <2>2
  <1>6. CASE ~(k < Len(Lines(p)) - 1)
    <2>1. ~(k + 1 < Len(Lines(p)))
      BY <1>1, <1>3, <1>6
    <2>2. QED
      BY <1>1, <1>2, <1>4, <1>6, <2>1
  <1>7. QED
    BY <1>5, <1>6

(* A line of an answer goes into the result, or its "$$EOF$$" is passed. *)
LEMMA Kept ==
    ASSUME TypeOK, NEW p \in Proc, Local(p), hpc[p] \in {"pong", "read"}, Gets(p), Keep(p),
           Head(file[p]).text # "eof", hpc'[p] # "select", UNCHANGED <<pvars, ivars>>
    PROVE  mResult'[p] = <<Lines(p)[1]>> /\ InPairs(p)'
  <1>1. /\ Lines(p) # <<>> /\ Head(file[p]) = Lines(p)[1] /\ Len(Lines(p)) > 0 /\ Len(Lines(p)) \in Nat
        /\ DOMAIN Lines(p)' = 1..(Len(Lines(p)) - 1) /\ Len(Lines(p)') = Len(Lines(p)) - 1
        /\ \A k \in 1..(Len(Lines(p)) - 1) : Lines(p)'[k] = Lines(p)[k + 1]
        /\ Lines(p)' = <<>> <=> Len(Lines(p)) = 1
        /\ DOMAIN Lines(p) = 1..Len(Lines(p))
    BY Got, LinesTyped DEF pvars
  <1>2. mResult[p] = <<>>
    BY <1>1 DEF Local, InPairs
  <1>3. mResult'[p] = <<Lines(p)[1]>>
    <2>1. mResult'[p] = Append(mResult[p], Lines(p)[1])
      BY <1>1 DEF Keep, TypeOK
    <2>2. QED
      BY <1>2, <2>1
  <1>4. \A k \in 1..Len(Lines(p)) : Lines(p)[k].text # "eof" =>
           IF k < Len(Lines(p)) THEN Lines(p)[k + 1].text = "eof" ELSE NoLineBefore(p)
    BY <1>1 DEF Local, InPairs
  <1>5. NoLineBefore(p)' = NoLineBefore(p)
    BY DEF NoLineBefore, ivars
  <1>6. \A k \in DOMAIN Lines(p)' : Lines(p)'[k].text # "eof" =>
           IF k < Len(Lines(p)') THEN Lines(p)'[k + 1].text = "eof" ELSE NoLineBefore(p)'
    BY NextPairs
  <1>7. IF Lines(p)' # <<>> THEN Lines(p)'[1].text = "eof" ELSE NoLineBefore(p)'
    <2>1. 1 \in 1..Len(Lines(p)) /\ Lines(p)[1].text # "eof"
      BY <1>1
    <2>2. IF 1 < Len(Lines(p)) THEN Lines(p)[1 + 1].text = "eof" ELSE NoLineBefore(p)
      BY <1>4, <2>1
    <2>3. CASE 1 < Len(Lines(p))
      <3>1. 1 \in 1..(Len(Lines(p)) - 1) /\ Lines(p)' # <<>>
        BY <1>1, <2>3
      <3>2. QED
        BY <1>1, <2>2, <2>3, <3>1
    <2>4. CASE ~(1 < Len(Lines(p)))
      BY <1>1, <1>5, <2>2, <2>4
    <2>5. QED
      BY <2>3, <2>4
  <1>8. Len(mResult'[p]) <= 1
    BY <1>3
  <1>9. QED
    BY <1>3, <1>6, <1>7, <1>8 DEF InPairs

LEMMA Passed ==
    ASSUME TypeOK, NEW p \in Proc, Local(p), Gets(p), UNCHANGED <<pvars, ivars, mResult>>,
           hpc'[p] \notin {"pong", "select", "read"}
    PROVE  InPairs(p)'
  <1>1. \A k \in DOMAIN Lines(p)' : Lines(p)'[k].text # "eof" =>
           IF k < Len(Lines(p)') THEN Lines(p)'[k + 1].text = "eof" ELSE NoLineBefore(p)'
    BY NextPairs
  <1>2. Len(mResult'[p]) <= 1
    BY DEF Local, InPairs
  <1>3. QED
    BY <1>1, <1>2 DEF InPairs

LEMMA PongLocal ==
    ASSUME TypeOK, NEW p \in Proc, Local(p), Pong(p)
    PROVE  Local(p)'
  <1>1. /\ hpc[p] = "pong" /\ Gets(p) /\ UNCHANGED <<cmd, errno, pvars, ivars, gvars>>
    BY DEF Pong
  <1>2. /\ Lines(p) # <<>> /\ Head(file[p]) = Lines(p)[1] /\ Len(Lines(p)) > 0 /\ Len(Lines(p)) \in Nat
        /\ DOMAIN Lines(p)' = 1..(Len(Lines(p)) - 1) /\ Len(Lines(p)') = Len(Lines(p)) - 1
        /\ \A k \in 1..(Len(Lines(p)) - 1) : Lines(p)'[k] = Lines(p)[k + 1]
        /\ Lines(p)' = <<>> <=> Len(Lines(p)) = 1
        /\ DOMAIN Lines(p) = 1..Len(Lines(p))
    BY <1>1, Got, LinesTyped DEF pvars
  <1>3. busy'[p] = "said" => toIsql'[p] # <<>>
    BY <1>1 DEF Local, Fresh, pvars, ivars
  <1>4. CASE Head(file[p]).text = "eof"
    <2>1. hpc'[p] \in {"write", "dead"} /\ UNCHANGED mResult
      BY <1>4 DEF Pong, Go, TypeOK
    <2>2. InPairs(p)'
      BY <1>1, <2>1, Passed
    <2>3. ~late[p] => Lines(p)' = <<>> /\ (isql[p] = "up" => toIsql[p] = <<>>)
      BY <1>1, <1>2, <1>4 DEF Local, OneAtATime
    <2>4. OneAtATime(p)'
      BY <1>1, <2>1, <2>3 DEF OneAtATime, pvars, ivars, gvars
    <2>5. QED
      BY <1>3, <2>1, <2>2, <2>4 DEF Local, Fresh, CutShows
  <1>5. CASE Head(file[p]).text # "eof"
    <2>1. Keep(p) /\ UNCHANGED hpc
      BY <1>5 DEF Pong
    <2>2. mResult'[p] = <<Lines(p)[1]>> /\ InPairs(p)'
      BY <1>1, <1>5, <2>1, Kept
    <2>3. Expected(p)' = Expected(p)
      BY <1>1, <2>1 DEF Expected
    <2>4. ~late[p] => \A k \in DOMAIN Lines(p)' :
             /\ Lines(p)'[k].cmd = Expected(p)
             /\ Lines(p)'[k].text = "eof" => k = Len(Lines(p)') /\ (isql[p] = "up" => toIsql[p] = <<>>)
      <3>1. \A k \in 1..(Len(Lines(p)) - 1) : k + 1 \in 1..Len(Lines(p)) /\ (k + 1 = Len(Lines(p)) => k = Len(Lines(p)) - 1)
        BY <1>2
      <3>2. QED
        BY <1>1, <1>2, <3>1 DEF Local, OneAtATime
    <2>5. ~late[p] => \A k \in DOMAIN mResult'[p] : mResult'[p][k].cmd = Expected(p)
      BY <1>1, <1>2, <2>2 DEF Local, OneAtATime
    <2>6. OneAtATime(p)'
      BY <1>1, <2>1, <2>3, <2>4, <2>5 DEF Local, OneAtATime, pvars, ivars, gvars
    <2>7. QED
      BY <1>1, <1>3, <2>1, <2>2, <2>6 DEF Local, Fresh, CutShows
  <1>6. QED
    BY <1>4, <1>5

LEMMA WriteLocal ==
    ASSUME TypeOK, NEW p \in Proc, Local(p), Write(p)
    PROVE  Local(p)'
  <1>1. /\ hpc[p] = "write" /\ hpc'[p] = "select" /\ mResult'[p] = <<>>
        /\ toIsql'[p] = IF EndsOpen(p) THEN Append(toIsql[p], cmd[p]) ELSE toIsql[p]
        /\ errno'[p] = IF EndsOpen(p) THEN "any" ELSE "EPIPE"
        /\ cut'[p] = ~EndsOpen(p)
        /\ UNCHANGED <<cmd, file, fromIsql, ivars, late>>
    BY DEF Write, Go, TypeOK
  <1>2. /\ Lines(p)' = Lines(p) /\ NoLineBefore(p)' = NoLineBefore(p)
        /\ Expected(p) = cmd[p] /\ Expected(p)' = cmd[p]
    BY <1>1 DEF Lines, NoLineBefore, Expected, ivars
  <1>3. EndsOpen(p)' = EndsOpen(p)
    BY <1>1 DEF EndsOpen, ivars
  <1>4. DOMAIN mResult'[p] = {} /\ Len(mResult'[p]) <= 1
    BY <1>1
  <1>5. ASSUME ~late[p]
        PROVE  DOMAIN Lines(p) = {} /\ Lines(p) = <<>> /\ (isql[p] = "up" => toIsql[p] = <<>>)
    BY <1>1, <1>5 DEF Local, OneAtATime
  <1>6. toIsql[p] = <<>> => toIsql'[p] \in {<<>>, <<cmd[p]>>}
    BY <1>1
  <1>7. busy'[p] = "said" => toIsql'[p] # <<>>
    <2>1. toIsql[p] \in Seq(Nat) /\ cmd[p] \in Nat
      BY DEF TypeOK
    <2>2. Append(toIsql[p], cmd[p]) # <<>>
      BY <2>1
    <2>3. QED
      BY <1>1, <2>2 DEF Local, Fresh, ivars
  <1>8. OneAtATime(p)'
    BY <1>1, <1>2, <1>4, <1>5, <1>6 DEF OneAtATime, ivars
  <1>9. CutShows(p)'
    BY <1>1, <1>2, <1>3, <1>5 DEF CutShows
  <1>10. InPairs(p)'
    BY <1>1, <1>2, <1>4 DEF Local, InPairs
  <1>11. QED
    BY <1>1, <1>7, <1>8, <1>9, <1>10 DEF Local, Fresh

LEMMA SelectLocal ==
    ASSUME TypeOK, NEW p \in Proc, Local(p), Select(p) \/ SelectTimeout(p)
    PROVE  Local(p)'
  <1>1. /\ hpc[p] = "select" /\ hpc'[p] \in {"read", "checked"}
        /\ UNCHANGED <<cmd, errno, rvars, pvars, ivars, cut>>
        /\ hpc'[p] = "read" => late' = late
        /\ hpc'[p] = "checked" => late'[p] /\ EndsOpen(p)
    BY DEF Select, SelectTimeout, Go, TypeOK, gvars
  <1>2. /\ Lines(p)' = Lines(p) /\ NoLineBefore(p)' = NoLineBefore(p) /\ Expected(p)' = Expected(p)
        /\ EndsOpen(p)' = EndsOpen(p)
    BY <1>1 DEF Lines, NoLineBefore, Expected, EndsOpen, rvars, pvars, ivars
  <1>3. OneAtATime(p)'
    BY <1>1, <1>2 DEF Local, OneAtATime, rvars, pvars, ivars
  <1>4. CutShows(p)'
    BY <1>1, <1>2 DEF Local, CutShows
  <1>5. QED
    <2>1. Fresh(p)'
      BY <1>1 DEF Local, Fresh, pvars, ivars
    <2>2. mResult[p] = <<>>
      BY <1>1 DEF Local, InPairs
    <2>3. InPairs(p)'
      BY <1>1, <1>2, <2>2 DEF Local, InPairs, rvars
    <2>4. QED
      BY <1>3, <1>4, <2>1, <2>3 DEF Local

LEMMA ReadLocal ==
    ASSUME TypeOK, NEW p \in Proc, Local(p), ReadLine(p) \/ ReadEof(p)
    PROVE  Local(p)'
  <1>1. /\ hpc[p] = "read" /\ Gets(p) /\ UNCHANGED <<cmd, errno, pvars, ivars, cut>>
    BY DEF ReadLine, ReadEof, gvars
  <1>2. /\ Lines(p) # <<>> /\ Head(file[p]) = Lines(p)[1] /\ Len(Lines(p)) > 0 /\ Len(Lines(p)) \in Nat
        /\ DOMAIN Lines(p)' = 1..(Len(Lines(p)) - 1) /\ Len(Lines(p)') = Len(Lines(p)) - 1
        /\ \A k \in 1..(Len(Lines(p)) - 1) : Lines(p)'[k] = Lines(p)[k + 1]
        /\ Lines(p)' = <<>> <=> Len(Lines(p)) = 1
        /\ DOMAIN Lines(p) = 1..Len(Lines(p))
    BY <1>1, Got, LinesTyped DEF pvars
  <1>3. busy'[p] = "said" => toIsql'[p] # <<>>
    BY <1>1 DEF Local, Fresh, pvars, ivars
  <1>4. cut[p] => late[p]
    BY <1>1, <1>2 DEF Local, CutShows, TypeOK
  <1>5. Expected(p) = cmd[p] /\ EndsOpen(p)' = EndsOpen(p)
    <2>1. hpc'[p] \in {"read", "checked"}
      BY DEF ReadLine, ReadEof, Go, TypeOK
    <2>2. QED
      BY <1>1, <2>1 DEF Expected, EndsOpen, ivars
  <1>6. CASE ReadEof(p)
    <2>1. hpc'[p] = "checked" /\ UNCHANGED <<mResult, late>> /\ Head(file[p]).text = "eof"
      BY <1>6 DEF ReadEof, Go, TypeOK, gvars
    <2>2. InPairs(p)'
      BY <1>1, <2>1, Passed
    <2>3. ~late[p] => Lines(p)' = <<>> /\ (isql[p] = "up" => toIsql[p] = <<>>)
      BY <1>1, <1>2, <2>1 DEF Local, OneAtATime
    <2>4. OneAtATime(p)'
      BY <1>1, <1>5, <2>1, <2>3 DEF Local, OneAtATime, Expected, pvars, ivars
    <2>5. CutShows(p)'
      BY <1>1, <1>4, <2>1 DEF CutShows
    <2>6. QED
      BY <1>3, <2>1, <2>2, <2>4, <2>5 DEF Local, Fresh
  <1>7. CASE ReadLine(p)
    <2>1. /\ Keep(p) /\ Head(file[p]).text # "eof" /\ hpc'[p] \in {"read", "checked"}
          /\ hpc'[p] = "checked" => late'[p]
          /\ hpc'[p] = "read" => late' = late
          /\ late[p] => late'[p]
      BY <1>1, <1>7 DEF ReadLine, Go, TypeOK
    <2>2. mResult'[p] = <<Lines(p)[1]>> /\ InPairs(p)'
      BY <1>1, <2>1, Kept
    <2>3. ~late[p] => \A k \in DOMAIN Lines(p)' :
             /\ Lines(p)'[k].cmd = Expected(p)
             /\ Lines(p)'[k].text = "eof" => k = Len(Lines(p)') /\ (isql[p] = "up" => toIsql[p] = <<>>)
      <3>1. \A k \in 1..(Len(Lines(p)) - 1) : k + 1 \in 1..Len(Lines(p)) /\ (k + 1 = Len(Lines(p)) => k = Len(Lines(p)) - 1)
        BY <1>2
      <3>2. QED
        BY <1>1, <1>2, <3>1 DEF Local, OneAtATime
    <2>4. ~late[p] => \A k \in DOMAIN mResult'[p] : mResult'[p][k].cmd = cmd[p]
      BY <1>1, <1>2, <1>5, <2>2 DEF Local, OneAtATime
    <2>5. Expected(p)' = cmd[p]
      BY <1>1, <2>1 DEF Expected
    <2>6. OneAtATime(p)'
      BY <1>1, <1>5, <2>1, <2>3, <2>4, <2>5 DEF Local, OneAtATime, pvars, ivars
    <2>7. CutShows(p)'
      BY <1>1, <1>4, <1>5, <2>1 DEF Local, CutShows
    <2>8. QED
      BY <1>3, <2>1, <2>2, <2>6, <2>7 DEF Local, Fresh
  <1>8. QED
    BY <1>6, <1>7

LEMMA ReadEndOfFileLocal ==
    ASSUME TypeOK, NEW p \in Proc, Local(p), ReadEndOfFile(p)
    PROVE  Local(p)'
  <1>1. /\ hpc[p] = "read" /\ hpc'[p] = "checked" /\ UNCHANGED <<cmd, file, pvars, ivars, gvars>>
        /\ \/ mResult'[p] = <<Says(cmd[p], "lost")>>
           \/ errno[p] = "any" /\ mResult' = mResult
    BY DEF ReadEndOfFile, Go, TypeOK
  <1>2. Lines(p) = <<>> /\ isql[p] # "up"
    BY Silent DEF ReadEndOfFile
  <1>3. Lines(p)' = <<>> /\ isql'[p] # "up" /\ DOMAIN Lines(p)' = {}
    BY <1>1, <1>2 DEF Lines, pvars, ivars
  <1>4. /\ Len(mResult'[p]) <= 1
        /\ ~late[p] => \A k \in DOMAIN mResult'[p] : mResult'[p][k].cmd = cmd[p]
    <2>1. CASE mResult'[p] = <<Says(cmd[p], "lost")>>
      <3>1. Len(mResult'[p]) = 1 /\ \A k \in DOMAIN mResult'[p] : mResult'[p][k] = Says(cmd[p], "lost")
        BY <2>1
      <3>2. QED
        BY <3>1 DEF Says
    <2>2. CASE mResult' = mResult
      BY <1>1, <2>2 DEF Local, InPairs, OneAtATime, Expected
    <2>3. QED
      BY <1>1, <2>1, <2>2
  <1>5. cut[p] => IsLost(p)'
    <2>1. cut[p] => errno[p] = "EPIPE"
      BY <1>1 DEF Local, CutShows
    <2>2. mResult'[p] = <<Says(cmd[p], "lost")>> => 1 \in DOMAIN mResult'[p] /\ mResult'[p][1].text = "lost"
      BY DEF Says
    <2>3. QED
      BY <1>1, <2>1, <2>2 DEF IsLost
  <1>6. Fresh(p)' /\ InPairs(p)'
    BY <1>1, <1>3, <1>4 DEF Local, Fresh, InPairs, pvars, ivars
  <1>7. OneAtATime(p)' /\ CutShows(p)'
    BY <1>1, <1>3, <1>4, <1>5 DEF OneAtATime, CutShows, Expected, gvars
  <1>8. QED
    BY <1>6, <1>7 DEF Local

LEMMA FillLocal ==
    ASSUME TypeOK, NEW p \in Proc, Local(p), Fill(p)
    PROVE  Local(p)'
  <1>1. /\ file[p] = <<>> /\ file'[p] = fromIsql[p] /\ fromIsql'[p] = <<>>
        /\ UNCHANGED <<hvars, mResult, toIsql, ivars, gvars>>
    BY DEF Fill, TypeOK
  <1>2. Lines(p)' = Lines(p)
    <2>1. fromIsql[p] \in Seq(Line)
      BY LinesTyped
    <2>2. fromIsql[p] \o <<>> = fromIsql[p] /\ <<>> \o fromIsql[p] = fromIsql[p]
      BY <2>1, ConcatEmptySeq
    <2>3. QED
      BY <1>1, <2>2 DEF Lines
  <1>3. NoLineBefore(p)' = NoLineBefore(p) /\ Expected(p)' = Expected(p) /\ EndsOpen(p)' = EndsOpen(p)
    BY <1>1 DEF NoLineBefore, Expected, EndsOpen, hvars, ivars
  <1>4. Fresh(p)' /\ InPairs(p)'
    BY <1>1, <1>2, <1>3 DEF Local, Fresh, InPairs, hvars, ivars, gvars
  <1>5. OneAtATime(p)' /\ CutShows(p)'
    BY <1>1, <1>2, <1>3 DEF Local, OneAtATime, CutShows, IsLost, hvars, ivars, gvars
  <1>6. QED
    BY <1>4, <1>5 DEF Local

(* isql: a line of an answer, its "$$EOF$$", its end. *)
LEMMA AnswerLocal ==
    ASSUME TypeOK, NEW p \in Proc, Local(p), Answer(p)
    PROVE  Local(p)'
  <1>1. /\ isql[p] = "up" /\ busy[p] = "idle" /\ busy'[p] = "said" /\ toIsql[p] # <<>>
        /\ UNCHANGED <<hvars, rvars, toIsql, isql, heirs, ends, gvars>>
    BY DEF Answer, TypeOK
  <1>2. PICK e \in Line : /\ e.cmd = Head(toIsql[p]) /\ e.text # "eof"
                          /\ fromIsql'[p] = Append(fromIsql[p], e)
    <2>1. PICK text \in {"ok", "refused", "comm", "lost"} :
             fromIsql' = [fromIsql EXCEPT ![p] = Append(@, Says(Head(toIsql[p]), text))]
      BY DEF Answer
    <2>2. toIsql[p] \in Seq(Nat) /\ toIsql[p] # <<>>
      BY <1>1, LinesTyped
    <2>3. Head(toIsql[p]) \in Nat
      BY <2>2
    <2>4. /\ Says(Head(toIsql[p]), text) \in Line
          /\ Says(Head(toIsql[p]), text).cmd = Head(toIsql[p])
          /\ Says(Head(toIsql[p]), text).text # "eof"
      BY <2>3 DEF Says, Line
    <2>5. fromIsql'[p] = Append(fromIsql[p], Says(Head(toIsql[p]), text))
      BY <2>1 DEF TypeOK
    <2>6. QED
      BY <2>4, <2>5
  <1>3. /\ Len(Lines(p)') = Len(Lines(p)) + 1 /\ DOMAIN Lines(p)' = 1..(Len(Lines(p)) + 1)
        /\ \A k \in 1..Len(Lines(p)) : Lines(p)'[k] = Lines(p)[k]
        /\ Lines(p)'[Len(Lines(p)) + 1] = e /\ Lines(p)' # <<>>
    BY <1>1, <1>2, Said DEF rvars
  <1>4. Len(Lines(p)) \in Nat /\ DOMAIN Lines(p) = 1..Len(Lines(p)) /\ (Lines(p) # <<>> => 1 \in 1..Len(Lines(p)))
    BY LinesTyped
  <1>5. /\ ~NoLineBefore(p) /\ NoLineBefore(p)'
    BY <1>1 DEF NoLineBefore
  <1>6. InPairs(p)'
    <2>1. ASSUME NEW k \in DOMAIN Lines(p)', Lines(p)'[k].text # "eof"
          PROVE  IF k < Len(Lines(p)') THEN Lines(p)'[k + 1].text = "eof" ELSE NoLineBefore(p)'
      <3>1. CASE k \in 1..Len(Lines(p))
        <4>1. k < Len(Lines(p)) /\ Lines(p)[k + 1].text = "eof"
          BY <1>3, <1>4, <1>5, <2>1, <3>1 DEF Local, InPairs
        <4>2. k + 1 \in 1..Len(Lines(p))
          BY <1>4, <3>1, <4>1
        <4>3. QED
          BY <1>3, <1>4, <3>1, <4>1, <4>2
      <3>2. CASE k = Len(Lines(p)) + 1
        BY <1>3, <1>4, <1>5, <3>2
      <3>3. QED
        BY <1>3, <1>4, <3>1, <3>2
    <2>2. ASSUME hpc[p] \in {"pong", "read"}, mResult[p] # <<>>
          PROVE  Lines(p)'[1].text = "eof"
      <3>1. Lines(p) # <<>> /\ Lines(p)[1].text = "eof"
        BY <1>5, <2>2 DEF Local, InPairs
      <3>2. QED
        BY <1>3, <1>4, <3>1
    <2>3. QED
      BY <1>1, <1>3, <2>1, <2>2 DEF Local, InPairs, hvars, rvars
  <1>7. OneAtATime(p)'
    <2>1. SUFFICES ASSUME ~late[p]
                   PROVE  OneAtATime(p)'
      BY <1>1 DEF OneAtATime, gvars
    <2>2. Expected(p)' = Expected(p)
      BY <1>1 DEF Expected, hvars
    <2>3. hpc[p] \notin {"next", "write", "checked"}
      BY <1>1, <2>1 DEF Local, OneAtATime
    <2>4. ASSUME hpc[p] \in {"pong", "select", "read"}
          PROVE  /\ toIsql[p] = <<Expected(p)>> /\ e.cmd = Expected(p)
                 /\ \A k \in 1..Len(Lines(p)) : Lines(p)[k].cmd = Expected(p) /\ Lines(p)[k].text # "eof"
      <3>1. toIsql[p] = <<Expected(p)>>
        BY <1>1, <2>1, <2>4 DEF Local, OneAtATime
      <3>2. \A k \in 1..Len(Lines(p)) : Lines(p)[k].cmd = Expected(p) /\ Lines(p)[k].text # "eof"
        BY <1>1, <1>4, <2>1, <2>4 DEF Local, OneAtATime
      <3>3. e.cmd = Expected(p)
        BY <1>2, <3>1
      <3>4. QED
        BY <3>1, <3>2, <3>3
    <2>5. hpc[p] \in {"pong", "select", "read"} =>
             \A k \in DOMAIN Lines(p)' : Lines(p)'[k].cmd = Expected(p) /\ Lines(p)'[k].text # "eof"
      BY <1>2, <1>3, <1>4, <2>4
    <2>6. QED
      BY <1>1, <2>1, <2>2, <2>3, <2>4, <2>5 DEF Local, OneAtATime, hvars, rvars, gvars
  <1>8. CutShows(p)'
    <2>1. EndsOpen(p)
      BY <1>1 DEF EndsOpen
    <2>2. QED
      BY <1>1, <2>1 DEF Local, CutShows, IsLost, hvars, rvars, gvars
  <1>9. Fresh(p)'
    BY <1>1 DEF Local, Fresh, hvars
  <1>10. QED
    BY <1>6, <1>7, <1>8, <1>9 DEF Local

LEMMA AnswerEndsLocal ==
    ASSUME TypeOK, NEW p \in Proc, Local(p), AnswerEnds(p)
    PROVE  Local(p)'
  <1>1. /\ isql[p] = "up" /\ busy[p] = "said" /\ busy'[p] = "idle" /\ toIsql'[p] = Tail(toIsql[p])
        /\ toIsql[p] # <<>>
        /\ UNCHANGED <<hvars, rvars, isql, heirs, ends, gvars>>
    BY DEF AnswerEnds, TypeOK, Local, Fresh
  <1>2. PICK e \in Line : /\ e.cmd = Head(toIsql[p]) /\ e.text = "eof"
                          /\ fromIsql'[p] = Append(fromIsql[p], e)
    <2>1. fromIsql'[p] = Append(fromIsql[p], Says(Head(toIsql[p]), "eof"))
      BY DEF AnswerEnds, TypeOK
    <2>2. toIsql[p] \in Seq(Nat) /\ toIsql[p] # <<>>
      BY <1>1, LinesTyped
    <2>3. Head(toIsql[p]) \in Nat
      BY <2>2
    <2>4. /\ Says(Head(toIsql[p]), "eof") \in Line
          /\ Says(Head(toIsql[p]), "eof").cmd = Head(toIsql[p])
          /\ Says(Head(toIsql[p]), "eof").text = "eof"
      BY <2>3 DEF Says, Line
    <2>5. QED
      BY <2>1, <2>4
  <1>3. /\ Len(Lines(p)') = Len(Lines(p)) + 1 /\ DOMAIN Lines(p)' = 1..(Len(Lines(p)) + 1)
        /\ \A k \in 1..Len(Lines(p)) : Lines(p)'[k] = Lines(p)[k]
        /\ Lines(p)'[Len(Lines(p)) + 1] = e /\ Lines(p)' # <<>>
    BY <1>1, <1>2, Said DEF rvars
  <1>4. Len(Lines(p)) \in Nat /\ DOMAIN Lines(p) = 1..Len(Lines(p)) /\ (Lines(p) # <<>> => 1 \in 1..Len(Lines(p)))
        /\ (Lines(p) = <<>> => Len(Lines(p)) = 0)
    BY LinesTyped
  <1>5. InPairs(p)'
    <2>1. ASSUME NEW k \in DOMAIN Lines(p)', Lines(p)'[k].text # "eof"
          PROVE  k < Len(Lines(p)') /\ Lines(p)'[k + 1].text = "eof"
      <3>1. k \in 1..Len(Lines(p))
        BY <1>2, <1>3, <1>4, <2>1
      <3>2. CASE k < Len(Lines(p))
        <4>1. Lines(p)[k + 1].text = "eof" /\ k + 1 \in 1..Len(Lines(p))
          BY <1>3, <1>4, <2>1, <3>1, <3>2 DEF Local, InPairs
        <4>2. QED
          BY <1>3, <1>4, <3>1, <4>1
      <3>3. CASE k = Len(Lines(p))
        BY <1>2, <1>3, <1>4, <3>3
      <3>4. QED
        BY <1>4, <3>1, <3>2, <3>3
    <2>2. ASSUME hpc[p] \in {"pong", "read"}, mResult[p] # <<>>
          PROVE  Lines(p)'[1].text = "eof"
      <3>1. CASE Lines(p) # <<>>
        <4>1. Lines(p)[1].text = "eof"
          BY <2>2, <3>1 DEF Local, InPairs
        <4>2. QED
          BY <1>3, <1>4, <3>1, <4>1
      <3>2. CASE Lines(p) = <<>>
        BY <1>2, <1>3, <1>4, <3>2
      <3>3. QED
        BY <3>1, <3>2
    <2>3. QED
      BY <1>1, <1>3, <2>1, <2>2 DEF Local, InPairs, hvars, rvars
  <1>6. OneAtATime(p)'
    <2>1. SUFFICES ASSUME ~late[p]
                   PROVE  OneAtATime(p)'
      BY <1>1 DEF OneAtATime, gvars
    <2>2. Expected(p)' = Expected(p)
      BY <1>1 DEF Expected, hvars
    <2>3. hpc[p] \notin {"next", "write", "checked"}
      BY <1>1, <2>1 DEF Local, OneAtATime
    <2>4. ASSUME hpc[p] \in {"pong", "select", "read"}
          PROVE  /\ toIsql'[p] = <<>> /\ e.cmd = Expected(p)
                 /\ \A k \in 1..Len(Lines(p)) : Lines(p)[k].cmd = Expected(p) /\ Lines(p)[k].text # "eof"
      <3>1. toIsql[p] = <<Expected(p)>>
        BY <1>1, <2>1, <2>4 DEF Local, OneAtATime
      <3>2. \A k \in 1..Len(Lines(p)) : Lines(p)[k].cmd = Expected(p) /\ Lines(p)[k].text # "eof"
        BY <1>1, <1>4, <2>1, <2>4 DEF Local, OneAtATime
      <3>3. e.cmd = Expected(p) /\ toIsql'[p] = <<>>
        BY <1>1, <1>2, <3>1
      <3>4. QED
        BY <3>1, <3>2, <3>3
    <2>5. hpc[p] \in {"pong", "select", "read"} =>
             \A k \in DOMAIN Lines(p)' : /\ Lines(p)'[k].cmd = Expected(p)
                                         /\ Lines(p)'[k].text = "eof" => k = Len(Lines(p)')
      BY <1>2, <1>3, <1>4, <2>4
    <2>6. QED
      BY <1>1, <2>1, <2>2, <2>3, <2>4, <2>5 DEF Local, OneAtATime, hvars, rvars, gvars
  <1>7. CutShows(p)'
    <2>1. EndsOpen(p)
      BY <1>1 DEF EndsOpen
    <2>2. QED
      BY <1>1, <2>1 DEF Local, CutShows, IsLost, hvars, rvars, gvars
  <1>8. Fresh(p)'
    BY <1>1 DEF Local, Fresh, hvars
  <1>9. QED
    BY <1>5, <1>6, <1>7, <1>8 DEF Local

LEMMA IsqlEndsLocal ==
    ASSUME TypeOK, NEW p \in Proc, Local(p), IsqlEnds(p)
    PROVE  Local(p)'
  <1>1. /\ isql[p] = "up" /\ isql'[p] = "gone" /\ busy'[p] = "idle"
        /\ UNCHANGED <<hvars, rvars, pvars, gvars>>
    BY DEF IsqlEnds, TypeOK
  <1>2. Lines(p)' = Lines(p) /\ NoLineBefore(p)' /\ EndsOpen(p) /\ Expected(p)' = Expected(p)
    BY <1>1 DEF Lines, NoLineBefore, EndsOpen, Expected, hvars, rvars, pvars
  <1>3. Fresh(p)' /\ InPairs(p)'
    BY <1>1, <1>2 DEF Local, Fresh, InPairs, hvars, rvars, pvars, gvars
  <1>4. OneAtATime(p)'
    BY <1>1, <1>2 DEF Local, OneAtATime, hvars, rvars, gvars
  <1>5. CutShows(p)'
    BY <1>1, <1>2 DEF Local, CutShows, IsLost, hvars, rvars, gvars
  <1>6. QED
    BY <1>3, <1>4, <1>5 DEF Local

-----------------------------------------------------------------------------
(* The inductive invariant. *)
Inv == TypeOK /\ Answered

LEMMA InitInv == Init => Inv
  <1> SUFFICES ASSUME Init PROVE Inv
    OBVIOUS
  <1>1. ASSUME NEW p \in Proc
        PROVE  Local(p)
    <2>1. file[p] = <<>> /\ fromIsql[p] = <<>> /\ mResult[p] = <<>> /\ hpc[p] = "next" /\ ~cut[p]
          /\ busy[p] = "idle" /\ isql[p] = "none"
      BY DEF Init
    <2>2. Lines(p) = <<>>
      BY <2>1 DEF Lines
    <2>3. DOMAIN Lines(p) = {} /\ Len(mResult[p]) <= 1
      BY <2>1, <2>2
    <2>4. QED
      BY <2>1, <2>2, <2>3 DEF Local, Fresh, InPairs, OneAtATime, CutShows
  <1>2. QED
    BY <1>1, InitTyped DEF Inv, Answered, Local

LEMMA NextInv == Inv /\ [Next]_vars => Inv'
  <1> SUFFICES ASSUME Inv, [Next]_vars PROVE Inv'
    OBVIOUS
  <1>1. TypeOK /\ \A p \in Proc : Local(p)
    BY DEF Inv, Answered, Local
  <1>2. ASSUME NEW p \in Proc, TypeOK', Local(p)', \A q \in Proc \ {p} : Apart(q)
        PROVE  Inv'
    <2>1. \A q \in Proc \ {p} : Local(q)'
      BY <1>1, <1>2, ApartLocal
    <2>2. QED
      BY <1>2, <2>1 DEF Inv, Answered, Local
  <1>3. ASSUME NEW p \in Proc, LaborerStep(p)
        PROVE  Inv'
    <2>1. CASE NextCommand(p) \/ NoMoreCommands(p) \/ Relogon(p) \/ TakeResult(p)
      <3>1. TypeOK' /\ Local(p)' /\ \A q \in Proc \ {p} : Apart(q)
        BY <1>1, <1>3, <2>1, CommandTyped, CommandLocal, CommandApart DEF LaborerStep
      <3>2. QED
        BY <1>2, <3>1
    <2>2. CASE LogonStep(p)
      <3>1. TypeOK' /\ \A q \in Proc \ {p} : Apart(q)
        BY <1>1, <1>3, <2>2, LogonTyped, LogonApart DEF LaborerStep
      <3>2. Local(p)'
        BY <1>1, <2>2, OpenLocal, PingLocal, PongLocal, PongEndOfFileLocal DEF LogonStep
      <3>3. QED
        BY <1>2, <3>1, <3>2
    <2>3. CASE ExecuteStep(p) \/ Fill(p)
      <3>1. TypeOK' /\ \A q \in Proc \ {p} : Apart(q)
        BY <1>1, <1>3, <2>3, ExecuteTyped, ExecuteApart DEF LaborerStep
      <3>2. Local(p)'
        BY <1>1, <2>3, WriteLocal, SelectLocal, ReadLocal, ReadEndOfFileLocal, FillLocal DEF ExecuteStep
      <3>3. QED
        BY <1>2, <3>1, <3>2
    <2>4. QED
      BY <1>3, <2>1, <2>2, <2>3 DEF LaborerStep
  <1>4. ASSUME NEW p \in Proc, IsqlStep(p) \/ (IsqlEnds(p) /\ UNCHANGED limit)
        PROVE  Inv'
    <2>1. UNCHANGED limit /\ (Answer(p) \/ AnswerEnds(p) \/ IsqlEnds(p))
      BY <1>4 DEF IsqlStep
    <2>2. TypeOK' /\ \A q \in Proc \ {p} : Apart(q)
      BY <1>1, <2>1, IsqlTyped, IsqlApart DEF Local
    <2>3. Local(p)'
      BY <1>1, <2>1, AnswerLocal, AnswerEndsLocal, IsqlEndsLocal
    <2>4. QED
      BY <1>2, <2>2, <2>3
  <1>5. CASE UNCHANGED vars
    <2>1. TypeOK'
      BY <1>1, <1>5 DEF vars, hvars, rvars, pvars, ivars, gvars, TypeOK
    <2>2. \A q \in Proc : Apart(q)
      BY <1>5 DEF vars, hvars, rvars, pvars, ivars, gvars, Apart
    <2>3. QED
      BY <1>1, <2>1, <2>2, ApartLocal DEF Inv, Answered, Local
  <1>6. QED
    BY <1>3, <1>4, <1>5 DEF Next, Terminated

LEMMA Invariance == Spec => []Inv
  BY InitInv, NextInv, PTL DEF Spec

(* A result that a laborer takes is the answer to its command, unless an   *)
(* earlier execution of the session left an answer behind; it is never     *)
(* made of two answers; and a session that was gone is noticed: OwnAnswer  *)
(* for any number of laborers, commands and ends of isql.                  *)
THEOREM AnswersAreOwn == Spec => []OwnAnswer
  <1>1. ASSUME Inv PROVE OwnAnswer
    <2> SUFFICES ASSUME NEW p \in Proc, hpc[p] = "checked"
                 PROVE  /\ ~late[p] => \A k \in DOMAIN mResult[p] : mResult[p][k].cmd = cmd[p]
                        /\ \A j, k \in DOMAIN mResult[p] : mResult[p][j].cmd = mResult[p][k].cmd
                        /\ cut[p] /\ ~late[p] => IsLost(p)
      BY DEF OwnAnswer
    <2>1. TypeOK /\ InPairs(p) /\ OneAtATime(p) /\ CutShows(p)
      BY <1>1 DEF Inv, Answered
    <2>2. ~late[p] => \A k \in DOMAIN mResult[p] : mResult[p][k].cmd = cmd[p]
      BY <2>1 DEF OneAtATime, Expected
    <2>3. \A j, k \in DOMAIN mResult[p] : j = k
      <3>1. mResult[p] \in Seq(Line) /\ Len(mResult[p]) <= 1
        BY <2>1, LinesTyped DEF InPairs
      <3>2. QED
        BY <3>1
    <2>4. QED
      BY <2>1, <2>2, <2>3 DEF CutShows
  <1>2. QED
    BY <1>1, Invariance, PTL
==============================================================================
