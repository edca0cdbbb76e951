------------------------- MODULE ServiceManagerProofs -------------------------
(***************************************************************************)
(* What the ats service hands out and leaves behind: theorems about        *)
(* ServiceManager for every number of requests, processes and faults.      *)
(***************************************************************************)
EXTENDS ServiceManager, SequenceTheorems, TLAPS

(* What is left when one entry of a sequence is erased. *)
LEMMA Erased ==
    ASSUME NEW S, NEW s \in Seq(S), NEW i \in DOMAIN s
    PROVE  /\ RemoveAt(s, i) \in Seq(S)
           /\ DOMAIN RemoveAt(s, i) = 1..(Len(s) - 1)
           /\ \A j \in 1..(Len(s) - 1) : RemoveAt(s, i)[j] = IF j < i THEN s[j] ELSE s[j + 1]
  <1> DEFINE a == SubSeq(s, 1, i - 1)
             b == SubSeq(s, i + 1, Len(s))
  <1>1. i \in 1..Len(s) /\ Len(s) \in Nat
    OBVIOUS
  <1>2. a \in Seq(S) /\ Len(a) = i - 1 /\ \A j \in 1..(i - 1) : a[j] = s[j]
    BY <1>1
  <1>3. b \in Seq(S) /\ Len(b) = Len(s) - i /\ \A j \in 1..(Len(s) - i) : b[j] = s[j + i]
    BY <1>1
  <1> HIDE DEF a, b
  <1>4. a \o b \in Seq(S) /\ Len(a \o b) = Len(s) - 1
    BY <1>1, <1>2, <1>3
  <1>5. ASSUME NEW j \in 1..(Len(s) - 1)
        PROVE  (a \o b)[j] = IF j < i THEN s[j] ELSE s[j + 1]
    <2>1. CASE j < i
      <3>1. j \in 1..(i - 1) /\ a[j] = s[j]
        BY <1>1, <1>2, <2>1
      <3>2. (a \o b)[j] = a[j]
        BY <1>2, <1>3, <3>1
      <3>3. QED
        BY <2>1, <3>1, <3>2
    <2>2. CASE j >= i
      <3>1. j - (i - 1) \in 1..(Len(s) - i) /\ (j - (i - 1)) + i = j + 1
        BY <1>1, <2>2
      <3>2. (a \o b)[j] = b[j - (i - 1)]
        BY <1>1, <1>2, <1>3, <2>2
      <3>3. b[j - (i - 1)] = s[(j - (i - 1)) + i]
        BY <1>3, <3>1
      <3>4. ~(j < i)
        BY <1>1, <2>2
      <3>5. QED
        BY <3>1, <3>2, <3>3, <3>4
    <2>3. j < i \/ j >= i
      BY <1>1
    <2>4. QED
      BY <2>1, <2>2, <2>3
  <1>6. RemoveAt(s, i) = a \o b
    BY DEF RemoveAt, a, b
  <1>7. QED
    BY <1>1, <1>4, <1>5, <1>6

-----------------------------------------------------------------------------
(* The types. *)
LEMMA HandleRunTyped ==
    ASSUME TypeOK, NEW r \in Req, HandleRunStep(r)
    PROVE  TypeOK'
  <1>0. mServicerList \in Seq(Req)
    BY DEF TypeOK
  <1>1. CASE HandleRun(r) \/ Initialize(r) \/ InitializeFails(r) \/ StartFails(r) \/ DestroyServicer(r) \/ Reply(r)
    BY <1>1 DEF HandleRun, Initialize, InitializeFails, StartFails, DestroyServicer, Reply,
       TypeOK, Goto, Objects, avars, ovars
  <1>2. CASE AddService(r)
    <2>1. Append(mServicerList, r) \in Seq(Req)
      BY <1>0
    <2>2. QED
      BY <1>2, <2>1 DEF AddService, TypeOK, Goto, avars, ovars
  <1>3. CASE StartServicer(r)
    <2>1. spc' \in [Req -> {"none", "parse", "load", "loading", "run", "register", "insert",
                            "end", "ending", "ended"}]
      BY <1>3 DEF StartServicer, TypeOK
    <2>2. QED
      BY <1>3, <2>1 DEF StartServicer, TypeOK, Goto, avars
  <1>4. CASE Join(r)
    <2>1. mMessage[r] \in {"", "verdict", "ERROR"}
      BY DEF TypeOK
    <2>2. reply' \in [Req -> {"none", "", "verdict", "ERROR", "IGNR"}]
      BY <1>4, <2>1 DEF Join, TypeOK
    <2>3. QED
      BY <1>4, <2>2 DEF Join, TypeOK, Goto, avars, ovars
  <1>5. CASE RmService(r)
    <2>1. mServicerList' \in Seq(Req)
      BY <1>0, <1>5, Erased DEF RmService
    <2>2. QED
      BY <1>5, <2>1 DEF RmService, TypeOK, Goto, avars, ovars
  <1>6. QED
    BY <1>1, <1>2, <1>3, <1>4, <1>5 DEF HandleRunStep

LEMMA ServicerTyped ==
    ASSUME TypeOK, NEW r \in Req, ServicerStep(r)
    PROVE  TypeOK'
  <1> DEFINE Places == {"none", "parse", "load", "loading", "run", "register", "insert",
                        "end", "ending", "ended"}
  <1>0. \A place \in Places : Move(r, place) => spc' \in [Req -> Places]
    BY DEF Move, TypeOK
  <1>1. spc' \in [Req -> Places]
    <2>1. CASE Parse(r) \/ Load(r) \/ Loaded(r) \/ RegisterHandle(r) \/ StartLaborer(r)
      BY <1>0, <2>1 DEF Parse, Load, Loaded, RegisterHandle, StartLaborer
    <2>2. CASE StartLaborerFails(r) \/ InsertLaborer(r) \/ RunFails(r) \/ Judge(r) \/ EndLaborer(r)
               \/ LaborersEnded(r)
      BY <1>0, <2>2 DEF StartLaborerFails, InsertLaborer, RunFails, Judge, EndLaborer, LaborersEnded
    <2>3. ASSUME NEW p \in Proc, DeleteLaborer(r, p) \/ DeleteLaborerFails(r, p)
          PROVE  spc' \in [Req -> Places]
      BY <1>0, <2>3 DEF DeleteLaborer, DeleteLaborerFails, TypeOK
    <2>4. QED
      BY <2>1, <2>2, <2>3 DEF ServicerStep
  <1>2. CASE Parse(r) \/ Load(r) \/ Loaded(r) \/ RegisterHandle(r)
    BY <1>1, <1>2 DEF Parse, Load, Loaded, RegisterHandle, TypeOK, hvars, avars
  <1>3. CASE StartLaborer(r)
    <2>1. /\ laborer' \in [Req -> [Proc -> Objects]]
          /\ lthread' \in [Req -> [Proc -> {"none", "poll", "locked", "exited"}]]
      BY <1>3 DEF StartLaborer, TypeOK, Objects
    <2>2. QED
      BY <1>1, <1>3, <2>1 DEF StartLaborer, TypeOK, hvars, avars
  <1>4. CASE StartLaborerFails(r) \/ RunFails(r) \/ Judge(r)
    <2>1. mMessage' \in [Req -> {"", "verdict", "ERROR"}] /\ mMutex' \in {Free} \cup Req \cup Asker
      BY <1>4 DEF StartLaborerFails, RunFails, Judge, TypeOK
    <2>2. UNCHANGED <<hvars, avars, smutex, mLaborer, laborer, lthread, mServicerList, servicer>>
      BY <1>4 DEF StartLaborerFails, RunFails, Judge
    <2>3. QED
      BY <1>1, <2>1, <2>2 DEF TypeOK, hvars, avars
  <1>5. CASE InsertLaborer(r) \/ LaborersEnded(r) \/ EndLaborer(r)
    <2>1. mLaborer \in [Req -> SUBSET Proc] /\ smutex \in [Req -> {Free, "servicer"} \cup Asker]
      BY DEF TypeOK
    <2>2. /\ mLaborer' \in [Req -> SUBSET Proc]
          /\ smutex' \in [Req -> {Free, "servicer"} \cup Asker]
      <3>1. CASE InsertLaborer(r)
        BY <2>1, <3>1 DEF InsertLaborer
      <3>2. CASE LaborersEnded(r) \/ EndLaborer(r)
        BY <2>1, <3>2 DEF LaborersEnded, EndLaborer
      <3>3. QED
        BY <1>5, <3>1, <3>2
    <2>3. UNCHANGED <<hvars, avars, laborer, lthread, mMessage, mMutex, mServicerList, servicer>>
      BY <1>5 DEF InsertLaborer, LaborersEnded, EndLaborer
    <2>4. QED
      BY <1>1, <2>2, <2>3 DEF TypeOK, hvars, avars
  <1>6. ASSUME NEW p \in Proc, DeleteLaborer(r, p)
        PROVE  TypeOK'
    <2>1. laborer' \in [Req -> [Proc -> Objects]]
      BY <1>6 DEF DeleteLaborer, TypeOK, Objects
    <2>2. QED
      BY <1>6, <2>1 DEF DeleteLaborer, TypeOK, hvars, avars
  <1>7. ASSUME NEW p \in Proc, DeleteLaborerFails(r, p)
        PROVE  TypeOK'
    <2>1. smutex' \in [Req -> {Free, "servicer"} \cup Asker]
      BY <1>7 DEF DeleteLaborerFails, TypeOK
    <2>2. QED
      BY <1>1, <1>7, <2>1 DEF DeleteLaborerFails, TypeOK, hvars, avars
  <1>8. QED
    BY <1>2, <1>3, <1>4, <1>5, <1>6, <1>7 DEF ServicerStep

LEMMA LaborerTyped ==
    ASSUME TypeOK, NEW r \in Req, NEW p \in Proc, LaborerLock(r, p) \/ LaborerUnlock(r, p)
    PROVE  TypeOK'
  <1>1. lthread' \in [Req -> [Proc -> {"none", "poll", "locked", "exited"}]]
    <2>1. lthread \in [Req -> [Proc -> {"none", "poll", "locked", "exited"}]]
      BY DEF TypeOK
    <2>2. PICK place \in {"poll", "locked", "exited"} : lthread' = [lthread EXCEPT ![r][p] = place]
      BY DEF LaborerLock, LaborerUnlock
    <2>3. QED
      BY <2>1, <2>2
  <1>2. QED
    BY <1>1 DEF LaborerLock, LaborerUnlock, TypeOK, hvars, avars

LEMMA StatusTyped ==
    ASSUME TypeOK, NEW a \in Asker, HandleStatusStep(a)
    PROVE  TypeOK'
  <1>1. at \in [Asker -> Nat] /\ \A n \in Nat : n + 1 \in Nat
    <2>1. at \in [Asker -> Nat]
      BY DEF TypeOK
    <2>2. QED
      BY <2>1
  <1>2. at' \in [Asker -> Nat]
    <2>1. at[a] + 1 \in Nat
      BY <1>1
    <2>2. QED
      BY <1>1, <2>1 DEF HandleStatusStep, HandleStatus, StatusEnters, StatusLeaves, StatusReplies
  <1>3. /\ apc' \in [Asker -> {"idle", "list", "servicer", "replied"}]
        /\ smutex' \in [Req -> {Free, "servicer"} \cup Asker]
        /\ mMutex' \in {Free} \cup Req \cup Asker
    <2>1. /\ apc \in [Asker -> {"idle", "list", "servicer", "replied"}]
          /\ smutex \in [Req -> {Free, "servicer"} \cup Asker]
          /\ mMutex \in {Free} \cup Req \cup Asker
      BY DEF TypeOK
    <2>2. CASE HandleStatus(a) \/ StatusReplies(a)
      BY <2>1, <2>2 DEF HandleStatus, StatusReplies, ovars
    <2>3. CASE StatusEnters(a) \/ StatusLeaves(a)
      BY <2>1, <2>3 DEF StatusEnters, StatusLeaves
    <2>4. QED
      BY <2>2, <2>3 DEF HandleStatusStep
  <1>4. UNCHANGED <<hvars, spc, mLaborer, laborer, lthread, mMessage, mServicerList, servicer>>
    BY DEF HandleStatusStep, HandleStatus, StatusEnters, StatusLeaves, StatusReplies, ovars
  <1>5. QED
    BY <1>2, <1>3, <1>4 DEF TypeOK, hvars

-----------------------------------------------------------------------------
(* Who holds the mutexes. *)
LEMMA Names ==
    ASSUME NEW r \in Req, NEW a \in Asker
    PROVE  r # a /\ r # Free /\ a # Free /\ a # "servicer"
  BY NamesAssumption DEF Free

LEMMA HandleRunHolders ==
    ASSUME TypeOK, Holders, NEW r \in Req, Request(r), HandleRunStep(r)
    PROVE  Holders'
  <1>1. UNCHANGED <<apc, at, mMutex, smutex>>
    BY DEF HandleRunStep, HandleRun, Initialize, InitializeFails, AddService, StartServicer,
       StartFails, Join, RmService, DestroyServicer, Reply, avars, ovars
  <1>2. \A q \in Req : spc'[q] = spc[q] \/ (spc[q] = "none" /\ spc'[q] = "parse")
    BY DEF TypeOK, HandleRunStep, HandleRun, Initialize, InitializeFails, AddService, StartServicer,
       StartFails, Join, RmService, DestroyServicer, Reply, ovars, Request
  <1>3. CASE mServicerList' = mServicerList
    BY <1>1, <1>2, <1>3 DEF Holders
  <1>4. CASE AddService(r) \/ RmService(r)
    <2>1. mMutex = Free
      BY <1>4 DEF AddService, RmService
    <2>2. \A a \in Asker : apc[a] \notin {"list", "servicer"}
      BY <2>1, Names DEF Holders
    <2>3. QED
      BY <1>1, <1>2, <2>2 DEF Holders
  <1>5. QED
    BY <1>3, <1>4 DEF HandleRunStep, HandleRun, Initialize, InitializeFails, StartServicer,
       StartFails, Join, DestroyServicer, Reply

LEMMA ServicerHolders ==
    ASSUME TypeOK, Holders, NEW r \in Req, ServicerStep(r)
    PROVE  Holders'
  <1> DEFINE Inside == {"loading", "register"}
  <1>1. UNCHANGED <<apc, at, mServicerList>>
    BY DEF ServicerStep, Parse, Load, Loaded, RegisterHandle, StartLaborer, StartLaborerFails,
       InsertLaborer, RunFails, Judge, EndLaborer, DeleteLaborer, DeleteLaborerFails, LaborersEnded, avars
  <1>2. \A q \in Req \ {r} : spc'[q] = spc[q] /\ smutex'[q] = smutex[q]
    BY DEF ServicerStep, Parse, Load, Loaded, RegisterHandle, StartLaborer, StartLaborerFails,
       InsertLaborer, RunFails, Judge, EndLaborer, DeleteLaborer, DeleteLaborerFails, LaborersEnded,
       Move, TypeOK
  <1>3. /\ \/ spc[r] \in Inside /\ spc'[r] \notin Inside /\ mMutex' = Free
           \/ spc[r] \notin Inside /\ spc'[r] \in Inside /\ mMutex = Free /\ mMutex' = r
           \/ spc[r] \notin Inside /\ spc'[r] \notin Inside /\ mMutex' = mMutex
        /\ \/ spc[r] = "ending" /\ spc'[r] # "ending" /\ smutex'[r] = Free
           \/ spc[r] # "ending" /\ spc'[r] = "ending" /\ smutex[r] = Free /\ smutex'[r] = "servicer"
           \/ (spc[r] = "ending" <=> spc'[r] = "ending") /\ smutex'[r] = smutex[r]
    <2>1. CASE Parse(r) \/ Load(r) \/ Loaded(r) \/ RegisterHandle(r) \/ StartLaborer(r)
      BY <2>1 DEF Parse, Load, Loaded, RegisterHandle, StartLaborer, Move, TypeOK
    <2>2. CASE StartLaborerFails(r) \/ InsertLaborer(r) \/ RunFails(r) \/ Judge(r)
      BY <2>2 DEF StartLaborerFails, InsertLaborer, RunFails, Judge, Move, TypeOK
    <2>3. CASE EndLaborer(r) \/ LaborersEnded(r)
      BY <2>3 DEF EndLaborer, LaborersEnded, Move, TypeOK
    <2>4. ASSUME NEW p \in Proc, DeleteLaborer(r, p) \/ DeleteLaborerFails(r, p)
          PROVE  /\ spc[r] = "ending" /\ mMutex' = mMutex
                 /\ \/ spc'[r] = "ending" /\ smutex'[r] = smutex[r]
                    \/ spc'[r] = "ended" /\ smutex'[r] = Free
      BY <2>4 DEF DeleteLaborer, DeleteLaborerFails, ToDelete, Move, TypeOK
    <2>5. QED
      BY <2>1, <2>2, <2>3, <2>4 DEF ServicerStep
  <1>4. /\ \A a \in Asker : mMutex' = a <=> mMutex = a
        /\ \A q \in Req : mMutex' = q <=> spc'[q] \in Inside
    BY <1>2, <1>3, Names, NamesAssumption DEF Holders, Free
  <1>5. /\ \A q \in Req : spc'[q] = "ending" <=> smutex'[q] = "servicer"
        /\ \A a \in Asker, q \in Req : smutex'[q] = a <=> smutex[q] = a
    BY <1>2, <1>3, Names DEF Holders, Free
  <1>6. \A a \in Asker : apc[a] = "servicer" => mServicerList[at[a]] \in Req
    <2>1. \A i \in DOMAIN mServicerList : mServicerList[i] \in Req
      <3>1. mServicerList \in Seq(Req)
        BY DEF TypeOK
      <3>2. QED
        BY <3>1
    <2>2. QED
      BY <2>1 DEF Holders
  <1>7. QED
    BY <1>1, <1>4, <1>5, <1>6 DEF Holders

LEMMA StatusHolders ==
    ASSUME TypeOK, Holders, NEW a \in Asker, HandleStatusStep(a)
    PROVE  Holders'
  <1>1. UNCHANGED <<spc, mServicerList>> /\ \A b \in Asker \ {a} : apc'[b] = apc[b] /\ at'[b] = at[b]
    BY DEF HandleStatusStep, HandleStatus, StatusEnters, StatusLeaves, StatusReplies, ovars, TypeOK
  <1>2. mServicerList \in Seq(Req) /\ \A i \in DOMAIN mServicerList : mServicerList[i] \in Req
    <2>1. mServicerList \in Seq(Req)
      BY DEF TypeOK
    <2>2. QED
      BY <2>1
  <1>3. CASE HandleStatus(a)
    <2>1. /\ apc[a] = "idle" /\ mMutex = Free /\ mMutex' = a /\ apc'[a] = "list" /\ smutex' = smutex
      BY <1>3 DEF HandleStatus, TypeOK, ovars
    <2>2. \A q \in Req : q # a /\ q # Free
      BY Names
    <2>3. \A b \in Asker : b # Free
      BY NamesAssumption DEF Free
    <2>4. \A b \in Asker \ {a} : apc[b] \notin {"list", "servicer"}
      BY <2>1, <2>3 DEF Holders
    <2>5. QED
      BY <1>1, <2>1, <2>2, <2>4 DEF Holders
  <1>4. CASE StatusReplies(a)
    <2>1. /\ apc[a] = "list" /\ mMutex' = Free /\ apc'[a] = "replied" /\ smutex' = smutex /\ at' = at
      BY <1>4 DEF StatusReplies, TypeOK, ovars
    <2>2. mMutex = a
      BY <2>1 DEF Holders
    <2>3. \A q \in Req : q # a /\ q # Free
      BY Names
    <2>4. \A b \in Asker : b # Free
      BY NamesAssumption DEF Free
    <2>5. QED
      BY <1>1, <2>1, <2>2, <2>3, <2>4 DEF Holders
  <1>5. CASE StatusEnters(a)
    <2>1. /\ apc[a] = "list" /\ mMutex' = mMutex /\ apc'[a] = "servicer" /\ at' = at
          /\ at[a] \in DOMAIN mServicerList /\ smutex[mServicerList[at[a]]] = Free
          /\ smutex' = [smutex EXCEPT ![mServicerList[at[a]]] = a]
      BY <1>5 DEF StatusEnters, TypeOK
    <2>2. mMutex = a /\ \A b \in Asker \ {a} : apc[b] \notin {"list", "servicer"}
      BY <2>1 DEF Holders
    <2>3. PICK r \in Req : r = mServicerList[at[a]]
      BY <1>2, <2>1
    <2>4. smutex'[r] = a /\ \A q \in Req \ {r} : smutex'[q] = smutex[q]
      BY <2>1, <2>3 DEF TypeOK
    <2>5. a # "servicer" /\ a # Free /\ Free # "servicer"
      BY NamesAssumption DEF Free
    <2>6. \A q \in Req : spc[q] = "ending" <=> smutex'[q] = "servicer"
      BY <2>1, <2>3, <2>4, <2>5 DEF Holders
    <2>7. \A b \in Asker, q \in Req : smutex'[q] = b => apc'[b] = "servicer" /\ mServicerList[at[b]] = q
      BY <1>1, <2>1, <2>2, <2>3, <2>4 DEF Holders
    <2>8. QED
      BY <1>1, <2>1, <2>2, <2>3, <2>4, <2>6, <2>7 DEF Holders
  <1>6. CASE StatusLeaves(a)
    <2>1. /\ apc[a] = "servicer" /\ mMutex' = mMutex /\ apc'[a] = "list"
          /\ smutex' = [smutex EXCEPT ![mServicerList[at[a]]] = Free]
      BY <1>6 DEF StatusLeaves, TypeOK
    <2>2. mMutex = a /\ \A b \in Asker \ {a} : apc[b] \notin {"list", "servicer"}
      BY <2>1 DEF Holders
    <2>3. PICK r \in Req : r = mServicerList[at[a]] /\ smutex[r] = a
      BY <1>2, <2>1 DEF Holders
    <2>4. smutex'[r] = Free /\ \A q \in Req \ {r} : smutex'[q] = smutex[q]
      BY <2>1, <2>3 DEF TypeOK
    <2>5. a # "servicer" /\ Free # "servicer" /\ \A b \in Asker : b # Free
      BY NamesAssumption DEF Free
    <2>6. \A q \in Req : spc[q] = "ending" <=> smutex'[q] = "servicer"
      BY <2>3, <2>4, <2>5 DEF Holders
    <2>7. \A b \in Asker, q \in Req : smutex'[q] # b
      BY <2>2, <2>3, <2>4, <2>5 DEF Holders
    <2>8. QED
      BY <1>1, <2>1, <2>2, <2>6, <2>7 DEF Holders
  <1>7. QED
    BY <1>3, <1>4, <1>5, <1>6 DEF HandleStatusStep

-----------------------------------------------------------------------------
(* A request and its entry in the list. *)
LEMMA SameRequest ==
    ASSUME NEW q \in Req, Request(q), Listed(q)' => Listed(q),
           hpc'[q] = hpc[q], spc'[q] = spc[q], servicer'[q] = servicer[q],
           mMessage'[q] = mMessage[q], reply'[q] = reply[q]
    PROVE  Request(q)'
  BY DEF Request, NeverStarted

LEMMA SameLaborers ==
    ASSUME NEW q \in Req, Laborers(q), spc'[q] = spc[q], mLaborer'[q] = mLaborer[q],
           laborer'[q] = laborer[q], lthread'[q] = lthread[q], mMessage'[q] = mMessage[q]
    PROVE  Laborers(q)'
  BY DEF Laborers, Alive

(* addService and rmService: no request is in the list twice, and what is  *)
(* taken out is gone.                                                      *)
LEMMA Adding ==
    ASSUME TypeOK, Once, NEW r \in Req, ~Listed(r), mServicerList' = Append(mServicerList, r)
    PROVE  Once' /\ \A q \in Req \ {r} : Listed(q)' => Listed(q)
  <1>1. mServicerList \in Seq(Req)
    BY DEF TypeOK
  <1>2. /\ Len(mServicerList) \in Nat /\ DOMAIN mServicerList = 1..Len(mServicerList)
        /\ DOMAIN mServicerList' = 1..(Len(mServicerList) + 1)
        /\ \A i \in 1..Len(mServicerList) : mServicerList'[i] = mServicerList[i]
        /\ mServicerList'[Len(mServicerList) + 1] = r
    BY <1>1
  <1>3. \A i \in DOMAIN mServicerList' : i \in DOMAIN mServicerList \/ mServicerList'[i] = r
    <2>1. \A i \in DOMAIN mServicerList' : i \in 1..Len(mServicerList) \/ i = Len(mServicerList) + 1
      BY <1>2
    <2>2. QED
      BY <1>2, <2>1
  <1>4. \A i \in DOMAIN mServicerList : mServicerList[i] # r
    BY DEF Listed
  <1>5. \A q \in Req \ {r} : Listed(q)' => Listed(q)
    BY <1>2, <1>3 DEF Listed
  <1>6. ASSUME NEW i \in DOMAIN mServicerList', NEW j \in DOMAIN mServicerList',
               mServicerList'[i] = mServicerList'[j]
        PROVE  i = j
    <2>1. CASE mServicerList'[i] = r
      <3>1. i \notin 1..Len(mServicerList) /\ j \notin 1..Len(mServicerList)
        BY <1>2, <1>4, <1>6, <2>1
      <3>2. QED
        BY <1>2, <3>1
    <2>2. CASE mServicerList'[i] # r
      <3>1. i \in DOMAIN mServicerList /\ j \in DOMAIN mServicerList
        BY <1>3, <1>6, <2>2
      <3>2. mServicerList[i] = mServicerList[j]
        BY <1>2, <1>6, <3>1
      <3>3. QED
        BY <3>1, <3>2 DEF Once
    <2>3. QED
      BY <2>1, <2>2
  <1>7. QED
    BY <1>5, <1>6 DEF Once

LEMMA Removing ==
    ASSUME TypeOK, Once, NEW r \in Req, RmService(r)
    PROVE  Once' /\ ~Listed(r)' /\ \A q \in Req : Listed(q)' => Listed(q)
  <1>1. CASE ~Listed(r) /\ UNCHANGED mServicerList
    BY <1>1 DEF Listed, Once
  <1>2. ASSUME NEW i \in DOMAIN mServicerList, mServicerList[i] = r,
               mServicerList' = RemoveAt(mServicerList, i)
        PROVE  Once' /\ ~Listed(r)' /\ \A q \in Req : Listed(q)' => Listed(q)
    <2>1. mServicerList \in Seq(Req)
      BY DEF TypeOK
    <2>2. /\ DOMAIN mServicerList = 1..Len(mServicerList) /\ Len(mServicerList) \in Nat
          /\ DOMAIN mServicerList' = 1..(Len(mServicerList) - 1)
          /\ \A j \in 1..(Len(mServicerList) - 1) :
                mServicerList'[j] = IF j < i THEN mServicerList[j] ELSE mServicerList[j + 1]
      BY <1>2, <2>1, Erased
    <2> DEFINE Old(j) == IF j < i THEN j ELSE j + 1
    <2>3. \A j \in 1..(Len(mServicerList) - 1) :
             Old(j) \in DOMAIN mServicerList /\ Old(j) # i /\ mServicerList'[j] = mServicerList[Old(j)]
      <3>1. i \in 1..Len(mServicerList)
        BY <2>2
      <3>2. \A j \in 1..(Len(mServicerList) - 1) : Old(j) \in 1..Len(mServicerList) /\ Old(j) # i
        BY <2>2, <3>1
      <3>3. QED
        BY <2>2, <3>2
    <2>4. \A j, k \in 1..(Len(mServicerList) - 1) : Old(j) = Old(k) => j = k
      BY <2>2
    <2> HIDE DEF Old
    <2>5. Once'
      <3>1. ASSUME NEW j \in DOMAIN mServicerList', NEW k \in DOMAIN mServicerList',
                   mServicerList'[j] = mServicerList'[k]
            PROVE  j = k
        <4>1. Old(j) = Old(k)
          BY <2>2, <2>3, <3>1 DEF Once
        <4>2. QED
          BY <2>2, <2>4, <4>1
      <3>2. QED
        BY <3>1 DEF Once
    <2>6. \A q \in Req : Listed(q)' => Listed(q)
      BY <2>2, <2>3 DEF Listed
    <2>7. \A j \in DOMAIN mServicerList' : mServicerList'[j] # r
      BY <1>2, <2>2, <2>3 DEF Once
    <2>8. QED
      BY <2>5, <2>6, <2>7 DEF Listed
  <1>3. QED
    BY <1>1, <1>2 DEF RmService

LEMMA HandleRunServed ==
    ASSUME TypeOK, Once, Served, NEW r \in Req, HandleRunStep(r)
    PROVE  Once' /\ Served'
  <1>1. /\ \A q \in Req \ {r} : /\ hpc'[q] = hpc[q] /\ spc'[q] = spc[q] /\ reply'[q] = reply[q]
                                /\ servicer'[q] = servicer[q]
        /\ UNCHANGED <<mLaborer, laborer, lthread, mMessage>>
    BY DEF HandleRunStep, HandleRun, Initialize, InitializeFails, AddService, StartServicer,
       StartFails, Join, RmService, DestroyServicer, Reply, Goto, ovars, TypeOK
  <1>2. Request(r) /\ Laborers(r) /\ \A q \in Req : Request(q) /\ Laborers(q)
    BY DEF Served
  <1>3. Once' /\ (\A q \in Req \ {r} : Listed(q)' => Listed(q))
    <2>1. CASE AddService(r)
      <3>1. ~Listed(r) /\ mServicerList' = Append(mServicerList, r)
        BY <1>2, <2>1 DEF AddService, Request
      <3>2. QED
        BY <3>1, Adding
    <2>2. CASE RmService(r)
      BY <2>2, Removing
    <2>3. CASE mServicerList' = mServicerList
      BY <2>3 DEF Once, Listed
    <2>4. QED
      BY <2>1, <2>2, <2>3 DEF HandleRunStep, HandleRun, Initialize, InitializeFails, StartServicer,
         StartFails, Join, DestroyServicer, Reply
  <1>4. \A q \in Req \ {r} : Request(q)' /\ Laborers(q)'
    BY <1>1, <1>2, <1>3, SameRequest, SameLaborers
  <1>5. Laborers(r)'
    <2>1. CASE StartServicer(r)
      <3>1. spc[r] = "none" /\ spc'[r] = "parse"
        BY <1>2, <2>1 DEF StartServicer, Request, TypeOK
      <3>2. QED
        BY <1>1, <1>2, <3>1 DEF Laborers, Alive
    <2>2. CASE spc' = spc
      BY <1>1, <1>2, <2>2, SameLaborers
    <2>3. QED
      BY <2>1, <2>2 DEF HandleRunStep, HandleRun, Initialize, InitializeFails, AddService,
         StartFails, Join, RmService, DestroyServicer, Reply, ovars
  <1>6. Request(r)'
    <2>1. CASE HandleRun(r) \/ Initialize(r)
      <3>1. /\ hpc[r] \in {"idle", "initialize"} /\ hpc'[r] \in {"initialize", "add"}
            /\ servicer'[r] = "alive" /\ UNCHANGED <<spc, reply, mServicerList>>
        BY <1>2, <2>1 DEF HandleRun, Initialize, Goto, Request, TypeOK, ovars
      <3>2. QED
        BY <1>2, <3>1 DEF Request, Listed
    <2>2. CASE InitializeFails(r)
      <3>1. /\ hpc[r] = "initialize" /\ hpc'[r] = "delete" /\ reply'[r] = "IGNR"
            /\ UNCHANGED <<spc, mServicerList>>
        BY <2>2 DEF InitializeFails, Goto, TypeOK, ovars
      <3>2. QED
        BY <1>2, <3>1 DEF Request, Listed
    <2>3. CASE AddService(r)
      <3>1. /\ hpc[r] = "add" /\ hpc'[r] = "start" /\ UNCHANGED <<spc, servicer>>
        BY <2>3 DEF AddService, Goto, TypeOK, ovars
      <3>2. QED
        BY <1>2, <3>1 DEF Request
    <2>4. CASE StartServicer(r)
      <3>1. /\ hpc[r] = "start" /\ hpc'[r] = "join" /\ UNCHANGED servicer
        BY <2>4 DEF StartServicer, Goto, TypeOK
      <3>2. QED
        BY <1>2, <3>1 DEF Request
    <2>5. CASE StartFails(r)
      <3>1. /\ hpc[r] = "start" /\ hpc'[r] = "delete" /\ reply'[r] = "IGNR" /\ UNCHANGED spc
        BY <2>5 DEF StartFails, Goto, TypeOK, ovars
      <3>2. QED
        BY <1>2, <3>1 DEF Request, NeverStarted
    <2>6. CASE Join(r)
      <3>1. /\ hpc[r] = "join" /\ hpc'[r] = "rm" /\ spc'[r] = "ended" /\ reply'[r] = mMessage'[r]
            /\ UNCHANGED servicer
        BY <2>6 DEF Join, Goto, TypeOK, ovars
      <3>2. QED
        BY <1>2, <3>1 DEF Request
    <2>7. CASE RmService(r)
      <3>1. /\ hpc[r] = "rm" /\ hpc'[r] = "destroy" /\ UNCHANGED <<spc, reply, mMessage>>
        BY <2>7 DEF RmService, Goto, TypeOK, ovars
      <3>2. ~Listed(r)'
        BY <2>7, Removing
      <3>3. QED
        BY <1>2, <3>1, <3>2 DEF Request
    <2>8. CASE DestroyServicer(r)
      <3>1. /\ hpc[r] = "destroy" /\ hpc'[r] = "delete" /\ UNCHANGED <<spc, mMessage, mServicerList>>
            /\ reply'[r] \in {reply[r], "IGNR"}
        BY <2>8 DEF DestroyServicer, Goto, TypeOK, ovars
      <3>2. QED
        BY <1>2, <3>1 DEF Request, Listed
    <2>9. CASE Reply(r)
      <3>1. /\ hpc[r] = "delete" /\ hpc'[r] = "replied" /\ servicer'[r] = "deleted"
            /\ UNCHANGED <<spc, mMessage, mServicerList, reply>>
        BY <2>9 DEF Reply, Goto, TypeOK, ovars
      <3>2. QED
        BY <1>2, <3>1 DEF Request, Listed, NeverStarted
    <2>10. QED
      BY <2>1, <2>2, <2>3, <2>4, <2>5, <2>6, <2>7, <2>8, <2>9 DEF HandleRunStep
  <1>7. QED
    BY <1>3, <1>4, <1>5, <1>6 DEF Served

(* The laborers of a Servicer. *)
LEMMA ServicerServed ==
    ASSUME TypeOK, Once, Served, NEW r \in Req, ServicerStep(r)
    PROVE  Once' /\ Served'
  <1>1. UNCHANGED <<hvars, mServicerList, servicer>>
    BY DEF ServicerStep, Parse, Load, Loaded, RegisterHandle, StartLaborer, StartLaborerFails,
       InsertLaborer, RunFails, Judge, EndLaborer, DeleteLaborer, DeleteLaborerFails, LaborersEnded
  <1>2. \A q \in Req \ {r} : /\ spc'[q] = spc[q] /\ mLaborer'[q] = mLaborer[q]
                             /\ laborer'[q] = laborer[q] /\ lthread'[q] = lthread[q]
                             /\ mMessage'[q] = mMessage[q]
    <2>1. CASE Parse(r) \/ Load(r) \/ Loaded(r) \/ RegisterHandle(r) \/ StartLaborer(r)
      BY <2>1 DEF Parse, Load, Loaded, RegisterHandle, StartLaborer, Move, TypeOK
    <2>2. CASE StartLaborerFails(r) \/ RunFails(r) \/ Judge(r)
      BY <2>2 DEF StartLaborerFails, RunFails, Judge, Move, TypeOK
    <2>3. CASE InsertLaborer(r) \/ EndLaborer(r) \/ LaborersEnded(r)
      BY <2>3 DEF InsertLaborer, EndLaborer, LaborersEnded, Move, TypeOK
    <2>4. ASSUME NEW p \in Proc, DeleteLaborer(r, p) \/ DeleteLaborerFails(r, p),
                 NEW q \in Req \ {r}
          PROVE  /\ spc'[q] = spc[q] /\ mLaborer'[q] = mLaborer[q] /\ laborer'[q] = laborer[q]
                 /\ lthread'[q] = lthread[q] /\ mMessage'[q] = mMessage[q]
      BY <2>4 DEF DeleteLaborer, DeleteLaborerFails, Move, TypeOK
    <2>5. QED
      BY <2>1, <2>2, <2>3, <2>4 DEF ServicerStep
  <1>3. Request(r) /\ Laborers(r) /\ \A q \in Req : Request(q) /\ Laborers(q)
    BY DEF Served
  <1>4. Once' /\ \A q \in Req : Listed(q)' => Listed(q)
    BY <1>1 DEF Once, Listed
  <1>5. \A q \in Req \ {r} : Request(q)' /\ Laborers(q)'
    BY <1>1, <1>2, <1>3, <1>4, SameRequest, SameLaborers DEF hvars
  <1>6. Request(r)'
    <2>1. spc[r] \notin {"none", "ended"}
      BY DEF ServicerStep, Parse, Load, Loaded, RegisterHandle, StartLaborer, StartLaborerFails,
         InsertLaborer, RunFails, Judge, EndLaborer, DeleteLaborer, DeleteLaborerFails, LaborersEnded,
         ToDelete
    <2>2. QED
      BY <1>1, <1>3, <1>4, <2>1 DEF Request, NeverStarted, hvars
  <1>7. Laborers(r)'
    <2>1. CASE Parse(r) \/ Load(r) \/ Loaded(r)
      <3>1. /\ spc[r] \in {"parse", "load", "loading"}
            /\ spc'[r] \in {"load", "loading", "run", "ended"}
            /\ UNCHANGED <<mLaborer, laborer, lthread, mMessage>>
        BY <2>1 DEF Parse, Load, Loaded, Move, TypeOK
      <3>2. \A p \in Proc : laborer[r][p] = "none" /\ lthread[r][p] = "none"
        BY <1>3, <3>1 DEF Laborers
      <3>3. QED
        BY <1>3, <3>1, <3>2 DEF Laborers, Alive
    <2>2. CASE RegisterHandle(r) \/ StartLaborerFails(r) \/ RunFails(r)
      <3>1. /\ spc[r] \in {"run", "register"} /\ spc'[r] \in {"register", "end"}
            /\ UNCHANGED <<mLaborer, laborer, lthread>>
            /\ spc'[r] = "end" => mMessage'[r] = "ERROR"
        BY <2>2 DEF RegisterHandle, StartLaborerFails, RunFails, Move, TypeOK
      <3>2. QED
        BY <1>3, <3>1 DEF Laborers, Alive
    <2>3. CASE StartLaborer(r)
      <3>1. PICK p : /\ laborer' = [laborer EXCEPT ![r][p] = "alive"]
                     /\ lthread' = [lthread EXCEPT ![r][p] = "poll"]
        BY <2>3 DEF StartLaborer
      <3>2. /\ laborer'[r] = [laborer[r] EXCEPT ![p] = "alive"]
            /\ lthread'[r] = [lthread[r] EXCEPT ![p] = "poll"]
            /\ laborer[r] \in [Proc -> Objects] /\ DOMAIN lthread[r] = Proc
        BY <3>1 DEF TypeOK
      <3>3. \A q \in Proc : /\ laborer'[r][q] = IF q = p THEN "alive" ELSE laborer[r][q]
                            /\ lthread'[r][q] = IF q = p THEN "poll" ELSE lthread[r][q]
        BY <3>2
      <3>4. spc[r] = "register" /\ spc'[r] = "insert" /\ UNCHANGED <<mLaborer, mMessage>>
        BY <2>3 DEF StartLaborer, Move, TypeOK
      <3>5. Alive(r) \subseteq Alive(r)'
        BY <3>3 DEF Alive
      <3>6. mLaborer'[r] \subseteq Alive(r)'
        BY <1>3, <3>4, <3>5 DEF Laborers
      <3>7. \A q \in Proc : /\ laborer'[r][q] = "none" => lthread'[r][q] = "none"
                            /\ laborer'[r][q] \in {"none", "alive"}
        BY <1>3, <3>3, <3>4 DEF Laborers
      <3>8. QED
        BY <3>4, <3>6, <3>7 DEF Laborers
    <2>4. CASE InsertLaborer(r)
      <3>1. /\ spc[r] = "insert" /\ spc'[r] = "run" /\ mLaborer'[r] = Alive(r)'
            /\ UNCHANGED <<laborer, lthread>>
        BY <2>4 DEF InsertLaborer, Move, TypeOK, Alive
      <3>2. \A p \in Proc : /\ laborer'[r][p] \in {"none", "alive"}
                            /\ laborer'[r][p] = "none" => lthread'[r][p] = "none"
        BY <1>3, <3>1 DEF Laborers
      <3>3. QED
        BY <3>1, <3>2 DEF Laborers
    <2>5. CASE Judge(r)
      <3>1. /\ spc[r] = "run" /\ spc'[r] = "end" /\ mMessage'[r] = "verdict"
            /\ \A p \in mLaborer[r] : lthread[r][p] = "exited"
            /\ UNCHANGED <<mLaborer, laborer, lthread>>
        BY <2>5 DEF Judge, Move, TypeOK
      <3>2. /\ \A p \in Proc : lthread[r][p] \in {"none", "exited"}
            /\ Alive(r)' = Alive(r)
        BY <1>3, <3>1 DEF Laborers, Alive
      <3>3. QED
        BY <1>3, <3>1, <3>2 DEF Laborers
    <2>6. CASE EndLaborer(r)
      <3>1. /\ spc[r] = "end" /\ spc'[r] = "ending"
            /\ UNCHANGED <<mLaborer, laborer, lthread, mMessage>>
        BY <2>6 DEF EndLaborer, Move, TypeOK
      <3>2. QED
        BY <1>3, <3>1 DEF Laborers, Alive
    <2>7. ASSUME NEW p \in Proc, DeleteLaborer(r, p)
          PROVE  Laborers(r)'
      <3>1. /\ spc[r] = "ending" /\ UNCHANGED <<spc, mLaborer, lthread, mMessage>>
            /\ laborer' = [laborer EXCEPT ![r][p] = "deleted"]
        BY <2>7 DEF DeleteLaborer, ToDelete
      <3>2. \A q \in Proc : laborer'[r][q] = IF q = p THEN "deleted" ELSE laborer[r][q]
        <4>1. /\ laborer'[r] = [laborer[r] EXCEPT ![p] = "deleted"] /\ laborer[r] \in [Proc -> Objects]
          BY <3>1 DEF TypeOK
        <4>2. QED
          BY <4>1
      <3>3. Alive(r)' \subseteq Alive(r)
        BY <3>2 DEF Alive
      <3>4. QED
        BY <1>3, <3>1, <3>2, <3>3 DEF Laborers
    <2>8. ASSUME NEW p \in Proc, DeleteLaborerFails(r, p)
          PROVE  Laborers(r)'
      <3>1. /\ spc[r] = "ending" /\ spc'[r] = "ended" /\ lthread[r][p] = "locked"
            /\ UNCHANGED <<mLaborer, laborer, lthread, mMessage>>
        BY <2>8 DEF DeleteLaborerFails, ToDelete, Move, TypeOK
      <3>2. mMessage[r] = "ERROR"
        BY <1>3, <3>1 DEF Laborers
      <3>3. QED
        BY <1>3, <3>1, <3>2 DEF Laborers
    <2>9. CASE LaborersEnded(r)
      <3>1. /\ spc[r] = "ending" /\ spc'[r] = "ended" /\ mLaborer'[r] = {}
            /\ \A p \in mLaborer[r] : laborer[r][p] = "deleted"
            /\ UNCHANGED <<laborer, lthread, mMessage>>
        BY <2>9 DEF LaborersEnded, Move, TypeOK
      <3>2. Alive(r)' = {}
        BY <1>3, <3>1 DEF Laborers, Alive
      <3>3. QED
        BY <1>3, <3>1, <3>2 DEF Laborers
    <2>10. QED
      BY <2>1, <2>2, <2>3, <2>4, <2>5, <2>6, <2>7, <2>8, <2>9 DEF ServicerStep
  <1>8. QED
    BY <1>4, <1>5, <1>6, <1>7 DEF Served

LEMMA LaborerServed ==
    ASSUME TypeOK, Once, Served, NEW r \in Req, NEW p \in Proc, LaborerLock(r, p) \/ LaborerUnlock(r, p)
    PROVE  Once' /\ Served'
  <1>1. /\ UNCHANGED <<hvars, mServicerList, servicer, spc, mLaborer, laborer, mMessage>>
        /\ laborer[r][p] = "alive" /\ lthread[r][p] \in {"poll", "locked"}
        /\ \E place \in {"poll", "locked", "exited"} : lthread' = [lthread EXCEPT ![r][p] = place]
    BY DEF LaborerLock, LaborerUnlock
  <1>2. /\ \A q \in Req \ {r} : lthread'[q] = lthread[q]
        /\ \A o \in Proc \ {p} : lthread'[r][o] = lthread[r][o]
    <2>1. PICK place : lthread' = [lthread EXCEPT ![r][p] = place]
      BY <1>1
    <2>2. lthread \in [Req -> [Proc -> {"none", "poll", "locked", "exited"}]]
      BY DEF TypeOK
    <2>3. QED
      BY <2>1, <2>2
  <1>3. \A q \in Req : Request(q) /\ Laborers(q)
    BY DEF Served
  <1>4. Once' /\ \A q \in Req : Listed(q)' => Listed(q)
    BY <1>1 DEF Once, Listed
  <1>5. \A q \in Req : Request(q)'
    BY <1>1, <1>3 DEF hvars, Request, Listed, NeverStarted
  <1>6. \A q \in Req \ {r} : Laborers(q)'
    BY <1>1, <1>2, <1>3, SameLaborers
  <1>7. Laborers(r)'
    <2>1. /\ Alive(r)' = Alive(r)
          /\ \A o \in Proc : laborer[r][o] = "none" => lthread'[r][o] = "none"
      BY <1>1, <1>2, <1>3 DEF Alive, Laborers
    <2>2. ~(spc[r] \in {"end", "ending", "ended"} /\ mMessage[r] = "verdict")
      BY <1>1, <1>3 DEF Laborers
    <2>3. QED
      BY <1>1, <1>3, <2>1, <2>2 DEF Laborers
  <1>8. QED
    BY <1>4, <1>5, <1>6, <1>7 DEF Served

-----------------------------------------------------------------------------
(* The inductive invariant. *)
Inv == TypeOK /\ Holders /\ Once /\ Served

LEMMA InitInv == Init => Inv
  <1> SUFFICES ASSUME Init PROVE Inv
    OBVIOUS
  <1>1. mServicerList \in Seq(Req) /\ DOMAIN mServicerList = {}
    <2>1. mServicerList = <<>>
      BY DEF Init
    <2>2. QED
      BY <2>1
  <1>2. TypeOK
    BY <1>1 DEF Init, TypeOK, Objects
  <1>3. Holders
    BY <1>1, NamesAssumption DEF Init, Holders, Free
  <1>4. Once /\ \A r \in Req : Request(r)
    BY <1>1 DEF Init, Once, Request, Listed
  <1>5. \A r \in Req : Laborers(r)
    BY DEF Init, Laborers, Alive
  <1>6. QED
    BY <1>2, <1>3, <1>4, <1>5 DEF Inv, Served

LEMMA NextInv == Inv /\ [Next]_vars => Inv'
  <1> SUFFICES ASSUME Inv, [Next]_vars PROVE Inv'
    OBVIOUS
  <1>0. TypeOK /\ Holders /\ Once /\ Served
    BY DEF Inv
  <1>1. ASSUME NEW r \in Req, HandleRunStep(r)
        PROVE  Inv'
    <2>1. Request(r)
      BY <1>0 DEF Served
    <2>2. QED
      BY <1>0, <1>1, <2>1, HandleRunTyped, HandleRunHolders, HandleRunServed DEF Inv
  <1>2. ASSUME NEW r \in Req, ServicerStep(r)
        PROVE  Inv'
    BY <1>0, <1>2, ServicerTyped, ServicerHolders, ServicerServed DEF Inv
  <1>3. ASSUME NEW r \in Req, NEW p \in Proc, LaborerLock(r, p) \/ LaborerUnlock(r, p)
        PROVE  Inv'
    <2>1. Holders'
      BY <1>0, <1>3 DEF LaborerLock, LaborerUnlock, avars, Holders
    <2>2. QED
      BY <1>0, <1>3, <2>1, LaborerTyped, LaborerServed DEF Inv
  <1>4. ASSUME NEW a \in Asker, HandleStatusStep(a)
        PROVE  Inv'
    <2>1. UNCHANGED <<hvars, mServicerList, servicer, spc, mLaborer, laborer, lthread, mMessage>>
      BY <1>4 DEF HandleStatusStep, HandleStatus, StatusEnters, StatusLeaves, StatusReplies, ovars
    <2>2. Once' /\ Served'
      BY <1>0, <2>1 DEF hvars, Once, Served, Request, Listed, NeverStarted, Laborers, Alive
    <2>3. QED
      BY <1>0, <1>4, <2>2, StatusTyped, StatusHolders DEF Inv
  <1>5. CASE UNCHANGED vars
    <2>1. TypeOK'
      BY <1>0, <1>5 DEF vars, hvars, avars, ovars, TypeOK
    <2>2. Holders'
      BY <1>0, <1>5 DEF vars, avars, ovars, Holders
    <2>3. Once' /\ Served'
      BY <1>0, <1>5 DEF vars, hvars, ovars, Once, Served, Request, Listed, NeverStarted, Laborers, Alive
    <2>4. QED
      BY <2>1, <2>2, <2>3 DEF Inv
  <1>6. QED
    BY <1>1, <1>2, <1>3, <1>4, <1>5 DEF Next, Done

LEMMA Invariance == Spec => []Inv
  BY InitInv, NextInv, PTL DEF Spec

-----------------------------------------------------------------------------
(* Every variable keeps its type, whatever the requests and their faults.  *)
THEOREM TypeInvariance == Spec => []TypeOK
  <1>1. Inv => TypeOK
    BY DEF Inv
  <1>2. QED
    BY <1>1, Invariance, PTL

(* A Servicer that handleStatus is in has not been destroyed by handleRun, *)
(* unless its thread never started, and its laborers not been deleted by   *)
(* endLaborer, unless that gave up: StatusFindsAlive for any number of     *)
(* requests, processes and askers.                                         *)
THEOREM StatusFinds == Spec => []StatusFindsAlive
  <1>1. ASSUME Inv PROVE StatusFindsAlive
    <2> SUFFICES ASSUME NEW a \in Asker, apc[a] = "servicer"
                 PROVE  LET r == mServicerList[at[a]]
                        IN  /\ servicer[r] = "alive" \/ NeverStarted(r)
                            /\ \A p \in mLaborer[r] :
                                  laborer[r][p] = "alive" \/ (spc[r] = "ended" /\ mMessage[r] = "ERROR")
      BY DEF StatusFindsAlive
    <2>1. mServicerList \in Seq(Req) /\ at[a] \in DOMAIN mServicerList /\ smutex[mServicerList[at[a]]] = a
      BY <1>1 DEF Inv, TypeOK, Holders
    <2>2. PICK r \in Req : r = mServicerList[at[a]]
      BY <2>1
    <2>3. Listed(r) /\ Request(r) /\ Laborers(r)
      BY <1>1, <2>1, <2>2 DEF Listed, Inv, Served
    <2>4. servicer[r] = "alive" \/ NeverStarted(r)
      BY <2>3 DEF Request
    <2>5. spc[r] # "ending"
      <3>1. smutex[r] # "servicer"
        BY <2>1, <2>2, Names
      <3>2. QED
        BY <1>1, <3>1 DEF Inv, Holders
    <2>6. /\ mLaborer[r] \subseteq Proc
          /\ spc[r] \in {"none", "parse", "load", "loading", "run", "register", "insert", "end", "ending", "ended"}
      BY <1>1 DEF Inv, TypeOK
    <2>7. \A p \in mLaborer[r] : laborer[r][p] = "alive" \/ (spc[r] = "ended" /\ mMessage[r] = "ERROR")
      BY <2>3, <2>5, <2>6 DEF Laborers, Alive
    <2>8. QED
      BY <2>2, <2>4, <2>7
  <1>2. QED
    BY <1>1, Invariance, PTL

(* A request that is answered with its verdict has given back all it took: *)
(* VerdictLeavesNothing for any number of requests, processes and askers.  *)
THEOREM VerdictLeaves == Spec => []VerdictLeavesNothing
  <1>1. ASSUME Inv PROVE VerdictLeavesNothing
    <2> SUFFICES ASSUME NEW r \in Req, hpc[r] = "replied", reply[r] = "verdict"
                 PROVE  /\ servicer[r] = "deleted" /\ smutex[r] = Free
                        /\ \A i \in DOMAIN mServicerList : mServicerList[i] # r
                        /\ spc[r] = "ended" /\ mLaborer[r] = {}
                        /\ \A p \in Proc : laborer[r][p] # "alive" /\ lthread[r][p] \in {"none", "exited"}
      BY DEF VerdictLeavesNothing
    <2>1. Request(r) /\ Laborers(r)
      BY <1>1 DEF Inv, Served
    <2>2. /\ servicer[r] = "deleted" /\ spc[r] = "ended" /\ mMessage[r] = "verdict"
          /\ ~Listed(r)
      BY <2>1 DEF Request, NeverStarted
    <2>3. \A i \in DOMAIN mServicerList : mServicerList[i] # r
      BY <2>2 DEF Listed
    <2>4. mLaborer[r] = {} /\ \A p \in Proc : laborer[r][p] # "alive" /\ lthread[r][p] \in {"none", "exited"}
      BY <2>1, <2>2 DEF Laborers, Alive
    <2>5. smutex[r] = Free
      <3>1. smutex[r] \in {Free, "servicer"} \cup Asker
        BY <1>1 DEF Inv, TypeOK
      <3>2. smutex[r] # "servicer"
        BY <1>1, <2>2 DEF Inv, Holders
      <3>3. ASSUME NEW a \in Asker, smutex[r] = a
            PROVE  FALSE
        BY <1>1, <2>3, <3>3 DEF Inv, Holders
      <3>4. QED
        BY <3>1, <3>2, <3>3
    <2>6. QED
      BY <2>2, <2>3, <2>4, <2>5
  <1>2. QED
    BY <1>1, Invariance, PTL
=============================================================================
