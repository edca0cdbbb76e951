-------------------------- MODULE AtsClientProofs ---------------------------
(***************************************************************************)
(* Theorems about the client and its lists of test cases, for every set of *)
(* list files, users' lists, recovery points and replies of the service:   *)
(* the types, the merge of the user's list, the requests with their links, *)
(* and the turns of the recovery points.                                   *)
(***************************************************************************)
EXTENDS AtsClient, SequenceTheorems, FiniteSetTheorems, WellFoundedInduction, TLAPS

-----------------------------------------------------------------------------
(* Helpers of sequences, element by element. *)
LEMMA FrontSeq ==
    ASSUME NEW S, NEW s \in Seq(S), s # <<>>
    PROVE  /\ Front(s) \in Seq(S)
           /\ Len(Front(s)) = Len(s) - 1
           /\ \A k \in 1..(Len(s) - 1) : Front(s)[k] = s[k]
           /\ Last(s) \in S
  <1>1. Len(s) \in Nat /\ Len(s) >= 1 /\ \A k \in 1..Len(s) : s[k] \in S
    OBVIOUS
  <1> DEFINE n == Len(s) - 1
  <1>2. n \in Nat /\ \A k \in 1..n : s[k] \in S /\ 1 + k - 1 = k
    BY <1>1
  <1>3. Last(s) \in S
    BY <1>1 DEF Last
  <1>4. Front(s) = SubSeq(s, 1, n)
    BY DEF Front
  <1> HIDE DEF n
  <1>5. /\ SubSeq(s, 1, n) \in Seq(S)
        /\ Len(SubSeq(s, 1, n)) = IF 1 <= n THEN n - 1 + 1 ELSE 0
        /\ \A k \in 1..(n - 1 + 1) : SubSeq(s, 1, n)[k] = s[1 + k - 1]
    BY <1>2, SubSeqProperties
  <1>6. Len(SubSeq(s, 1, n)) = n /\ 1..(n - 1 + 1) = 1..n
    BY <1>2, <1>5
  <1>7. \A k \in 1..n : SubSeq(s, 1, n)[k] = s[k]
    BY <1>2, <1>5, <1>6
  <1>8. Front(s) \in Seq(S) /\ Len(Front(s)) = n /\ \A k \in 1..n : Front(s)[k] = s[k]
    BY <1>4, <1>5, <1>6, <1>7
  <1>9. QED
    BY <1>3, <1>8 DEF n

(* The elements of two sequences one behind the other. *)
LEMMA ConcatAt ==
    ASSUME NEW S, NEW s \in Seq(S), NEW t \in Seq(S)
    PROVE  /\ s \o t \in Seq(S)
           /\ Len(s \o t) = Len(s) + Len(t)
           /\ \A k \in 1..Len(s) : (s \o t)[k] = s[k]
           /\ \A k \in 1..Len(t) : (s \o t)[Len(s) + k] = t[k]
  <1>1. /\ s \o t \in Seq(S)
        /\ Len(s \o t) = Len(s) + Len(t)
        /\ \A i \in 1..(Len(s) + Len(t)) : (s \o t)[i] = IF i <= Len(s) THEN s[i] ELSE t[i - Len(s)]
    BY ConcatProperties
  <1>2. ASSUME NEW k \in 1..Len(s)
        PROVE  (s \o t)[k] = s[k]
    <2>1. k \in 1..(Len(s) + Len(t)) /\ k <= Len(s)
      OBVIOUS
    <2>2. QED
      BY <1>1, <2>1
  <1>3. ASSUME NEW k \in 1..Len(t)
        PROVE  (s \o t)[Len(s) + k] = t[k]
    <2>1. Len(s) + k \in 1..(Len(s) + Len(t)) /\ ~(Len(s) + k <= Len(s)) /\ (Len(s) + k) - Len(s) = k
      OBVIOUS
    <2>2. QED
      BY <1>1, <2>1
  <1>4. QED
    BY <1>1, <1>2, <1>3

LEMMA InsertAtSeq ==
    ASSUME NEW S, NEW s \in Seq(S), NEW i \in 1..(Len(s) + 1), NEW e \in S
    PROVE  /\ InsertAt(s, i, e) \in Seq(S)
           /\ Len(InsertAt(s, i, e)) = Len(s) + 1
           /\ \A k \in 1..(i - 1) : InsertAt(s, i, e)[k] = s[k]
           /\ InsertAt(s, i, e)[i] = e
           /\ \A k \in i..Len(s) : InsertAt(s, i, e)[k + 1] = s[k]
  <1>0. Len(s) \in Nat /\ (\A k \in 1..Len(s) : s[k] \in S) /\ i \in Nat /\ i - 1 \in Nat /\ Len(s) - i + 1 \in Nat
    OBVIOUS
  <1> DEFINE a == SubSeq(s, 1, i - 1)
             b == SubSeq(s, i, Len(s))
             c == a \o <<e>>
             n == Len(s) - i + 1
  <1>1. a \in Seq(S) /\ Len(a) = i - 1 /\ \A k \in 1..(i - 1) : a[k] = s[k]
    BY <1>0, SubSeqProperties
  <1>2. b \in Seq(S) /\ Len(b) = n /\ \A k \in 1..n : b[k] = s[i + k - 1]
    BY <1>0, SubSeqProperties
  <1>3. <<e>> \in Seq(S) /\ Len(<<e>>) = 1 /\ <<e>>[1] = e
    OBVIOUS
  <1>4. InsertAt(s, i, e) = c \o b
    BY DEF InsertAt
  <1>5. n \in Nat /\ i + n = Len(s) + 1 /\ (i - 1) + 1 = i
    BY <1>0
  <1> HIDE DEF a, b, n
  <1>6. /\ c \in Seq(S) /\ Len(c) = (i - 1) + 1
        /\ \A k \in 1..(i - 1) : c[k] = a[k]
        /\ \A k \in 1..1 : c[(i - 1) + k] = <<e>>[k]
    BY <1>0, <1>1, <1>3, ConcatAt
  <1>7. Len(c) = i /\ c[i] = e
    BY <1>0, <1>3, <1>5, <1>6
  <1> HIDE DEF c
  <1>8. /\ c \o b \in Seq(S) /\ Len(c \o b) = i + n
        /\ \A k \in 1..i : (c \o b)[k] = c[k]
        /\ \A k \in 1..n : (c \o b)[i + k] = b[k]
    <2>1. c \in Seq(S) /\ b \in Seq(S) /\ i \in Nat /\ n \in Nat /\ Len(c) = i /\ Len(b) = n
      BY <1>0, <1>2, <1>5, <1>6, <1>7
    <2>2. /\ c \o b \in Seq(S) /\ Len(c \o b) = Len(c) + Len(b)
          /\ \A k \in 1..Len(c) : (c \o b)[k] = c[k]
          /\ \A k \in 1..Len(b) : (c \o b)[Len(c) + k] = b[k]
      <3>1. c \in Seq(S) /\ b \in Seq(S)
        BY <2>1
      <3>2. QED
        BY ONLY <3>1, ConcatAt
    <2>3. QED
      BY <2>1, <2>2
  <1>9. ASSUME NEW k \in i..Len(s)
        PROVE  (c \o b)[k + 1] = s[k]
    <2>1. k - i + 1 \in 1..n /\ i + (k - i + 1) = k + 1 /\ i + (k - i + 1) - 1 = k
      BY <1>0, <1>5 DEF n
    <2>2. (c \o b)[i + (k - i + 1)] = b[k - i + 1] /\ b[k - i + 1] = s[i + (k - i + 1) - 1]
      BY <1>2, <1>8, <2>1
    <2>3. QED
      BY <2>1, <2>2
  <1>10. \A k \in 1..(i - 1) : (c \o b)[k] = s[k]
    BY <1>0, <1>1, <1>6, <1>8
  <1>11. (c \o b)[i] = e
    BY <1>0, <1>7, <1>8
  <1>12. QED
    BY <1>4, <1>5, <1>8, <1>9, <1>10, <1>11

LEMMA RemoveAtSeq ==
    ASSUME NEW S, NEW s \in Seq(S), NEW i \in 1..Len(s)
    PROVE  /\ RemoveAt(s, i) \in Seq(S)
           /\ Len(RemoveAt(s, i)) = Len(s) - 1
           /\ \A k \in 1..(i - 1) : RemoveAt(s, i)[k] = s[k]
           /\ \A k \in i..(Len(s) - 1) : RemoveAt(s, i)[k] = s[k + 1]
  <1>0. Len(s) \in Nat /\ (\A k \in 1..Len(s) : s[k] \in S) /\ i \in Nat /\ i - 1 \in Nat /\ Len(s) - i \in Nat
    OBVIOUS
  <1> DEFINE a == SubSeq(s, 1, i - 1)
             b == SubSeq(s, i + 1, Len(s))
             n == Len(s) - i
  <1>1. a \in Seq(S) /\ Len(a) = i - 1 /\ \A k \in 1..(i - 1) : a[k] = s[k]
    BY <1>0, SubSeqProperties
  <1>2. b \in Seq(S) /\ Len(b) = n /\ \A k \in 1..n : b[k] = s[(i + 1) + k - 1]
    BY <1>0, SubSeqProperties
  <1>3. RemoveAt(s, i) = a \o b
    BY DEF RemoveAt
  <1>4. n \in Nat /\ (i - 1) + n = Len(s) - 1
    BY <1>0
  <1> HIDE DEF a, b, n
  <1>5. /\ a \o b \in Seq(S) /\ Len(a \o b) = (i - 1) + n
        /\ \A k \in 1..(i - 1) : (a \o b)[k] = a[k]
        /\ \A k \in 1..n : (a \o b)[(i - 1) + k] = b[k]
    <2>1. a \in Seq(S) /\ b \in Seq(S) /\ i - 1 \in Nat /\ n \in Nat /\ Len(a) = i - 1 /\ Len(b) = n
      BY <1>0, <1>1, <1>2, <1>4
    <2>2. /\ a \o b \in Seq(S) /\ Len(a \o b) = Len(a) + Len(b)
          /\ \A k \in 1..Len(a) : (a \o b)[k] = a[k]
          /\ \A k \in 1..Len(b) : (a \o b)[Len(a) + k] = b[k]
      <3>1. a \in Seq(S) /\ b \in Seq(S)
        BY <2>1
      <3>2. QED
        BY ONLY <3>1, ConcatAt
    <2>3. QED
      BY <2>1, <2>2
  <1>6. ASSUME NEW k \in i..(Len(s) - 1)
        PROVE  (a \o b)[k] = s[k + 1]
    <2>1. k - i + 1 \in 1..n /\ (i - 1) + (k - i + 1) = k /\ (i + 1) + (k - i + 1) - 1 = k + 1
      BY <1>0 DEF n
    <2>2. (a \o b)[(i - 1) + (k - i + 1)] = b[k - i + 1] /\ b[k - i + 1] = s[(i + 1) + (k - i + 1) - 1]
      BY <1>2, <1>5, <2>1
    <2>3. QED
      BY <2>1, <2>2
  <1>7. \A k \in 1..(i - 1) : (a \o b)[k] = s[k]
    BY <1>1, <1>5
  <1>8. QED
    BY <1>3, <1>4, <1>5, <1>6, <1>7

-----------------------------------------------------------------------------
(* The types of the loader.                                                *)
Trees == {"common", "user"}
Marks == {"RUN", "NOT", "SKIP"}
ListFrame == [file : Trees \X Ids, depth : Nat, mark : Marks, next : Nat \ {0}, sPlat : Groups \cup {""},
              sFlag : {"ON", "OFF"}, plat : Groups \cup {""}, flag : {"ON", "OFF", "unset"}]

ListTypes ==
    /\ input \in Inputs
    /\ mpc \in {"shared", "loading", "loaded", "loadingUser", "merge", "ready"}
    /\ mCaseList \in Seq(Cases) /\ mLocalCaseList \in Seq(Cases) /\ mShared \in Seq(Cases)
    /\ frames \in Seq(ListFrame) /\ \A k \in DOMAIN frames : frames[k].file \in DOMAIN input.files
    /\ mPlatformName \in Groups \cup {""} /\ mIsSetPlatformInfo \in {"ON", "OFF"} /\ mFindLevel \in Nat
    /\ mi \in 1..(Len(mLocalCaseList) + 1) /\ mKeep \in 1..(Len(mCaseList) + 1)

LEMMA InputTypes ==
    ASSUME input \in Inputs
    PROVE  /\ \A f \in DOMAIN input.files : f \in Trees \X Ids /\ input.files[f] \in Seq(ListLine)
           /\ input.shared \in {"common"} \X Ids
           /\ input.user = NoFile \/ input.user \in {"user"} \X Ids
  BY InputsAssumption DEF Trees

(* The frame on top, and the line it has come to. *)
LEMMA TopTypes ==
    ASSUME ListTypes, frames # <<>>
    PROVE  /\ Top \in ListFrame
           /\ Top.file \in DOMAIN input.files
           /\ input.files[Top.file] \in Seq(ListLine)
           /\ Reading => Line \in ListLine
           /\ Front(frames) \in Seq(ListFrame)
           /\ \A k \in DOMAIN Front(frames) : Front(frames)[k].file \in DOMAIN input.files
  <1>0. frames \in Seq(ListFrame)
    BY DEF ListTypes
  <1>1. Len(frames) \in Nat /\ Len(frames) \in DOMAIN frames /\ frames[Len(frames)] \in ListFrame
    BY ONLY <1>0, frames # <<>>
  <1>2. Top \in ListFrame /\ Top.file \in DOMAIN input.files
    BY <1>1 DEF Top, Last, ListTypes
  <1>3. input.files[Top.file] \in Seq(ListLine)
    BY <1>2, InputTypes DEF ListTypes
  <1>4. Top.next \in Nat \ {0}
    BY <1>2 DEF ListFrame
  <1>5. Reading => Line \in ListLine
    BY <1>3, <1>4 DEF Reading, Line
  <1>6. /\ Front(frames) \in Seq(ListFrame)
        /\ Len(Front(frames)) = Len(frames) - 1
        /\ \A k \in 1..(Len(frames) - 1) : Front(frames)[k] = frames[k]
    BY <1>0, FrontSeq
  <1>7. \A k \in DOMAIN Front(frames) : k \in DOMAIN frames /\ Front(frames)[k] = frames[k]
    BY <1>0, <1>6
  <1>8. \A k \in DOMAIN Front(frames) : Front(frames)[k].file \in DOMAIN input.files
    BY <1>7 DEF ListTypes
  <1>9. QED
    BY <1>2, <1>3, <1>5, <1>6, <1>8

Framed(fs) == fs \in Seq(ListFrame) /\ \A k \in DOMAIN fs : fs[k].file \in DOMAIN input.files

LEMMA FramedEmpty == Framed(<<>>)
  <1>1. <<>> \in Seq(ListFrame) /\ DOMAIN <<>> = {}
    OBVIOUS
  <1>2. QED
    BY <1>1 DEF Framed

LEMMA FramedConcat ==
    ASSUME NEW fs, NEW gs, Framed(fs), Framed(gs)
    PROVE  Framed(fs \o gs)
  <1>1. fs \in Seq(ListFrame) /\ gs \in Seq(ListFrame)
    BY DEF Framed
  <1>2. /\ fs \o gs \in Seq(ListFrame)
        /\ Len(fs \o gs) = Len(fs) + Len(gs)
        /\ \A k \in 1..Len(fs) : (fs \o gs)[k] = fs[k]
        /\ \A k \in 1..Len(gs) : (fs \o gs)[Len(fs) + k] = gs[k]
    BY ONLY <1>1, ConcatAt
  <1>3. ASSUME NEW k \in DOMAIN (fs \o gs)
        PROVE  (fs \o gs)[k].file \in DOMAIN input.files
    <2>1. Len(fs) \in Nat /\ Len(gs) \in Nat /\ k \in 1..(Len(fs) + Len(gs))
      BY <1>1, <1>2
    <2>2. CASE k <= Len(fs)
      BY <1>1, <1>2, <2>1, <2>2 DEF Framed
    <2>3. CASE k > Len(fs)
      <3>1. k - Len(fs) \in 1..Len(gs) /\ Len(fs) + (k - Len(fs)) = k
        BY <2>1, <2>3
      <3>2. (fs \o gs)[k] = gs[k - Len(fs)]
        BY <1>2, <3>1
      <3>3. QED
        BY <1>1, <3>1, <3>2 DEF Framed
    <2>4. QED
      BY <2>1, <2>2, <2>3
  <1>4. QED
    BY <1>2, <1>3 DEF Framed

LEMMA FramedReplaced ==
    ASSUME ListTypes, frames # <<>>,
           NEW f \in ListFrame, f.file = Top.file
    PROVE  Framed(Replaced(f))
  <1>1. Framed(Front(frames)) /\ f.file \in DOMAIN input.files
    BY TopTypes DEF Framed
  <1>2. Framed(<<f>>)
    <2>1. <<f>> \in Seq(ListFrame) /\ DOMAIN <<f>> = {1} /\ <<f>>[1] = f
      OBVIOUS
    <2>2. QED
      BY <1>1, <2>1 DEF Framed
  <1>3. Replaced(f) = Front(frames) \o <<f>>
    BY <1>1, AppendIsConcat DEF Replaced, Framed
  <1>4. QED
    BY <1>1, <1>2, <1>3, FramedConcat

LEMMA FramedOpened ==
    ASSUME input \in Inputs, NEW f, NEW d \in Nat, NEW m \in Marks
    PROVE  Framed(Opened(f, d, m))
  <1>1. CASE f \in DOMAIN input.files
    <2> DEFINE r == [file |-> f, depth |-> d, mark |-> m, next |-> 1,
                     sPlat |-> "", sFlag |-> "OFF", plat |-> "", flag |-> "unset"]
    <2>1. f \in Trees \X Ids
      BY <1>1, InputTypes
    <2>2. r \in ListFrame /\ r.file = f
      BY <2>1 DEF ListFrame
    <2>3. Opened(f, d, m) = <<r>>
      BY <1>1 DEF Opened
    <2> HIDE DEF r
    <2>4. <<r>> \in Seq(ListFrame) /\ DOMAIN <<r>> = {1} /\ <<r>>[1] = r
      BY <2>2
    <2>5. QED
      BY <1>1, <2>2, <2>3, <2>4 DEF Framed
  <1>2. CASE f \notin DOMAIN input.files
    <2>1. Opened(f, d, m) = <<>> /\ <<>> \in Seq(ListFrame) /\ DOMAIN <<>> = {}
      BY <1>2 DEF Opened
    <2>2. QED
      BY <2>1 DEF Framed
  <1>3. QED
    BY <1>1, <1>2

(* What a line makes of the members and of the frame it is read with. *)
LEMMA LineTypes ==
    ASSUME ListTypes, Reading
    PROVE  /\ Plat \in Groups \cup {""} /\ Flag \in {"ON", "OFF"}
           /\ PlatNow \in Groups \cup {""} /\ FlagNow \in {"ON", "OFF", "unset"}
           /\ Advanced(Top) \in ListFrame /\ Advanced(Top).file = Top.file
           /\ [Advanced(Top) EXCEPT !.sPlat = ""] \in ListFrame
           /\ [Advanced(Top) EXCEPT !.sPlat = ""].file = Top.file
           /\ Frame \in ListFrame /\ Frame.file = Top.file
           /\ [Frame EXCEPT !.sPlat = ""] \in ListFrame
           /\ [Frame EXCEPT !.sPlat = ""].file = Top.file
           /\ Members => /\ mPlatformName' \in Groups \cup {""}
                         /\ mIsSetPlatformInfo' \in {"ON", "OFF"}
                         /\ mFindLevel' \in Nat
  <1>1. Top \in ListFrame /\ Line \in ListLine
    BY TopTypes DEF Reading
  <1>2. Plat \in Groups \cup {""} /\ Flag \in {"ON", "OFF"}
    BY <1>1 DEF Plat, Flag, ListFrame, ListLine
  <1>3. mPlatformName \in Groups \cup {""} /\ mIsSetPlatformInfo \in {"ON", "OFF"} /\ mFindLevel \in Nat
    BY DEF ListTypes
  <1>4. PlatNow \in Groups \cup {""} /\ FlagNow \in {"ON", "OFF", "unset"}
    BY <1>1, <1>2, <1>3 DEF PlatNow, FlagNow, ListFrame
  <1>5. Advanced(Top) \in ListFrame /\ Advanced(Top).file = Top.file
    <2>1. Top.next + 1 \in Nat \ {0}
      <3>1. Top.next \in Nat \ {0}
        BY <1>1 DEF ListFrame
      <3>2. QED
        BY <3>1
    <2>2. [[[Top EXCEPT !.next = Top.next + 1] EXCEPT !.sPlat = Plat] EXCEPT !.sFlag = Flag] \in ListFrame
      BY <1>1, <1>2, <2>1 DEF ListFrame
    <2>3. [Top EXCEPT !.next = @ + 1, !.sPlat = Plat, !.sFlag = Flag].file = Top.file
      BY <1>1 DEF ListFrame
    <2>4. QED
      BY <2>2, <2>3 DEF Advanced
  <1>6. /\ [Advanced(Top) EXCEPT !.sPlat = ""] \in ListFrame
        /\ [Advanced(Top) EXCEPT !.sPlat = ""].file = Top.file
    BY <1>5 DEF ListFrame
  <1>7. Frame \in ListFrame /\ Frame.file = Top.file
    BY <1>4, <1>5 DEF Frame, ListFrame
  <1>8. [Frame EXCEPT !.sPlat = ""] \in ListFrame /\ [Frame EXCEPT !.sPlat = ""].file = Top.file
    BY <1>7 DEF ListFrame
  <1>9. Members => /\ mPlatformName' \in Groups \cup {""}
                   /\ mIsSetPlatformInfo' \in {"ON", "OFF"}
                   /\ mFindLevel' \in Nat
    BY <1>1, <1>2, <1>3 DEF Members, ListFrame
  <1>10. QED
    BY <1>2, <1>4, <1>5, <1>6, <1>7, <1>8, <1>9

(* The case a line or a root adds. *)
LEMMA PushTypes ==
    ASSUME ListTypes, NEW c \in Cases, Push(c)
    PROVE  /\ mCaseList' \in Seq(Cases) /\ mLocalCaseList' \in Seq(Cases)
           /\ Len(mCaseList') >= Len(mCaseList) /\ Len(mLocalCaseList') >= Len(mLocalCaseList)
           /\ Len(mCaseList') \in Nat /\ Len(mLocalCaseList') \in Nat
  <1>1. mCaseList \in Seq(Cases) /\ mLocalCaseList \in Seq(Cases)
    BY DEF ListTypes
  <1>2. /\ Append(mCaseList, c) \in Seq(Cases) /\ Len(Append(mCaseList, c)) = Len(mCaseList) + 1
        /\ Append(mLocalCaseList, c) \in Seq(Cases) /\ Len(Append(mLocalCaseList, c)) = Len(mLocalCaseList) + 1
    BY <1>1, AppendProperties
  <1>3. Len(mCaseList) \in Nat /\ Len(mLocalCaseList) \in Nat
    BY <1>1
  <1>4. CASE mpc \in {"shared", "loading"}
    BY <1>1, <1>2, <1>3, <1>4 DEF Push
  <1>5. CASE mpc \notin {"shared", "loading"}
    BY <1>1, <1>2, <1>3, <1>5 DEF Push
  <1>6. QED
    BY <1>4, <1>5

LEMMA ListLens ==
    ASSUME ListTypes
    PROVE  Len(mCaseList) \in Nat /\ Len(mLocalCaseList) \in Nat /\ Len(mShared) \in Nat /\ Len(frames) \in Nat
  <1>1. /\ mCaseList \in Seq(Cases) /\ mLocalCaseList \in Seq(Cases) /\ mShared \in Seq(Cases)
        /\ frames \in Seq(ListFrame)
    BY DEF ListTypes
  <1>2. QED
    BY ONLY <1>1

LEMMA ListTypesInit == LInit => ListTypes
  <1> SUFFICES ASSUME LInit PROVE ListTypes
    OBVIOUS
  <1>1. <<>> \in Seq(Cases) /\ <<>> \in Seq(ListFrame)
    BY EmptySeq
  <1>2. DOMAIN <<>> = {} /\ 1 \in 1..(Len(<<>>) + 1)
    BY DOMAIN <<>> = {}, Len(<<>>) = 0
  <1>3. QED
    BY <1>1, <1>2 DEF LInit, ListTypes

LEMMA RootTypes ==
    ASSUME ListTypes, NEW from, NEW to, NEW f,
           f \in Trees \X Ids, to \in {"loading", "loadingUser"},
           LoadRoot(from, to, f)
    PROVE  ListTypes'
  <1> USE DEF ListTypes
  <1>0. input' = input /\ mpc' = to /\ mFindLevel' = mFindLevel /\ mi' = mi /\ mKeep' = mKeep /\ mShared' = mShared
    BY DEF LoadRoot
  <1>1. mPlatformName' = "" /\ mIsSetPlatformInfo' = "OFF"
    BY DEF LoadRoot
  <1>2. CASE KindOf[f[2]] \in {"other", "word"}
    <2>1. UNCHANGED <<mCaseList, mLocalCaseList, frames>>
      BY <1>2 DEF LoadRoot
    <2>2. QED
      BY <1>0, <1>1, <2>1
  <1>3. CASE KindOf[f[2]] \notin {"other", "word"}
    <2> DEFINE c == [name |-> f, ts |-> f, type |-> KindOf[f[2]], plat |-> "", flag |-> "ON", comment |-> "",
                     mark |-> IF Skips(f) THEN "SKIP" ELSE "RUN"]
    <2>1. f \in Trees \X Ids /\ KindOf[f[2]] \in {"TS", "TL", "SQL", "XML"}
      BY <1>3, KindAssumption DEF Kinds
    <2>2. c \in Cases
      BY <2>1 DEF Cases, Ids, Trees
    <2>3. Push(c)
      BY <1>3 DEF LoadRoot
    <2>4. frames' = IF IsList(KindOf[f[2]]) THEN Opened(f, 0, "RUN") ELSE <<>>
      BY <1>3 DEF LoadRoot
    <2>5. Framed(Opened(f, 0, "RUN")) /\ Framed(<<>>)
      BY FramedOpened, FramedEmpty DEF Marks
    <2>6. frames' \in Seq(ListFrame) /\ \A k \in DOMAIN frames' : frames'[k].file \in DOMAIN input'.files
      BY <1>0, <2>4, <2>5 DEF Framed
    <2> HIDE DEF c
    <2>7. /\ mCaseList' \in Seq(Cases) /\ mLocalCaseList' \in Seq(Cases)
          /\ Len(mCaseList') >= Len(mCaseList) /\ Len(mLocalCaseList') >= Len(mLocalCaseList)
          /\ Len(mCaseList') \in Nat /\ Len(mLocalCaseList') \in Nat
      BY <2>2, <2>3, PushTypes
    <2>8. Len(mCaseList) \in Nat /\ Len(mLocalCaseList) \in Nat
      BY ListLens
    <2>9. mi' \in 1..(Len(mLocalCaseList') + 1) /\ mKeep' \in 1..(Len(mCaseList') + 1)
      <3>1. mi \in 1..(Len(mLocalCaseList) + 1) /\ mKeep \in 1..(Len(mCaseList) + 1)
        OBVIOUS
      <3>2. QED
        BY ONLY <1>0, <2>7, <2>8, <3>1
    <2>10. QED
      BY <1>0, <1>1, <2>6, <2>7, <2>9
  <1>4. QED
    BY <1>2, <1>3

(* A line that adds no case: the frames change, perhaps the members. *)
LEMMA LineTypesKept ==
    ASSUME ListTypes, Framed(frames)',
           input' = input, mpc' = mpc, mCaseList' = mCaseList, mLocalCaseList' = mLocalCaseList,
           Members \/ UNCHANGED members, Members => Reading,
           mi' = mi, mKeep' = mKeep, mShared' = mShared
    PROVE  ListTypes'
  <1>1. mPlatformName' \in Groups \cup {""} /\ mIsSetPlatformInfo' \in {"ON", "OFF"} /\ mFindLevel' \in Nat
    <2>1. CASE Members
      BY <2>1, LineTypes
    <2>2. CASE UNCHANGED members
      BY <2>2 DEF members, ListTypes
    <2>3. QED
      BY <2>1, <2>2
  <1>2. QED
    BY <1>1 DEF ListTypes, Framed

(* The case of a line, and the list it may open. *)
LEMMA EntryCase ==
    ASSUME ListTypes, Entry
    PROVE  /\ [name |-> Name, ts |-> Top.file, type |-> KindOf[Line.name], plat |-> PlatNow,
               flag |-> FlagNow, comment |-> Line.comment, mark |-> Mark] \in Cases
           /\ Framed(IF IsList(KindOf[Line.name]) THEN Opened(Name, Top.depth + 1, Mark) ELSE <<>>)
           /\ (IF IsList(KindOf[Line.name]) THEN Opened(Name, Top.depth + 1, Mark) ELSE <<>>) \in Seq(ListFrame)
  <1>0. Reading /\ frames # <<>>
    BY DEF Entry, Reading
  <1>1. Top \in ListFrame /\ Line \in ListLine
    BY <1>0, TopTypes
  <1>2. Mark \in Marks
    BY <1>1 DEF Mark, Marks, ListFrame
  <1>3. KindOf[Line.name] \in {"TS", "TL", "SQL", "XML"} /\ Line.name \in Ids
    BY <1>1 DEF Entry, ListLine
  <1>4. Name \in Trees \X Ids
    BY <1>1, <1>3 DEF Name, ListFrame
  <1> DEFINE c == [name |-> Name, ts |-> Top.file, type |-> KindOf[Line.name], plat |-> PlatNow,
                   flag |-> FlagNow, comment |-> Line.comment, mark |-> Mark]
  <1>5. c \in Cases
    <2>1. Top.file \in Trees \X Ids /\ Line.comment \in Comments \cup {""}
      BY <1>1 DEF ListFrame, ListLine
    <2>2. PlatNow \in Groups \cup {""} /\ FlagNow \in {"ON", "OFF", "unset"}
      BY <1>0, LineTypes
    <2>3. QED
      BY <1>2, <1>3, <1>4, <2>1, <2>2 DEF Cases, Trees, Ids, Marks
  <1>6. Framed(IF IsList(KindOf[Line.name]) THEN Opened(Name, Top.depth + 1, Mark) ELSE <<>>)
    <2>1. Top.depth + 1 \in Nat
      <3>1. Top.depth \in Nat
        BY <1>1 DEF ListFrame
      <3>2. QED
        BY <3>1
    <2>2. Framed(Opened(Name, Top.depth + 1, Mark))
      BY <1>2, <2>1, FramedOpened DEF ListTypes
    <2>3. QED
      BY <2>2, FramedEmpty
  <1>7. QED
    BY <1>5, <1>6 DEF Framed

LEMMA EntryTypes == ASSUME ListTypes, Entry PROVE ListTypes'
  <1>0. Reading /\ frames # <<>> /\ Members /\ input' = input /\ mpc' = mpc /\ mi' = mi /\ mKeep' = mKeep /\ mShared' = mShared
    BY DEF Entry, Reading
  <1> DEFINE c == [name |-> Name, ts |-> Top.file, type |-> KindOf[Line.name], plat |-> PlatNow,
                   flag |-> FlagNow, comment |-> Line.comment, mark |-> Mark]
  <1>5. c \in Cases
    BY EntryCase
  <1>6. Push(c)
    BY DEF Entry
  <1>7. Framed(frames')
    <2>1. Framed(Replaced([Frame EXCEPT !.sPlat = ""]))
      BY <1>0, LineTypes, FramedReplaced
    <2>2. Framed(IF IsList(KindOf[Line.name]) THEN Opened(Name, Top.depth + 1, Mark) ELSE <<>>)
      BY EntryCase
    <2>3. frames' = Replaced([Frame EXCEPT !.sPlat = ""]) \o
                    (IF IsList(KindOf[Line.name]) THEN Opened(Name, Top.depth + 1, Mark) ELSE <<>>)
      BY DEF Entry
    <2>4. QED
      BY <2>1, <2>2, <2>3, FramedConcat
  <1> HIDE DEF c
  <1>8. /\ mCaseList' \in Seq(Cases) /\ mLocalCaseList' \in Seq(Cases)
        /\ Len(mCaseList') >= Len(mCaseList) /\ Len(mLocalCaseList') >= Len(mLocalCaseList)
        /\ Len(mCaseList') \in Nat /\ Len(mLocalCaseList') \in Nat
    BY <1>5, <1>6, PushTypes
  <1>9. mi' \in 1..(Len(mLocalCaseList') + 1) /\ mKeep' \in 1..(Len(mCaseList') + 1)
    <2>1. Len(mCaseList) \in Nat /\ Len(mLocalCaseList) \in Nat
      BY ListLens
    <2>2. mi \in 1..(Len(mLocalCaseList) + 1) /\ mKeep \in 1..(Len(mCaseList) + 1)
      BY DEF ListTypes
    <2>3. QED
      BY ONLY <1>0, <1>8, <2>1, <2>2
  <1>10. mPlatformName' \in Groups \cup {""} /\ mIsSetPlatformInfo' \in {"ON", "OFF"} /\ mFindLevel' \in Nat
    BY <1>0, LineTypes
  <1>11. QED
    BY <1>0, <1>7, <1>8, <1>9, <1>10 DEF ListTypes, Framed

LEMMA NatMin ==
    ASSUME NEW T \in SUBSET Nat, T # {}
    PROVE  \E x \in T : \A y \in T : x <= y
  <1>1. PICK R : R = OpToRel(<, Nat)
    OBVIOUS
  <1>2. IsWellFoundedOn(R, Nat)
    BY <1>1, NatLessThanWellFounded
  <1>3. PICK x \in T : \A y \in T : ~(<<y, x>> \in R)
    BY <1>2, WFMin
  <1>4. \A y \in T : y < x => <<y, x>> \in R
    BY <1>1 DEF OpToRel
  <1>5. \A y \in T : ~(y < x)
    BY <1>3, <1>4, Zenon
  <1>6. \A y \in T : y \in Nat
    OBVIOUS
  <1>7. x \in Nat
    OBVIOUS
  <1>8. QED
    BY <1>5, <1>6, <1>7

LEMMA LeastOf ==
    ASSUME NEW n \in Nat, NEW S \in SUBSET (1..n), S # {}
    PROVE  /\ Least(S) \in S
           /\ \A j \in S : Least(S) <= j
  <1>1. S \in SUBSET Nat
    OBVIOUS
  <1>2. \E k \in S : \A j \in S : k <= j
    BY <1>1, NatMin
  <1>3. QED
    BY <1>2 DEF Least

(* One case of the user's list: where it goes, and the list it leaves. *)
LEMMA MergeTypes == ASSUME ListTypes, MergeOne PROVE ListTypes'
  <1> DEFINE c == mLocalCaseList[mi]
             n == Len(mCaseList)
  <1>0. /\ mCaseList \in Seq(Cases) /\ mLocalCaseList \in Seq(Cases) /\ n \in Nat /\ Len(mLocalCaseList) \in Nat
        /\ mi \in 1..Len(mLocalCaseList) /\ mKeep \in 1..(n + 1)
    <2>1. mi \in 1..(Len(mLocalCaseList) + 1) /\ mi <= Len(mLocalCaseList)
      BY DEF ListTypes, MergeOne
    <2>2. Len(mCaseList) \in Nat /\ Len(mLocalCaseList) \in Nat
      BY ListLens
    <2>3. mi \in 1..Len(mLocalCaseList)
      BY ONLY <2>1, <2>2
    <2>4. QED
      BY <2>2, <2>3 DEF ListTypes
  <1>1. c \in Cases
    BY <1>0
  <1>2. mCaseList' \in Seq(Cases) /\ Len(mCaseList') \in Nat /\ mKeep' \in 1..(Len(mCaseList') + 1)
    <2>1. CASE Found(c) # {}
      <3> DEFINE k == Least(Found(c))
      <3>1. /\ mCaseList' = [mCaseList EXCEPT ![k] = Updated(mCaseList[k], c)]
            /\ mKeep' = k + 1
        BY <2>1 DEF MergeOne
      <3>2. k \in 1..n
        <4>1. Found(c) \in SUBSET (1..n)
          BY <1>0 DEF Found
        <4>2. QED
          BY <1>0, <2>1, <4>1, LeastOf
      <3>3. mCaseList[k] \in Cases
        BY <1>0, <3>2
      <3>4. Updated(mCaseList[k], c) \in Cases
        BY <1>1, <3>3 DEF Updated, Cases
      <3> HIDE DEF k
      <3>5. /\ [mCaseList EXCEPT ![k] = Updated(mCaseList[k], c)] \in Seq(Cases)
            /\ Len([mCaseList EXCEPT ![k] = Updated(mCaseList[k], c)]) = n
        BY <1>0, <3>2, <3>4, ExceptSeq
      <3>6. QED
        BY <1>0, <3>1, <3>2, <3>5
    <2>2. CASE Found(c) = {} /\ mi = 1
      <3>1. mCaseList' = Append(mCaseList, c) /\ mKeep' = n + 2
        BY <2>2 DEF MergeOne
      <3>2. Append(mCaseList, c) \in Seq(Cases) /\ Len(Append(mCaseList, c)) = n + 1
        BY <1>0, <1>1, AppendProperties
      <3>3. QED
        BY <1>0, <3>1, <3>2
    <2>3. CASE Found(c) = {} /\ mi # 1
      <3>1. mCaseList' = InsertAt(mCaseList, mKeep, c) /\ mKeep' = mKeep + 1
        BY <2>3 DEF MergeOne, Put
      <3>2. InsertAt(mCaseList, mKeep, c) \in Seq(Cases) /\ Len(InsertAt(mCaseList, mKeep, c)) = n + 1
        BY <1>0, <1>1, InsertAtSeq
      <3>3. QED
        BY <1>0, <3>1, <3>2
    <2>4. QED
      BY <2>1, <2>2, <2>3
  <1>3. mi' = mi + 1 /\ UNCHANGED <<input, mpc, frames, mLocalCaseList, members, mShared>>
    BY DEF MergeOne
  <1>4. mi' \in 1..(Len(mLocalCaseList') + 1)
    BY <1>0, <1>3
  <1>5. QED
    BY <1>2, <1>3, <1>4 DEF ListTypes, members

LEMMA ListTypesStep == ASSUME ListTypes, LoadStep PROVE ListTypes'
  <1>1. ASSUME LoadShared PROVE ListTypes'
    <2>1. input.shared \in Trees \X Ids
      BY InputTypes DEF ListTypes, Trees
    <2>2. QED
      BY <1>1, <2>1, RootTypes DEF LoadShared
  <1>2. ASSUME LoadUser PROVE ListTypes'
    <2>1. input.user \in Trees \X Ids
      BY <1>2, InputTypes DEF ListTypes, Trees, LoadUser
    <2>2. QED
      BY <1>2, <2>1, RootTypes DEF LoadUser
  <1>3. ASSUME NoCase PROVE ListTypes'
    <2>1. Framed(Replaced(Advanced(Top)))
      BY <1>3, LineTypes, FramedReplaced DEF NoCase, Reading
    <2>2. QED
      BY <1>3, <2>1, LineTypesKept DEF NoCase, Framed
  <1>4. ASSUME Word PROVE ListTypes'
    <2>1. Framed(Replaced([Advanced(Top) EXCEPT !.sPlat = ""]))
      BY <1>4, LineTypes, FramedReplaced DEF Word, Reading
    <2>2. QED
      BY <1>4, <2>1, LineTypesKept DEF Word, Framed
  <1>5. ASSUME Unknown PROVE ListTypes'
    <2>1. Framed(Replaced(Frame))
      BY <1>5, LineTypes, FramedReplaced DEF Unknown, Reading
    <2>2. QED
      BY <1>5, <2>1, LineTypesKept DEF Unknown, Framed
  <1>6. ASSUME Close PROVE ListTypes'
    <2>1. Framed(Front(frames))
      BY <1>6, TopTypes DEF Close, Framed
    <2>2. /\ frames' = Front(frames)
          /\ UNCHANGED <<input, mpc, mCaseList, mLocalCaseList, members, mi, mKeep, mShared>>
      BY <1>6 DEF Close
    <2>3. QED
      BY <2>1, <2>2 DEF ListTypes, members, Framed
  <1>7. ASSUME SkipUser \/ Merged \/ Loaded("loading", "loaded") \/ Loaded("loadingUser", "merge")
        PROVE  ListTypes'
    BY <1>7 DEF SkipUser, Merged, Loaded, ListTypes, members
  <1>8. QED
    BY <1>1, <1>2, <1>3, <1>4, <1>5, <1>6, <1>7, EntryTypes, MergeTypes DEF LoadStep

-----------------------------------------------------------------------------
(* Which tree a file comes from: the common list is complete before the    *)
(* user's is read, and without a user's list there is only the common tree. *)
Of(list, tree)    == \A k \in DOMAIN list : list[k].name[1] = tree
FramesOf(fs, tree) == \A k \in DOMAIN fs : fs[k].file[1] = tree

TreeNow == IF mpc = "loading" THEN "common" ELSE "user"
ListTrees ==
    /\ frames # <<>> => mpc \in {"loading", "loadingUser"}
    /\ FramesOf(frames, TreeNow)
    /\ mpc \notin {"merge", "ready"} => Of(mCaseList, "common") /\ mi = 1
    /\ Of(mLocalCaseList, "user")
    /\ Of(mShared, "common")
    /\ input.user = NoFile => mpc \notin {"loadingUser", "merge"} /\ Of(mCaseList, "common")

LEMMA OfAppend ==
    ASSUME NEW list \in Seq(Cases), NEW c \in Cases, NEW t, Of(list, t), c.name[1] = t
    PROVE  Of(Append(list, c), t)
  <1>1. ASSUME NEW k \in DOMAIN Append(list, c)
        PROVE  Append(list, c)[k].name[1] = t
    <2>1. CASE k \in 1..Len(list)
      BY <2>1 DEF Of
    <2>2. CASE k \notin 1..Len(list)
      <3>1. Append(list, c)[k] = c
        BY <1>1, <2>2
      <3>2. QED
        BY <3>1
    <2>3. QED
      BY <2>1, <2>2
  <1>2. QED
    BY <1>1 DEF Of

LEMMA FramesOfConcat ==
    ASSUME NEW fs \in Seq(ListFrame), NEW gs \in Seq(ListFrame), NEW t, FramesOf(fs, t), FramesOf(gs, t)
    PROVE  FramesOf(fs \o gs, t)
  <1>1. /\ Len(fs \o gs) = Len(fs) + Len(gs)
        /\ fs \o gs \in Seq(ListFrame)
        /\ \A k \in 1..Len(fs) : (fs \o gs)[k] = fs[k]
        /\ \A k \in 1..Len(gs) : (fs \o gs)[Len(fs) + k] = gs[k]
    BY ConcatAt
  <1>2. ASSUME NEW k \in DOMAIN (fs \o gs)
        PROVE  (fs \o gs)[k].file[1] = t
    <2>1. Len(fs) \in Nat /\ Len(gs) \in Nat /\ k \in 1..(Len(fs) + Len(gs))
      BY <1>1
    <2>2. CASE k <= Len(fs)
      BY <1>1, <2>1, <2>2 DEF FramesOf
    <2>3. CASE k > Len(fs)
      <3>1. k - Len(fs) \in 1..Len(gs) /\ Len(fs) + (k - Len(fs)) = k
        BY <2>1, <2>3
      <3>2. (fs \o gs)[k] = gs[k - Len(fs)]
        BY <1>1, <3>1
      <3>3. QED
        BY <3>1, <3>2 DEF FramesOf
    <2>4. QED
      BY <2>1, <2>2, <2>3
  <1>3. QED
    BY <1>2 DEF FramesOf

LEMMA FramesOfFront ==
    ASSUME ListTypes, ListTrees, frames # <<>>
    PROVE  /\ Front(frames) \in Seq(ListFrame)
           /\ FramesOf(Front(frames), TreeNow)
           /\ Top.file[1] = TreeNow
  <1>0. frames \in Seq(ListFrame)
    BY DEF ListTypes
  <1>1. Len(frames) \in Nat /\ Len(frames) \in DOMAIN frames
    BY ONLY <1>0, frames # <<>>
  <1>2. Top.file[1] = TreeNow
    BY <1>1 DEF Top, Last, ListTrees, FramesOf
  <1>3. /\ Front(frames) \in Seq(ListFrame)
        /\ Len(Front(frames)) = Len(frames) - 1
        /\ \A k \in 1..(Len(frames) - 1) : Front(frames)[k] = frames[k]
    BY <1>0, FrontSeq
  <1>4. \A k \in DOMAIN Front(frames) : k \in DOMAIN frames /\ Front(frames)[k] = frames[k]
    BY <1>0, <1>3
  <1>5. FramesOf(Front(frames), TreeNow)
    BY <1>4 DEF ListTrees, FramesOf
  <1>6. QED
    BY <1>2, <1>3, <1>5

LEMMA FramesOfReplaced ==
    ASSUME ListTypes, ListTrees, frames # <<>>, NEW f \in ListFrame, f.file = Top.file
    PROVE  Replaced(f) \in Seq(ListFrame) /\ FramesOf(Replaced(f), TreeNow)
  <1>1. Front(frames) \in Seq(ListFrame) /\ FramesOf(Front(frames), TreeNow) /\ f.file[1] = TreeNow
    BY FramesOfFront
  <1>2. <<f>> \in Seq(ListFrame) /\ DOMAIN <<f>> = {1} /\ <<f>>[1] = f
    OBVIOUS
  <1>3. FramesOf(<<f>>, TreeNow)
    BY <1>1, <1>2 DEF FramesOf
  <1>4. Replaced(f) = Front(frames) \o <<f>>
    BY <1>1, AppendIsConcat DEF Replaced
  <1>5. Front(frames) \o <<f>> \in Seq(ListFrame)
    BY <1>1, <1>2, ConcatProperties
  <1>6. QED
    BY <1>1, <1>2, <1>3, <1>4, <1>5, FramesOfConcat

LEMMA FramesOfOpened ==
    ASSUME NEW f, NEW d, NEW m
    PROVE  FramesOf(Opened(f, d, m), f[1])
  <1> DEFINE r == [file |-> f, depth |-> d, mark |-> m, next |-> 1,
                   sPlat |-> "", sFlag |-> "OFF", plat |-> "", flag |-> "unset"]
  <1>1. r.file = f
    OBVIOUS
  <1>2. Opened(f, d, m) = <<r>> \/ Opened(f, d, m) = <<>>
    BY DEF Opened
  <1> HIDE DEF r
  <1>3. DOMAIN <<r>> = {1} /\ <<r>>[1] = r /\ DOMAIN <<>> = {}
    OBVIOUS
  <1>4. QED
    BY <1>1, <1>2, <1>3 DEF FramesOf

LEMMA ListTreesInit == LInit => ListTrees
  <1>1. DOMAIN <<>> = {}
    OBVIOUS
  <1>2. QED
    BY <1>1 DEF LInit, ListTrees, Of, FramesOf

(* A case of the tree that is being read. *)
LEMMA PushTrees ==
    ASSUME ListTypes, ListTrees, NEW c \in Cases, Push(c), NEW t,
           mpc \in {"shared", "loading"} => t = "common",
           mpc \notin {"shared", "loading"} => t = "user",
           c.name[1] = t
    PROVE  /\ mpc \in {"shared", "loading"} => Of(mCaseList', "common")
           /\ mpc \notin {"shared", "loading"} => mCaseList' = mCaseList
           /\ Of(mLocalCaseList', "user")
  <1>1. mCaseList \in Seq(Cases) /\ mLocalCaseList \in Seq(Cases)
    BY DEF ListTypes
  <1>2. CASE mpc \in {"shared", "loading"}
    BY <1>1, <1>2, OfAppend DEF Push, ListTrees
  <1>3. CASE mpc \notin {"shared", "loading"}
    BY <1>1, <1>3, OfAppend DEF Push, ListTrees
  <1>4. QED
    BY <1>2, <1>3

LEMMA RootTrees ==
    ASSUME ListTypes, ListTrees, NEW from, NEW to, NEW f,
           f \in Trees \X Ids,
           \/ from = "shared" /\ to = "loading" /\ f[1] = "common"
           \/ from = "loaded" /\ to = "loadingUser" /\ f[1] = "user" /\ input.user # NoFile,
           LoadRoot(from, to, f)
    PROVE  ListTrees'
  <1>0. mpc = from /\ mpc' = to /\ input' = input /\ mi' = mi /\ mShared' = mShared
    BY DEF LoadRoot
  <1>1. CASE KindOf[f[2]] \in {"other", "word"}
    <2>1. UNCHANGED <<mCaseList, mLocalCaseList, frames>>
      BY <1>1 DEF LoadRoot
    <2>2. frames = <<>> /\ DOMAIN <<>> = {}
      BY <1>0 DEF ListTrees
    <2>3. QED
      BY <1>0, <2>1, <2>2 DEF ListTrees, FramesOf
  <1>2. CASE KindOf[f[2]] \notin {"other", "word"}
    <2> DEFINE c == [name |-> f, ts |-> f, type |-> KindOf[f[2]], plat |-> "", flag |-> "ON", comment |-> "",
                     mark |-> IF Skips(f) THEN "SKIP" ELSE "RUN"]
    <2>1. f \in Trees \X Ids /\ KindOf[f[2]] \in {"TS", "TL", "SQL", "XML"}
      BY <1>2, KindAssumption DEF Kinds
    <2>2. c \in Cases /\ c.name[1] = f[1]
      BY <2>1 DEF Cases, Ids, Trees
    <2>3. Push(c)
      BY <1>2 DEF LoadRoot
    <2>4. frames' = IF IsList(KindOf[f[2]]) THEN Opened(f, 0, "RUN") ELSE <<>>
      BY <1>2 DEF LoadRoot
    <2>5. FramesOf(Opened(f, 0, "RUN"), f[1]) /\ FramesOf(<<>>, f[1])
      BY FramesOfOpened, DOMAIN <<>> = {} DEF FramesOf
    <2> HIDE DEF c
    <2>6. /\ mpc \in {"shared", "loading"} => Of(mCaseList', "common")
          /\ mpc \notin {"shared", "loading"} => mCaseList' = mCaseList
          /\ Of(mLocalCaseList', "user")
      BY <1>0, <2>2, <2>3, PushTrees
    <2>7. FramesOf(frames', TreeNow')
      BY <1>0, <2>4, <2>5 DEF TreeNow
    <2>8. QED
      BY <1>0, <2>6, <2>7 DEF ListTrees
  <1>3. QED
    BY <1>1, <1>2

LEMMA EntryTrees == ASSUME ListTypes, ListTrees, Entry PROVE ListTrees'
  <1>0. Reading /\ frames # <<>> /\ input' = input /\ mpc' = mpc /\ mi' = mi /\ mShared' = mShared
    BY DEF Entry, Reading
  <1>1. mpc \in {"loading", "loadingUser"} /\ Top.file[1] = TreeNow
    BY <1>0, FramesOfFront DEF ListTrees
  <1> DEFINE c == [name |-> Name, ts |-> Top.file, type |-> KindOf[Line.name], plat |-> PlatNow,
                   flag |-> FlagNow, comment |-> Line.comment, mark |-> Mark]
  <1>2. c \in Cases
    BY EntryCase
  <1>3. c.name[1] = TreeNow /\ Name[1] = TreeNow
    BY <1>1 DEF Name
  <1>4. Push(c)
    BY DEF Entry
  <1> HIDE DEF c
  <1>5. /\ mpc \in {"shared", "loading"} => Of(mCaseList', "common")
        /\ mpc \notin {"shared", "loading"} => mCaseList' = mCaseList
        /\ Of(mLocalCaseList', "user")
    BY <1>1, <1>2, <1>3, <1>4, PushTrees DEF TreeNow
  <1>6. FramesOf(frames', TreeNow)
    <2> DEFINE new == IF IsList(KindOf[Line.name]) THEN Opened(Name, Top.depth + 1, Mark) ELSE <<>>
    <2>1. Replaced([Frame EXCEPT !.sPlat = ""]) \in Seq(ListFrame) /\ FramesOf(Replaced([Frame EXCEPT !.sPlat = ""]), TreeNow)
      BY <1>0, LineTypes, FramesOfReplaced
    <2>2. FramesOf(new, TreeNow)
      <3>1. FramesOf(Opened(Name, Top.depth + 1, Mark), Name[1]) /\ FramesOf(<<>>, TreeNow)
        BY FramesOfOpened, DOMAIN <<>> = {} DEF FramesOf
      <3>2. QED
        BY <1>3, <3>1
    <2>3. new \in Seq(ListFrame)
      BY EntryCase
    <2>4. frames' = Replaced([Frame EXCEPT !.sPlat = ""]) \o new
      BY DEF Entry
    <2> HIDE DEF new
    <2>5. QED
      BY <2>1, <2>2, <2>3, <2>4, FramesOfConcat
  <1>7. QED
    BY <1>0, <1>1, <1>5, <1>6 DEF ListTrees, TreeNow

LEMMA ListTreesStep == ASSUME ListTypes, ListTrees, LoadStep PROVE ListTrees'
  <1>1. ASSUME LoadShared PROVE ListTrees'
    <2>1. input.shared \in Trees \X Ids /\ input.shared[1] = "common"
      BY InputTypes DEF ListTypes, Trees
    <2>2. QED
      BY <1>1, <2>1, RootTrees DEF LoadShared
  <1>2. ASSUME LoadUser PROVE ListTrees'
    <2>1. input.user \in Trees \X Ids /\ input.user[1] = "user" /\ input.user # NoFile
      BY <1>2, InputTypes DEF ListTypes, Trees, LoadUser
    <2>2. QED
      BY <1>2, <2>1, RootTrees DEF LoadUser
  <1>3. ASSUME NEW f \in ListFrame, f.file = Top.file, Reading, frames' = Replaced(f),
               UNCHANGED <<input, mpc, mCaseList, mLocalCaseList, mi, mKeep, mShared>>
        PROVE  ListTrees'
    <2>1. frames # <<>>
      BY <1>3 DEF Reading
    <2>2. FramesOf(frames', TreeNow)
      BY <1>3, <2>1, FramesOfReplaced
    <2>3. QED
      BY <1>3, <2>1, <2>2 DEF ListTrees, TreeNow
  <1>4. ASSUME NoCase PROVE ListTrees'
    BY <1>3, <1>4, LineTypes DEF NoCase
  <1>5. ASSUME Word PROVE ListTrees'
    BY <1>3, <1>5, LineTypes DEF Word
  <1>6. ASSUME Unknown PROVE ListTrees'
    BY <1>3, <1>6, LineTypes DEF Unknown
  <1>7. ASSUME Close PROVE ListTrees'
    <2>1. FramesOf(Front(frames), TreeNow)
      BY <1>7, FramesOfFront DEF Close
    <2>2. frames # <<>> /\ frames' = Front(frames) /\ UNCHANGED <<input, mpc, mCaseList, mLocalCaseList, mi, mShared>>
      BY <1>7 DEF Close
    <2>3. QED
      BY <2>1, <2>2 DEF ListTrees, TreeNow
  <1>8. ASSUME MergeOne PROVE ListTrees'
    <2>1. mpc = "merge" /\ UNCHANGED <<input, mpc, frames, mLocalCaseList, mShared>>
      BY <1>8 DEF MergeOne
    <2>2. QED
      BY <2>1 DEF ListTrees, TreeNow
  <1>9. ASSUME SkipUser \/ Merged \/ Loaded("loading", "loaded") \/ Loaded("loadingUser", "merge")
        PROVE  ListTrees'
    <2>1. /\ UNCHANGED <<input, frames, mCaseList, mLocalCaseList, mi>>
          /\ mpc' \in {"ready", "loaded", "merge"}
          /\ mpc' = "merge" => mpc = "loadingUser"
          /\ mpc' = "loaded" => mpc = "loading"
          /\ mShared' = mShared \/ (mShared' = mCaseList /\ Of(mCaseList, "common"))
      BY <1>9 DEF SkipUser, Merged, Loaded, ListTrees
    <2>2. frames = <<>> /\ DOMAIN <<>> = {}
      BY <1>9 DEF SkipUser, Merged, Loaded, ListTrees
    <2>3. QED
      BY <2>1, <2>2 DEF ListTrees, FramesOf
  <1>10. QED
    BY <1>1, <1>2, <1>4, <1>5, <1>6, <1>7, <1>8, <1>9, EntryTrees DEF LoadStep

-----------------------------------------------------------------------------
(* The types of the walk over the list.  The counts are bounded by the     *)
(* cases that were walked over, the recovery points are those of the file. *)
Pts      == Range(Points(input.recovery))
Kinds4   == {"verdict", "exception", "refused", "unreachable"}
Requests == [name : Trees \X Ids, point : Pts \cup {"none"}, kind : Kinds4,
             read : VerdictSet \cup {"none"}, links : SUBSET ({"none"} \cup Trees)]
SOlds    == {"common", "user", "none"} \X (Dirs \cup {""})
LinksIn(ln, d) == {ln[f] : f \in {f \in Files : f[1] = d}}
Links    == [Files -> {"none", "common", "user"}]

WalkTypes ==
    /\ cpc \in {"start", "walk", "report", "stopped", "undefined"} /\ mTest \in Tests
    /\ it \in 1..(Len(mCaseList) + 1) /\ sRun \in 0..MaxRun
    /\ sOld \in SOlds /\ linked \in Links
    /\ gRecPtrList \in Seq(Pts) /\ rit \in 1..(Len(gRecPtrList) + 1)
    /\ cpc = "walk" => rit <= Len(gRecPtrList) \/ rit = 1
    /\ counts \in [VerdictSet -> 0..MaxRun] /\ \A v \in VerdictSet : counts[v] <= sRun
    /\ report \in {"none", "end", "no end", "failed"}
    /\ cpc = "start" => it = 1 /\ rit = 1 /\ requests = <<>> /\ gRecPtrList = <<>>
    /\ cpc # "start" => mpc = "ready"
    /\ Sequential \/ gRecPtrList = <<>>
    /\ mTest = "sequential" => cpc # "start"

ClientTypes == ListTypes /\ ListTrees /\ WalkTypes /\ requests \in Seq(Requests)

LEMMA PointsSeq ==
    ASSUME input \in Inputs
    PROVE  /\ Points(input.recovery) \in Seq(Pts)
           /\ Len(Points(input.recovery)) \in Nat
  <1>1. input.recovery \in Seq(STRING)
    BY WalkAssumption
  <1> DEFINE p == Points(input.recovery)
             n == Len(input.recovery)
  <1>2. n \in Nat /\ DOMAIN input.recovery = 1..n
    BY ONLY <1>1
  <1>3. DOMAIN p = 1..n /\ p = [k \in 1..n |-> p[k]]
    <2> DEFINE q(k) == LET S == {j \in 1..k : input.recovery[j] # ""}
                       IN  IF S = {} THEN "" ELSE input.recovery[CHOOSE j \in S : \A h \in S : h <= j]
    <2>1. p = [k \in 1..n |-> q(k)]
      BY <1>2 DEF Points
    <2> HIDE DEF p, q
    <2>2. QED
      BY <2>1
  <1>4. \A k \in 1..n : p[k] \in Pts
    BY <1>3 DEF Pts, Range
  <1> HIDE DEF p, n
  <1>5. p \in Seq(Pts) /\ Len(p) \in Nat
    BY ONLY <1>2, <1>3, <1>4
  <1>6. QED
    BY <1>5 DEF p

LEMMA WalkLens ==
    ASSUME ListTypes, WalkTypes
    PROVE  /\ Len(mCaseList) \in Nat /\ Len(gRecPtrList) \in Nat /\ it \in Nat /\ rit \in Nat
           /\ sRun \in Nat /\ MaxRun \in Nat
  <1>1. gRecPtrList \in Seq(Pts)
    BY DEF WalkTypes
  <1>2. Len(mCaseList) \in Nat /\ Len(gRecPtrList) \in Nat
    BY <1>1, ListLens
  <1>3. it \in 1..(Len(mCaseList) + 1) /\ rit \in 1..(Len(gRecPtrList) + 1) /\ sRun \in 0..MaxRun /\ MaxRun \in Nat
    BY WalkAssumption DEF WalkTypes
  <1>4. QED
    BY ONLY <1>2, <1>3

LEMMA VerdictRange ==
    /\ VerdictSet = {"PASS", "FAIL", "ERROR", "FATAL", "HIT", "MISS", "CRASH", "IGNR"}
    /\ "none" \notin VerdictSet
  <1>1. DOMAIN Verdicts = 1..8
    BY DEF Verdicts
  <1>2. VerdictSet = {Verdicts[k] : k \in 1..8}
    BY <1>1 DEF VerdictSet, Range
  <1>3. 1..8 = {1, 2, 3, 4, 5, 6, 7, 8}
    OBVIOUS
  <1>4. /\ Verdicts[1] = "PASS" /\ Verdicts[2] = "FAIL" /\ Verdicts[3] = "ERROR" /\ Verdicts[4] = "FATAL"
        /\ Verdicts[5] = "HIT" /\ Verdicts[6] = "MISS" /\ Verdicts[7] = "CRASH" /\ Verdicts[8] = "IGNR"
    BY DEF Verdicts
  <1>5. QED
    BY <1>2, <1>3, <1>4

LEMMA ReadsVerdict ==
    ASSUME NEW reply
    PROVE  Reads(reply) \in VerdictSet \cup {"none"}
  <1>1. ASSUME NEW words
        PROVE  Found1st(words) \in VerdictSet \cup {"none"}
    <2> DEFINE S == {k \in DOMAIN Verdicts : Verdicts[k] \in words}
    <2>1. S \in SUBSET (1..8) /\ DOMAIN Verdicts = 1..8
      BY DEF Verdicts
    <2>2. CASE S = {}
      BY <2>2 DEF Found1st
    <2>3. CASE S # {}
      <3>1. Found1st(words) = Verdicts[Least(S)]
        BY <2>3 DEF Found1st
      <3> HIDE DEF S
      <3>2. Least(S) \in 1..8
        BY <2>1, <2>3, LeastOf
      <3>3. QED
        BY <2>1, <3>1, <3>2 DEF VerdictSet, Range
    <2>4. QED
      BY <2>2, <2>3
  <1>2. "IGNR" \in VerdictSet
    BY VerdictRange
  <1>3. QED
    BY <1>1, <1>2 DEF Reads

(* The links the service makes and removes. *)
LEMMA LinkTypes ==
    ASSUME NEW ln \in Links
    PROVE  /\ \A d \in SOlds : Removed(ln, d) \in Links
           /\ \A d \in Trees \X Dirs : Linked(ln, d) \in Links
           /\ Linked(ln, NoDir) = ln
  <1>1. ASSUME NEW d \in SOlds PROVE Removed(ln, d) \in Links
    BY DEF Links, Removed
  <1>2. ASSUME NEW d \in Trees \X Dirs PROVE Linked(ln, d) \in Links
    BY DEF Links, Trees, Linked
  <1>3. Linked(ln, NoDir) = ln
    BY DEF Links, Linked
  <1>4. QED
    BY <1>1, <1>2, <1>3

LEMMA CaseTypes ==
    ASSUME ListTypes, WalkTypes, Walking
    PROVE  /\ Case \in Cases
           /\ it \in 1..Len(mCaseList)
           /\ dirname(Case.name) \in Trees \X Dirs
           /\ dirname(Case.name) \in SOlds
           /\ dirname(Case.name) # NoDir
           /\ DirOf[Case.name[2]] \in Dirs
           /\ Case.name \in Trees \X Ids
  <1>1. it \in 1..Len(mCaseList)
    <2>1. it \in Nat /\ Len(mCaseList) \in Nat /\ it \in 1..(Len(mCaseList) + 1) /\ it <= Len(mCaseList)
      BY WalkLens DEF Walking, WalkTypes
    <2>2. QED
      BY ONLY <2>1
  <1>2. Case \in Cases
    <2>1. mCaseList \in Seq(Cases)
      BY DEF ListTypes
    <2>2. mCaseList[it] \in Cases
      BY ONLY <1>1, <2>1
    <2>3. QED
      BY <2>2 DEF Case
  <1>3. Case.name \in Trees \X Ids
    BY <1>2 DEF Cases, Trees, Ids
  <1>4. DirOf[Case.name[2]] \in Dirs
    BY <1>3, WalkAssumption DEF Dirs, Range
  <1>5. QED
    BY <1>1, <1>2, <1>3, <1>4 DEF dirname, SOlds, Trees, NoDir

LEMMA LinksAround ==
    ASSUME ListTypes, WalkTypes, Walking
    PROVE  /\ \A ln \in Links : Before(ln) \in Links /\ After(ln) \in Links
           /\ \A ln \in Links : LinksIn(ln, DirOf[Case.name[2]]) \in SUBSET ({"none"} \cup Trees)
  <1>1. sOld \in SOlds /\ NoDir \in SOlds
    BY DEF WalkTypes, SOlds, NoDir
  <1>2. sUnlink \in SOlds
    BY <1>1 DEF sUnlink
  <1>3. sLink = NoDir \/ sLink \in Trees \X Dirs
    BY CaseTypes DEF sLink
  <1>4. ASSUME NEW ln \in Links PROVE Before(ln) \in Links /\ After(ln) \in Links
    <2>1. Removed(ln, sUnlink) \in Links
      BY <1>2, LinkTypes
    <2>2. Linked(Removed(ln, sUnlink), sLink) \in Links
      BY <1>3, <2>1, LinkTypes
    <2>3. Removed(ln, dirname(Case.name)) \in Links
      BY CaseTypes, LinkTypes
    <2>4. QED
      BY <2>2, <2>3 DEF Before, After
  <1>5. QED
    BY <1>4 DEF Links, Trees, LinksIn

(* The end of the body keeps the iterators in their lists. *)
LEMMA BottomTypes ==
    ASSUME ListTypes, WalkTypes, Walking,
           NEW recs \in Seq(Pts), NEW r \in 1..(Len(recs) + 1), NEW c,
           mTest # "sequential" => r = rit /\ recs = gRecPtrList,
           Bottom(recs, r, c)
    PROVE  /\ it' \in 1..(Len(mCaseList) + 1)
           /\ rit' \in 1..(Len(recs) + 1)
           /\ cpc' \in {"walk", "report", "undefined"}
           /\ cpc' = "walk" => rit' <= Len(recs) \/ rit' = 1
  <1>1. Len(mCaseList) \in Nat /\ it \in 1..Len(mCaseList) /\ Len(recs) \in Nat /\ cpc = "walk"
    BY WalkLens, CaseTypes DEF Walking
  <1>2. it + 1 \in 1..(Len(mCaseList) + 1) /\ 1 \in 1..(Len(mCaseList) + 1) /\ 1 \in 1..(Len(recs) + 1)
    BY ONLY <1>1
  <1>3. CASE mTest # "sequential"
    BY <1>1, <1>2, <1>3 DEF Bottom, WalkTypes
  <1>4. CASE mTest = "sequential"
    <2>1. CASE sTotal = 0
      BY <1>2, <1>4, <2>1 DEF Bottom
    <2>2. CASE sTotal # 0 /\ Ratio(c) > sEndCdt
      BY <1>2, <1>4, <2>2 DEF Bottom
    <2>3. CASE sTotal # 0 /\ ~(Ratio(c) > sEndCdt)
      <3>1. /\ it' = IF it = Len(mCaseList) THEN 1 ELSE it + 1
            /\ rit' = IF r > Len(recs) THEN 1 ELSE r
            /\ cpc' = cpc
        BY <1>4, <2>3 DEF Bottom
      <3>2. QED
        BY ONLY <1>1, <1>2, <3>1, r \in 1..(Len(recs) + 1)
    <2>4. QED
      BY <2>1, <2>2, <2>3
  <1>5. QED
    BY <1>3, <1>4

LEMMA InitTypes == Init => ClientTypes
  <1> SUFFICES ASSUME Init PROVE ClientTypes
    OBVIOUS
  <1>1. ListTypes /\ ListTrees
    BY ListTypesInit, ListTreesInit DEF Init
  <1>2. <<>> \in Seq(Pts) /\ <<>> \in Seq(Requests) /\ Len(<<>>) = 0
    BY EmptySeq
  <1>3. linked \in Links /\ sOld \in SOlds
    BY DEF Init, Links, SOlds, NoDir
  <1>4. it \in 1..(Len(mCaseList) + 1)
    BY <1>1, ListLens DEF Init
  <1>5. counts \in [VerdictSet -> 0..MaxRun] /\ sRun \in 0..MaxRun /\ \A v \in VerdictSet : counts[v] <= sRun
    BY WalkAssumption DEF Init
  <1>6. QED
    BY <1>1, <1>2, <1>3, <1>4, <1>5 DEF Init, ClientTypes, WalkTypes, Tests

(* Loading is over before anything else starts. *)
LEMMA LoadFirst ==
    ASSUME ListTrees, WalkTypes, LoadStep
    PROVE  cpc = "start"
  <1>1. mpc # "ready"
    BY DEF LoadStep, ListTrees, LoadShared, LoadUser, LoadRoot, NoCase, Word, Unknown, Entry, Reading,
           Close, Loaded, SkipUser, MergeOne, Merged
  <1>2. QED
    BY <1>1 DEF WalkTypes

(* The lists do not change any more. *)
LEMMA ListKept ==
    ASSUME ListTypes, ListTrees, UNCHANGED listvars
    PROVE  ListTypes' /\ ListTrees'
  <1>1. UNCHANGED <<input, mpc, frames, mCaseList, mLocalCaseList, mPlatformName,
                    mIsSetPlatformInfo, mFindLevel, mi, mKeep, mShared>>
    BY DEF listvars
  <1>2. QED
    BY <1>1 DEF ListTypes, ListTrees, TreeNow, Of, FramesOf

LEMMA LoadTypes == ASSUME ClientTypes, Load PROVE ClientTypes'
  <1>1. LoadStep /\ UNCHANGED walkvars /\ ListTypes /\ ListTrees /\ WalkTypes
    BY DEF Load, ClientTypes
  <1>2. ListTypes' /\ ListTrees'
    BY <1>1, ListTypesStep, ListTreesStep
  <1>3. cpc = "start" /\ it = 1 /\ requests = <<>> /\ gRecPtrList = <<>>
    BY <1>1, LoadFirst DEF WalkTypes
  <1>4. UNCHANGED <<cpc, mTest, all, it, sRun, sOld, gRecPtrList, rit, requests, linked, counts, report>>
    BY <1>1 DEF walkvars
  <1>5. it' \in 1..(Len(mCaseList') + 1)
    <2>1. mCaseList' \in Seq(Cases)
      BY <1>2 DEF ListTypes
    <2>2. Len(mCaseList') \in Nat
      BY ONLY <2>1
    <2>3. QED
      BY <1>3, <1>4, <2>2
  <1>6. gRecPtrList' \in Seq(Pts') /\ requests' \in Seq(Requests')
    BY <1>3, <1>4, EmptySeq
  <1>7. WalkTypes'
    BY <1>1, <1>3, <1>4, <1>5, <1>6 DEF WalkTypes, Sequential
  <1>8. QED
    BY <1>2, <1>6, <1>7 DEF ClientTypes

LEMMA StartTypes == ASSUME ClientTypes, Start PROVE ClientTypes'
  <1>1. ListTypes /\ ListTrees /\ WalkTypes /\ requests \in Seq(Requests)
    BY DEF ClientTypes
  <1>2. mpc = "ready" /\ cpc = "start" /\ UNCHANGED <<listvars, it, sRun, sOld, rit, requests, linked, counts, report>>
    BY DEF Start
  <1>3. ListTypes' /\ ListTrees' /\ input' = input /\ mCaseList' = mCaseList /\ mpc' = mpc
    BY <1>1, <1>2, ListKept DEF listvars
  <1>4. gRecPtrList = <<>> /\ it = 1 /\ rit = 1
    BY <1>1, <1>2 DEF WalkTypes
  <1>5. Pts' = Pts /\ Requests' = Requests
    BY <1>3 DEF Pts, Requests
  <1>6. CASE Starts
    <2>1. /\ cpc' = "walk" /\ mTest' = TestType /\ TestType \in Tests
          /\ gRecPtrList' = IF TestType = "sequential" THEN Points(input.recovery) ELSE <<>>
      BY <1>6 DEF Start, Starts
    <2>2. Points(input.recovery) \in Seq(Pts) /\ <<>> \in Seq(Pts)
      BY <1>1, PointsSeq, EmptySeq DEF ListTypes
    <2>3. gRecPtrList' \in Seq(Pts)
      BY <2>1, <2>2
    <2>4. rit' \in 1..(Len(gRecPtrList') + 1) /\ rit' = 1
      <3>1. Len(gRecPtrList') \in Nat
        BY ONLY <2>3
      <3>2. QED
        BY <1>2, <1>4, <3>1
    <2>5. Sequential' \/ gRecPtrList' = <<>>
      BY <2>1 DEF Sequential
    <2>6. WalkTypes'
      BY <1>1, <1>2, <1>3, <1>4, <1>5, <2>1, <2>3, <2>4, <2>5 DEF WalkTypes
    <2>7. QED
      BY <1>1, <1>2, <1>3, <1>5, <2>6 DEF ClientTypes
  <1>7. CASE ~Starts
    <2>1. cpc' = "stopped" /\ UNCHANGED <<mTest, all, gRecPtrList>>
      BY <1>7 DEF Start
    <2>2. WalkTypes'
      BY <1>1, <1>2, <1>3, <1>4, <1>5, <2>1 DEF WalkTypes, Sequential
    <2>3. QED
      BY <1>1, <1>2, <1>3, <1>5, <2>2 DEF ClientTypes
  <1>8. QED
    BY <1>6, <1>7

(* A step of the walk, whatever it does to the iterators and the requests. *)
LEMMA StepTypes ==
    ASSUME ClientTypes, cpc # "start", UNCHANGED <<listvars, mTest, all>>,
           cpc' \in {"walk", "report", "stopped", "undefined"},
           it' \in 1..(Len(mCaseList) + 1), sRun' \in 0..MaxRun, sRun <= sRun',
           sOld' \in SOlds, linked' \in Links,
           gRecPtrList' \in Seq(Pts), rit' \in 1..(Len(gRecPtrList') + 1),
           cpc' = "walk" => rit' <= Len(gRecPtrList') \/ rit' = 1,
           mTest # "sequential" => gRecPtrList' = gRecPtrList,
           \/ counts' = counts
           \/ \E v \in VerdictSet : counts' = [counts EXCEPT ![v] = @ + 1] /\ sRun' = sRun + 1,
           report' \in {"none", "end", "no end", "failed"},
           requests' \in Seq(Requests)
    PROVE  ClientTypes'
  <1>1. ListTypes /\ ListTrees /\ WalkTypes
    BY DEF ClientTypes
  <1>2. ListTypes' /\ ListTrees' /\ input' = input /\ mCaseList' = mCaseList /\ mpc' = mpc
    BY <1>1, ListKept DEF listvars
  <1>3. Pts' = Pts /\ Requests' = Requests
    BY <1>2 DEF Pts, Requests
  <1>4. counts' \in [VerdictSet -> 0..MaxRun] /\ \A v \in VerdictSet : counts'[v] <= sRun'
    <2>1. counts \in [VerdictSet -> 0..MaxRun] /\ (\A v \in VerdictSet : counts[v] <= sRun)
          /\ sRun \in 0..MaxRun /\ MaxRun \in Nat
      BY <1>1, WalkAssumption DEF WalkTypes
    <2>2. CASE counts' = counts
      BY ONLY <2>1, <2>2, sRun' \in 0..MaxRun, sRun <= sRun'
    <2>3. CASE \E v \in VerdictSet : counts' = [counts EXCEPT ![v] = @ + 1] /\ sRun' = sRun + 1
      <3>1. PICK v \in VerdictSet : counts' = [counts EXCEPT ![v] = @ + 1] /\ sRun' = sRun + 1
        BY <2>3
      <3>2. ASSUME NEW w \in VerdictSet
            PROVE  counts'[w] <= sRun' /\ counts'[w] \in 0..MaxRun
        <4>1. counts'[w] = IF w = v THEN counts[w] + 1 ELSE counts[w]
          BY <2>1, <3>1
        <4>2. counts[w] \in 0..MaxRun /\ counts[w] <= sRun
          BY <2>1
        <4>3. QED
          BY ONLY <2>1, <3>1, <4>1, <4>2, sRun' \in 0..MaxRun
      <3>3. DOMAIN counts' = VerdictSet /\ counts' = [w \in VerdictSet |-> counts'[w]]
        BY <2>1, <3>1
      <3>4. QED
        BY <3>2, <3>3
    <2>4. QED
      BY <2>2, <2>3
  <1>5. Sequential' \/ gRecPtrList' = <<>>
    BY <1>1 DEF WalkTypes, Sequential
  <1>6. WalkTypes'
    BY <1>1, <1>2, <1>3, <1>4, <1>5 DEF WalkTypes
  <1>7. QED
    BY <1>2, <1>3, <1>6 DEF ClientTypes

(* The request of the case the iterator is at. *)
LEMMA RequestTypes ==
    ASSUME ClientTypes, CanRun, mTest = "sequential" => gRecPtrList # <<>>,
           NEW kind \in Kinds4, NEW read \in VerdictSet \cup {"none"}, NEW ln \in Links
    PROVE  /\ Request(kind, read, ln) \in Requests
           /\ mTest = "sequential" => rit \in 1..Len(gRecPtrList)
           /\ Append(requests, Request(kind, read, ln)) \in Seq(Requests)
  <1>1. ListTypes /\ WalkTypes /\ Walking /\ cpc = "walk"
    BY DEF ClientTypes, CanRun, Walking
  <1>2. mTest = "sequential" => rit \in 1..Len(gRecPtrList)
    <2>1. gRecPtrList \in Seq(Pts) /\ (rit <= Len(gRecPtrList) \/ rit = 1) /\ rit \in 1..(Len(gRecPtrList) + 1)
      BY <1>1 DEF WalkTypes
    <2>2. Len(gRecPtrList) \in Nat /\ (gRecPtrList # <<>> => Len(gRecPtrList) >= 1)
      BY ONLY <2>1
    <2>3. QED
      BY ONLY <2>1, <2>2, mTest = "sequential" => gRecPtrList # <<>>
  <1>3. (IF mTest = "sequential" THEN gRecPtrList[rit] ELSE "none") \in Pts \cup {"none"}
    <2>1. gRecPtrList \in Seq(Pts)
      BY <1>1 DEF WalkTypes
    <2>2. mTest = "sequential" => gRecPtrList[rit] \in Pts
      BY ONLY <1>2, <2>1
    <2>3. QED
      BY <2>2
  <1>4. Case.name \in Trees \X Ids /\ LinksIn(ln, DirOf[Case.name[2]]) \in SUBSET ({"none"} \cup Trees)
    BY <1>1, CaseTypes, LinksAround
  <1>5. Request(kind, read, ln) \in Requests
    BY <1>3, <1>4 DEF Request, Requests, LinksIn
  <1>6. requests \in Seq(Requests)
    BY DEF ClientTypes
  <1>7. Append(requests, Request(kind, read, ln)) \in Seq(Requests)
    BY <1>5, <1>6, AppendProperties
  <1>8. QED
    BY <1>2, <1>5, <1>7

LEMMA OneMore ==
    ASSUME ListTypes, WalkTypes, Walking, sRun' = sRun + 1
    PROVE  /\ cpc # "start"
           /\ sRun' \in 0..MaxRun /\ sRun <= sRun'
           /\ it + 1 \in 1..(Len(mCaseList) + 1)
  <1>1. cpc # "start" /\ sRun < MaxRun /\ sRun \in Nat /\ MaxRun \in Nat
    BY WalkLens DEF Walking
  <1>2. sRun' \in 0..MaxRun /\ sRun <= sRun'
    BY ONLY <1>1, sRun' = sRun + 1
  <1>3. it \in 1..Len(mCaseList) /\ Len(mCaseList) \in Nat
    BY CaseTypes, WalkLens
  <1>4. it + 1 \in 1..(Len(mCaseList) + 1)
    BY ONLY <1>3
  <1>5. QED
    BY <1>1, <1>2, <1>4

LEMMA QuietTypes == ASSUME ClientTypes, SkipCase \/ PassList \/ NoPoint \/ EndOfList \/ Report PROVE ClientTypes'
  <1>0. ListTypes /\ WalkTypes /\ requests \in Seq(Requests)
    BY DEF ClientTypes
  <1>1. /\ it \in 1..(Len(mCaseList) + 1) /\ sRun \in 0..MaxRun /\ sOld \in SOlds /\ linked \in Links
        /\ gRecPtrList \in Seq(Pts) /\ rit \in 1..(Len(gRecPtrList) + 1)
        /\ cpc = "walk" => rit <= Len(gRecPtrList) \/ rit = 1
        /\ report \in {"none", "end", "no end", "failed"}
    BY <1>0 DEF WalkTypes
  <1>2. sRun <= sRun /\ MaxRun \in Nat
    BY <1>0, WalkLens
  <1>3. CASE NoPoint \/ EndOfList \/ Report
    <2>1. /\ cpc # "start" /\ cpc' \in {"report", "stopped", "undefined"}
          /\ report' \in {"none", "end", "no end", "failed"}
          /\ UNCHANGED <<listvars, mTest, all, it, sRun, sOld, gRecPtrList, rit, requests, linked, counts>>
      BY <1>1, <1>3 DEF NoPoint, EndOfList, Report, CanRun, Walking
    <2>2. QED
      BY <1>0, <1>1, <1>2, <2>1, StepTypes
  <1>4. ASSUME Walking, sRun' = sRun + 1
        PROVE  cpc # "start" /\ sRun' \in 0..MaxRun /\ sRun <= sRun' /\ it + 1 \in 1..(Len(mCaseList) + 1)
    BY <1>0, <1>4, OneMore
  <1>5. CASE SkipCase
    <2>1. /\ Walking /\ sRun' = sRun + 1 /\ it' = it + 1
          /\ UNCHANGED <<listvars, cpc, mTest, all, sOld, gRecPtrList, rit, requests, linked, counts, report>>
      BY <1>5 DEF SkipCase
    <2>2. cpc' \in {"walk", "report", "stopped", "undefined"}
      BY <2>1 DEF Walking
    <2>3. QED
      BY <1>0, <1>1, <1>4, <2>1, <2>2, StepTypes
  <1>6. CASE PassList
    <2>1. /\ Walking /\ sRun' = sRun + 1 /\ Bottom(gRecPtrList, rit, counts)
          /\ UNCHANGED <<listvars, mTest, all, sOld, gRecPtrList, requests, linked, counts, report>>
      BY <1>6 DEF PassList
    <2>2. /\ it' \in 1..(Len(mCaseList) + 1)
          /\ rit' \in 1..(Len(gRecPtrList) + 1)
          /\ cpc' \in {"walk", "report", "undefined"}
          /\ cpc' = "walk" => rit' <= Len(gRecPtrList) \/ rit' = 1
      BY <1>0, <1>1, <2>1, BottomTypes
    <2>3. QED
      BY <1>0, <1>1, <1>4, <2>1, <2>2, StepTypes
  <1>7. QED
    BY <1>3, <1>5, <1>6

LEMMA RunCaseTypes == ASSUME ClientTypes, NEW reply, RunCase(reply) PROVE ClientTypes'
  <1>0. ListTypes /\ WalkTypes /\ requests \in Seq(Requests) /\ Walking /\ CanRun /\ cpc = "walk"
    BY DEF ClientTypes, RunCase, CanRun, Walking
  <1>1. /\ it \in 1..(Len(mCaseList) + 1) /\ sRun \in 0..MaxRun /\ linked \in Links
        /\ gRecPtrList \in Seq(Pts) /\ rit \in 1..(Len(gRecPtrList) + 1)
        /\ rit <= Len(gRecPtrList) \/ rit = 1
        /\ report \in {"none", "end", "no end", "failed"}
    BY <1>0 DEF WalkTypes
  <1>2. sRun' \in 0..MaxRun /\ sRun <= sRun' /\ sRun' = sRun + 1
    BY <1>0, OneMore DEF RunCase
  <1>3. PICK far \in BOOLEAN :
          LET ln == IF far THEN Before(linked) ELSE linked
              v  == Reads(reply)
              c  == IF v = "none" THEN counts ELSE [counts EXCEPT ![v] = @ + 1]
          IN  /\ linked' = IF reply.kind = "verdict" THEN After(ln) ELSE ln
              /\ requests' = Append(requests, Request(reply.kind, v, ln))
              /\ counts' = c
              /\ gRecPtrList' = RecsAfter(v)
              /\ IF v \in {"FATAL", "none"} THEN cpc' = "report" /\ UNCHANGED <<it, rit>>
                 ELSE Bottom(RecsAfter(v), RitAfter(v), c)
    BY DEF RunCase
  <1> DEFINE ln == IF far THEN Before(linked) ELSE linked
             v  == Reads(reply)
             c  == IF v = "none" THEN counts ELSE [counts EXCEPT ![v] = @ + 1]
  <1>4. /\ linked' = IF reply.kind = "verdict" THEN After(ln) ELSE ln
        /\ requests' = Append(requests, Request(reply.kind, v, ln))
        /\ counts' = c
        /\ gRecPtrList' = RecsAfter(v)
        /\ IF v \in {"FATAL", "none"} THEN cpc' = "report" /\ UNCHANGED <<it, rit>>
           ELSE Bottom(RecsAfter(v), RitAfter(v), c)
    BY <1>3
  <1>5. v \in VerdictSet \cup {"none"}
    BY ReadsVerdict
  <1>6. ln \in Links
    BY <1>0, <1>1, LinksAround
  <1>7. reply.kind \in Kinds4 /\ (mTest = "sequential" => gRecPtrList # <<>>)
        /\ sOld' = dirname(Case.name) /\ UNCHANGED <<listvars, mTest, all, report>>
    BY DEF RunCase, Kinds4
  <1> HIDE DEF v, ln
  <1>8. linked' \in Links
    BY <1>0, <1>4, <1>6, LinksAround
  <1>9. requests' \in Seq(Requests) /\ (mTest = "sequential" => rit \in 1..Len(gRecPtrList))
    BY <1>0, <1>4, <1>5, <1>6, <1>7, RequestTypes
  <1>10. sOld' \in SOlds
    BY <1>0, <1>7, CaseTypes
  <1>11. counts' = counts \/ \E w \in VerdictSet : counts' = [counts EXCEPT ![w] = @ + 1] /\ sRun' = sRun + 1
    BY <1>2, <1>4, <1>5
  <1>12. /\ RecsAfter(v) \in Seq(Pts)
         /\ RitAfter(v) \in 1..(Len(RecsAfter(v)) + 1)
         /\ mTest # "sequential" => RecsAfter(v) = gRecPtrList /\ RitAfter(v) = rit
         /\ v \in {"FATAL", "none"} => RecsAfter(v) = gRecPtrList
    <2>1. CASE mTest = "sequential" /\ v = "HIT"
      <3>1. RemoveAt(gRecPtrList, rit) \in Seq(Pts) /\ Len(RemoveAt(gRecPtrList, rit)) = Len(gRecPtrList) - 1
        BY <1>1, <1>9, <2>1, RemoveAtSeq
      <3>2. Len(gRecPtrList) \in Nat /\ rit \in 1..Len(gRecPtrList)
        BY <1>0, <1>9, <2>1, WalkLens
      <3>3. rit \in 1..(Len(RemoveAt(gRecPtrList, rit)) + 1)
        BY ONLY <3>1, <3>2
      <3>4. QED
        BY <2>1, <3>1, <3>3 DEF RecsAfter, RitAfter
    <2>2. CASE ~(mTest = "sequential" /\ v = "HIT")
      <3>1. RecsAfter(v) = gRecPtrList
        BY <2>2 DEF RecsAfter
      <3>2. RitAfter(v) \in 1..(Len(gRecPtrList) + 1)
        <4>1. CASE mTest = "sequential" /\ v = "MISS"
          <5>1. Len(gRecPtrList) \in Nat /\ rit \in 1..Len(gRecPtrList) /\ RitAfter(v) = rit + 1
            BY <1>0, <1>9, <4>1, WalkLens DEF RitAfter
          <5>2. QED
            BY ONLY <5>1
        <4>2. CASE ~(mTest = "sequential" /\ v = "MISS")
          BY <1>1, <4>2 DEF RitAfter
        <4>3. QED
          BY <4>1, <4>2
      <3>3. QED
        BY <1>1, <3>1, <3>2 DEF RitAfter
    <2>3. QED
      BY <2>1, <2>2
  <1> HIDE DEF c
  <1>13. /\ it' \in 1..(Len(mCaseList) + 1)
         /\ rit' \in 1..(Len(gRecPtrList') + 1)
         /\ cpc' \in {"walk", "report", "undefined"}
         /\ cpc' = "walk" => rit' <= Len(gRecPtrList') \/ rit' = 1
    <2>1. CASE v \in {"FATAL", "none"}
      BY <1>1, <1>4, <1>12, <2>1
    <2>2. CASE v \notin {"FATAL", "none"}
      <3>1. Bottom(RecsAfter(v), RitAfter(v), c)
        BY <1>4, <2>2
      <3>2. QED
        BY <1>0, <1>4, <1>12, <3>1, BottomTypes
    <2>3. QED
      BY <2>1, <2>2
  <1>14. gRecPtrList' \in Seq(Pts) /\ (mTest # "sequential" => gRecPtrList' = gRecPtrList)
         /\ report' \in {"none", "end", "no end", "failed"} /\ cpc # "start"
         /\ cpc' \in {"walk", "report", "stopped", "undefined"}
    BY <1>0, <1>1, <1>4, <1>7, <1>12, <1>13
  <1>15. QED
    BY <1>2, <1>7, <1>8, <1>9, <1>10, <1>11, <1>13, <1>14, StepTypes

LEMMA RefusedTypes == ASSUME ClientTypes, NEW reply, Refused(reply) PROVE ClientTypes'
  <1>0. ListTypes /\ WalkTypes /\ requests \in Seq(Requests) /\ Walking /\ CanRun /\ cpc = "walk"
    BY DEF ClientTypes, Refused, CanRun, Walking
  <1>1. /\ it \in 1..(Len(mCaseList) + 1) /\ sRun \in 0..MaxRun /\ linked \in Links
        /\ gRecPtrList \in Seq(Pts) /\ rit \in 1..(Len(gRecPtrList) + 1)
        /\ rit <= Len(gRecPtrList) \/ rit = 1
        /\ report \in {"none", "end", "no end", "failed"}
    BY <1>0 DEF WalkTypes
  <1>2. sRun' \in 0..MaxRun /\ sRun <= sRun'
    BY <1>0, OneMore DEF Refused
  <1>3. /\ reply.kind \in Kinds4 /\ "none" \in VerdictSet \cup {"none"}
        /\ mTest = "sequential" => gRecPtrList # <<>>
        /\ requests' = Append(requests, Request(reply.kind, "none", linked))
        /\ sOld' = dirname(Case.name)
        /\ UNCHANGED <<listvars, mTest, all, gRecPtrList, linked, counts, report>>
        /\ IF reply.kind = "unreachable" THEN cpc' = "report" /\ UNCHANGED <<it, rit>>
           ELSE Bottom(gRecPtrList, rit, counts)
    BY DEF Refused, Kinds4
  <1>4. requests' \in Seq(Requests)
    BY <1>0, <1>1, <1>3, RequestTypes
  <1>5. /\ it' \in 1..(Len(mCaseList) + 1)
        /\ rit' \in 1..(Len(gRecPtrList') + 1)
        /\ cpc' \in {"walk", "report", "undefined"}
        /\ cpc' = "walk" => rit' <= Len(gRecPtrList') \/ rit' = 1
    <2>1. CASE reply.kind = "unreachable"
      BY <1>1, <1>3, <2>1
    <2>2. CASE reply.kind # "unreachable"
      <3>1. Bottom(gRecPtrList, rit, counts)
        BY <1>3, <2>2
      <3>2. QED
        BY <1>0, <1>1, <1>3, <3>1, BottomTypes
    <2>3. QED
      BY <2>1, <2>2
  <1>6. sOld' \in SOlds
    BY <1>0, <1>3, CaseTypes
  <1>7. cpc' \in {"walk", "report", "stopped", "undefined"} /\ cpc # "start"
    BY <1>0, <1>5
  <1>8. QED
    BY <1>1, <1>2, <1>3, <1>4, <1>5, <1>6, <1>7, StepTypes

LEMMA TypesStep == ClientTypes /\ [Next]_vars => ClientTypes'
  <1> SUFFICES ASSUME ClientTypes, [Next]_vars PROVE ClientTypes'
    OBVIOUS
  <1>1. CASE UNCHANGED vars
    <2>1. ListTypes' /\ ListTrees'
      BY <1>1, ListKept DEF ClientTypes, vars
    <2>2. UNCHANGED <<input, mpc, mCaseList, cpc, mTest, it, sRun, sOld, gRecPtrList, rit, requests, linked, counts, report>>
      BY <1>1 DEF vars, listvars, walkvars
    <2>3. WalkTypes' /\ requests' \in Seq(Requests')
      BY <2>2 DEF ClientTypes, WalkTypes, Sequential, Requests, Pts
    <2>4. QED
      BY <2>1, <2>3 DEF ClientTypes
  <1>2. CASE Next
    <2>1. CASE Stopped
      BY <1>1, <2>1 DEF Stopped
    <2>2. CASE \E reply \in input.replies : RunCase(reply) \/ Refused(reply)
      BY <2>2, RunCaseTypes, RefusedTypes
    <2>3. QED
      BY <1>2, <2>1, <2>2, LoadTypes, StartTypes, QuietTypes DEF Next
  <1>3. QED
    BY <1>1, <1>2

(* Whatever the list files hold and the service answers, the lists hold    *)
(* cases, the iterators over the list and over the recovery points stay in *)
(* them or at their end, and no verdict is counted more often than cases   *)
(* were walked over (CaseManager::load, main).                             *)
THEOREM ClientTypeOK == Spec => []TypeOK
  <1>1. ClientTypes => TypeOK
    <2> SUFFICES ASSUME ClientTypes PROVE TypeOK
      OBVIOUS
    <2>1. mCaseList \in Seq(Cases) /\ mLocalCaseList \in Seq(Cases)
      BY DEF ClientTypes, ListTypes
    <2>2. Range(mCaseList) \cup Range(mLocalCaseList) \subseteq Cases
      BY <2>1 DEF Range
    <2>3. QED
      BY <2>2 DEF ClientTypes, ListTypes, WalkTypes, TypeOK, SOlds, Links
  <1>2. QED
    BY <1>1, InitTypes, TypesStep, PTL DEF Spec

-----------------------------------------------------------------------------
(* mergeCase.  While it goes through the user's list, at is where the      *)
(* common cases are by now, pos where the user's are, of which the first   *)
(* i - 1 are placed.                                                       *)
New(shared, c) == \A k \in 1..Len(shared) : shared[k].name # Twin(c)

Ordered(shared, list, at) ==
    /\ at \in [1..Len(shared) -> 1..Len(list)]
    /\ \A h, k \in 1..Len(shared) : h < k => at[h] < at[k]
    /\ \A k \in 1..Len(shared) : list[at[k]].name[2] = shared[k].name[2]
    /\ \A m \in 1..Len(list) : (\E k \in 1..Len(shared) : at[k] = m) \/ list[m].name[1] = "user"

Placed(local, list, i, pos) ==
    /\ pos \in [1..(i - 1) -> 1..Len(list)]
    /\ \A h, k \in 1..(i - 1) : pos[h] = pos[k] => h = k
    /\ \A k \in 1..(i - 1) : list[pos[k]].name = local[k].name
    /\ \A m \in 1..Len(list) : list[m].name[1] = "user" => \E k \in 1..(i - 1) : pos[k] = m

Behind(shared, local, list, i, keep, pos) ==
    /\ i > 1 => keep = pos[i - 1] + 1
    /\ \A k \in 2..(i - 1) : New(shared, local[k]) => pos[k] = pos[k - 1] + 1 /\ list[pos[k]] = local[k]

MergedTo(shared, local, list, i, keep, at, pos) ==
    Ordered(shared, list, at) /\ Placed(local, list, i, pos) /\ Behind(shared, local, list, i, keep, pos)

(* A twin in the list is a case of the common list. *)
LEMMA TwinIsOld ==
    ASSUME NEW shared \in Seq(Cases), NEW list \in Seq(Cases), NEW at, Ordered(shared, list, at),
           Of(shared, "common"), NEW c \in Cases, NEW k \in 1..Len(list), list[k].name = Twin(c)
    PROVE  ~New(shared, c)
  <1>1. list[k].name[1] = "common" /\ list[k].name[2] = c.name[2]
    BY DEF Twin
  <1>2. PICK h \in 1..Len(shared) : at[h] = k
    BY <1>1 DEF Ordered
  <1>3. shared[h].name[2] = c.name[2] /\ shared[h].name[1] = "common"
    BY <1>1, <1>2 DEF Ordered, Of
  <1>4. shared[h].name \in {"common", "user"} \X DOMAIN KindOf
    <2>1. shared[h] \in Cases
      OBVIOUS
    <2>2. QED
      BY <2>1 DEF Cases
  <1>5. shared[h].name = Twin(c)
    BY <1>3, <1>4 DEF Twin
  <1>6. QED
    BY <1>5 DEF New

(* A case of the user takes the place of its twin. *)
LEMMA MergeTwin ==
    ASSUME NEW shared \in Seq(Cases), NEW local \in Seq(Cases), NEW list \in Seq(Cases),
           NEW i \in 1..Len(local), NEW keep, NEW at, NEW pos,
           MergedTo(shared, local, list, i, keep, at, pos),
           Of(shared, "common"), Of(local, "user"),
           NEW k \in 1..Len(list), list[k].name = Twin(local[i]),
           NEW new \in Seq(Cases), Len(new) = Len(list),
           \A m \in 1..Len(list) : m # k => new[m] = list[m],
           new[k].name = local[i].name
    PROVE  \E at2, pos2 : MergedTo(shared, local, new, i + 1, k + 1, at2, pos2)
  <1> DEFINE pos2 == [j \in 1..i |-> IF j = i THEN k ELSE pos[j]]
             L == Len(list)
             S == Len(shared)
  <1>0. L \in Nat /\ S \in Nat /\ i \in Nat \ {0} /\ (i + 1) - 1 = i /\ k \in 1..L /\ Len(local) \in Nat
    BY Len(list) \in Nat, Len(shared) \in Nat, Len(local) \in Nat
  <1>1. local[i] \in Cases /\ local[i].name[1] = "user"
    BY DEF Of
  <1>2. list[k].name[1] = "common" /\ list[k].name[2] = local[i].name[2]
    BY DEF Twin
  <1>3. ~New(shared, local[i])
    BY <1>1, TwinIsOld DEF MergedTo
  <1>4. /\ at \in [1..S -> 1..L]
        /\ \A g, h \in 1..S : g < h => at[g] < at[h]
        /\ \A h \in 1..S : list[at[h]].name[2] = shared[h].name[2]
        /\ \A m \in 1..L : (\E h \in 1..S : at[h] = m) \/ list[m].name[1] = "user"
    BY DEF MergedTo, Ordered
  <1>5. /\ pos \in [1..(i - 1) -> 1..L]
        /\ \A g, h \in 1..(i - 1) : pos[g] = pos[h] => g = h
        /\ \A h \in 1..(i - 1) : list[pos[h]].name = local[h].name
        /\ \A m \in 1..L : list[m].name[1] = "user" => \E h \in 1..(i - 1) : pos[h] = m
    BY DEF MergedTo, Placed
  <1>6. \A h \in 2..(i - 1) : New(shared, local[h]) => pos[h] = pos[h - 1] + 1 /\ list[pos[h]] = local[h]
    BY DEF MergedTo, Behind
  <1>7. Len(new) = L /\ (\A m \in 1..L : m # k => new[m] = list[m]) /\ new[k].name = local[i].name
    OBVIOUS
  <1>8. \A h \in 1..(i - 1) : local[h].name[1] = "user" /\ h \in 1..i /\ h # i
    <2>1. \A h \in 1..(i - 1) : h \in 1..Len(local) /\ h \in 1..i /\ h # i
      BY <1>0
    <2>2. QED
      BY <2>1 DEF Of
  <1>9. \A h \in 1..(i - 1) : pos[h] \in 1..L /\ pos[h] # k /\ pos2[h] = pos[h]
    <2>1. SUFFICES ASSUME NEW h \in 1..(i - 1) PROVE pos[h] \in 1..L /\ pos[h] # k /\ pos2[h] = pos[h]
      OBVIOUS
    <2>2. pos2[h] = pos[h]
      BY <1>8
    <2>3. pos[h] \in 1..L
      BY <1>5
    <2>4. list[pos[h]].name = local[h].name
      BY <1>5
    <2>5. local[h].name[1] = "user"
      BY <1>8
    <2>6. list[k].name[1] = "common"
      BY <1>2
    <2>7. pos[h] # k
      BY <2>4, <2>5, <2>6
    <2>8. QED
      BY <2>2, <2>3, <2>7
  <1>10. pos2[i] = k /\ \A h \in 1..i : h = i \/ h \in 1..(i - 1)
    BY <1>0
  <1>11. Ordered(shared, new, at)
    <2>1. \A h \in 1..S : new[at[h]].name[2] = shared[h].name[2]
      <3>1. SUFFICES ASSUME NEW h \in 1..S PROVE new[at[h]].name[2] = shared[h].name[2]
        OBVIOUS
      <3>2. at[h] \in 1..L /\ list[at[h]].name[2] = shared[h].name[2]
        BY <1>4
      <3>3. CASE at[h] = k
        BY <1>2, <1>7, <3>2, <3>3
      <3>4. CASE at[h] # k
        BY <1>7, <3>2, <3>4
      <3>5. QED
        BY <3>3, <3>4
    <2>2. \A m \in 1..L : (\E h \in 1..S : at[h] = m) \/ new[m].name[1] = "user"
      <3>1. SUFFICES ASSUME NEW m \in 1..L PROVE (\E h \in 1..S : at[h] = m) \/ new[m].name[1] = "user"
        OBVIOUS
      <3>2. CASE m = k
        BY <1>1, <1>7, <3>2
      <3>3. CASE m # k
        BY <1>4, <1>7, <3>3
      <3>4. QED
        BY <3>2, <3>3
    <2>3. QED
      BY <1>4, <1>7, <2>1, <2>2 DEF Ordered
  <1>12. Placed(local, new, i + 1, pos2)
    <2>1. pos2 \in [1..i -> 1..L]
      BY <1>0, <1>9, <1>10
    <2>2. \A g, h \in 1..i : pos2[g] = pos2[h] => g = h
      BY <1>5, <1>9, <1>10
    <2>3. \A h \in 1..i : new[pos2[h]].name = local[h].name
      BY <1>5, <1>7, <1>9, <1>10
    <2>4. \A m \in 1..L : new[m].name[1] = "user" => \E h \in 1..i : pos2[h] = m
      <3>1. SUFFICES ASSUME NEW m \in 1..L, new[m].name[1] = "user" PROVE \E h \in 1..i : pos2[h] = m
        OBVIOUS
      <3>2. CASE m = k
        BY <1>0, <1>10, <3>2
      <3>3. CASE m # k
        <4>1. PICK h \in 1..(i - 1) : pos[h] = m
          BY <1>5, <1>7, <3>1, <3>3
        <4>2. pos2[h] = m /\ h \in 1..i
          BY <1>8, <1>9, <4>1
        <4>3. QED
          BY <4>2
      <3>4. QED
        BY <3>2, <3>3
    <2>5. QED
      BY <1>0, <1>7, <2>1, <2>2, <2>3, <2>4 DEF Placed
  <1>13. Behind(shared, local, new, i + 1, k + 1, pos2)
    <2>1. ASSUME NEW h \in 2..i, New(shared, local[h])
          PROVE  pos2[h] = pos2[h - 1] + 1 /\ new[pos2[h]] = local[h]
      <3>1. h # i
        BY <1>3, <2>1
      <3>2. h \in 2..(i - 1) /\ h \in 1..(i - 1) /\ h - 1 \in 1..(i - 1)
        BY <1>0, <3>1
      <3>3. pos[h] = pos[h - 1] + 1 /\ list[pos[h]] = local[h]
        BY <1>6, <2>1, <3>2
      <3>4. QED
        BY <1>7, <1>9, <3>2, <3>3
    <2>2. k + 1 = pos2[(i + 1) - 1] + 1
      BY <1>0, <1>10
    <2>3. QED
      BY <1>0, <2>1, <2>2 DEF Behind
  <1>14. QED
    BY <1>11, <1>12, <1>13 DEF MergedTo

(* A case of the user is put in at p: what stood there or behind moves on. *)
LEMMA MergePut ==
    ASSUME NEW shared \in Seq(Cases), NEW local \in Seq(Cases), NEW list \in Seq(Cases),
           NEW i \in 1..Len(local), NEW keep, NEW at, NEW pos,
           MergedTo(shared, local, list, i, keep, at, pos),
           Of(shared, "common"), Of(local, "user"),
           NEW p \in 1..(Len(list) + 1), i > 1 => p = keep,
           NEW new \in Seq(Cases), Len(new) = Len(list) + 1,
           \A m \in 1..(p - 1) : new[m] = list[m],
           \A m \in p..Len(list) : new[m + 1] = list[m],
           new[p] = local[i]
    PROVE  \E at2, pos2 : MergedTo(shared, local, new, i + 1, p + 1, at2, pos2)
  <1> DEFINE L == Len(list)
             S == Len(shared)
             sh(q) == IF q < p THEN q ELSE q + 1
             at2 == [h \in 1..S |-> sh(at[h])]
             pos2 == [j \in 1..i |-> IF j = i THEN p ELSE sh(pos[j])]
  <1>0. L \in Nat /\ S \in Nat /\ i \in Nat \ {0} /\ (i + 1) - 1 = i /\ p \in 1..(L + 1) /\ Len(local) \in Nat
    BY Len(list) \in Nat, Len(shared) \in Nat, Len(local) \in Nat
  <1>1. local[i] \in Cases /\ local[i].name[1] = "user"
    BY DEF Of
  <1>4. /\ at \in [1..S -> 1..L]
        /\ \A g, h \in 1..S : g < h => at[g] < at[h]
        /\ \A h \in 1..S : list[at[h]].name[2] = shared[h].name[2]
        /\ \A m \in 1..L : (\E h \in 1..S : at[h] = m) \/ list[m].name[1] = "user"
    BY DEF MergedTo, Ordered
  <1>5. /\ pos \in [1..(i - 1) -> 1..L]
        /\ \A g, h \in 1..(i - 1) : pos[g] = pos[h] => g = h
        /\ \A h \in 1..(i - 1) : list[pos[h]].name = local[h].name
        /\ \A m \in 1..L : list[m].name[1] = "user" => \E h \in 1..(i - 1) : pos[h] = m
    BY DEF MergedTo, Placed
  <1>6. /\ \A h \in 2..(i - 1) : New(shared, local[h]) => pos[h] = pos[h - 1] + 1 /\ list[pos[h]] = local[h]
        /\ i > 1 => p = pos[i - 1] + 1
    BY DEF MergedTo, Behind
  <1>7. /\ Len(new) = L + 1 /\ (\A m \in 1..(p - 1) : new[m] = list[m])
        /\ (\A m \in p..L : new[m + 1] = list[m]) /\ new[p] = local[i]
    OBVIOUS
  <1> HIDE DEF L, S
  <1>8. \A q \in 1..L : sh(q) \in 1..(L + 1) /\ sh(q) # p /\ new[sh(q)] = list[q]
    <2>1. SUFFICES ASSUME NEW q \in 1..L PROVE sh(q) \in 1..(L + 1) /\ sh(q) # p /\ new[sh(q)] = list[q]
      OBVIOUS
    <2>2. CASE q < p
      <3>1. q \in 1..(p - 1) /\ q \in 1..(L + 1) /\ q # p /\ sh(q) = q
        BY <1>0, <2>2
      <3>2. QED
        BY <1>7, <3>1
    <2>3. CASE ~(q < p)
      <3>1. q \in p..L /\ q + 1 \in 1..(L + 1) /\ q + 1 # p /\ sh(q) = q + 1
        BY <1>0, <2>3
      <3>2. QED
        BY <1>7, <3>1
    <2>4. QED
      BY <2>2, <2>3
  <1>9. /\ \A q, r \in 1..L : q < r => sh(q) < sh(r)
        /\ \A q, r \in 1..L : sh(q) = sh(r) => q = r
    BY <1>0
  <1>10. \A m \in 1..(L + 1) : m = p \/ \E q \in 1..L : sh(q) = m
    <2>1. SUFFICES ASSUME NEW m \in 1..(L + 1), m # p PROVE \E q \in 1..L : sh(q) = m
      OBVIOUS
    <2>2. CASE m < p
      <3>1. m \in 1..L /\ sh(m) = m
        BY <1>0, <2>2
      <3>2. QED
        BY <3>1
    <2>3. CASE m > p
      <3>1. m - 1 \in 1..L /\ sh(m - 1) = m
        BY <1>0, <2>3
      <3>2. QED
        BY <3>1
    <2>4. QED
      BY <1>0, <2>1, <2>2, <2>3
  <1>11. \A h \in 1..(i - 1) : h \in 1..i /\ h # i /\ h \in 1..Len(local)
    BY <1>0
  <1>12. i \in 1..i /\ \A h \in 1..i : h = i \/ h \in 1..(i - 1)
    BY <1>0
  <1>13. /\ pos2[i] = p /\ DOMAIN pos2 = 1..i
         /\ \A h \in 1..(i - 1) : pos[h] \in 1..L /\ pos2[h] = sh(pos[h])
    BY <1>5, <1>11, <1>12
  <1>14. \A h \in 1..S : at[h] \in 1..L /\ at2[h] = sh(at[h])
    BY <1>4
  <1>15. at2 = [h \in 1..S |-> at2[h]] /\ pos2 = [j \in 1..i |-> pos2[j]]
    OBVIOUS
  <1>16. i > 1 => sh(p - 1) = p - 1 /\ i - 1 \in 1..(i - 1)
    BY <1>0
  <1>17. \A q \in 1..L : sh(q) = sh(q) + 0 /\ (q + 1 \in 1..L /\ q # p - 1 => sh(q + 1) = sh(q) + 1)
    BY <1>0
  <1> HIDE DEF sh, at2, pos2
  <1>18. Ordered(shared, new, at2)
    <2>1. at2 \in [1..S -> 1..(L + 1)]
      BY <1>8, <1>14, <1>15
    <2>2. \A g, h \in 1..S : g < h => at2[g] < at2[h]
      BY <1>4, <1>9, <1>14
    <2>3. \A h \in 1..S : new[at2[h]].name[2] = shared[h].name[2]
      BY <1>4, <1>8, <1>14
    <2>4. \A m \in 1..(L + 1) : (\E h \in 1..S : at2[h] = m) \/ new[m].name[1] = "user"
      <3>1. SUFFICES ASSUME NEW m \in 1..(L + 1) PROVE (\E h \in 1..S : at2[h] = m) \/ new[m].name[1] = "user"
        OBVIOUS
      <3>2. CASE m = p
        BY <1>1, <1>7, <3>2
      <3>3. CASE m # p
        <4>1. PICK q \in 1..L : sh(q) = m
          BY <1>10, <3>3
        <4>2. new[m] = list[q]
          BY <1>8, <4>1
        <4>3. (\E h \in 1..S : at[h] = q) \/ list[q].name[1] = "user"
          BY <1>4
        <4>4. QED
          BY <1>14, <4>1, <4>2, <4>3
      <3>4. QED
        BY <3>2, <3>3
    <2>5. QED
      BY <1>7, <2>1, <2>2, <2>3, <2>4 DEF Ordered, S
  <1>19. Placed(local, new, i + 1, pos2)
    <2>1. pos2 \in [1..i -> 1..(L + 1)]
      <3>1. \A h \in 1..i : pos2[h] \in 1..(L + 1)
        BY <1>0, <1>8, <1>12, <1>13
      <3>2. QED
        BY <1>15, <3>1
    <2>2. \A g, h \in 1..i : pos2[g] = pos2[h] => g = h
      <3>1. SUFFICES ASSUME NEW g \in 1..i, NEW h \in 1..i, pos2[g] = pos2[h] PROVE g = h
        OBVIOUS
      <3>2. CASE g = i \/ h = i
        <4>1. \A m \in 1..(i - 1) : pos2[m] # p
          <5>1. SUFFICES ASSUME NEW m \in 1..(i - 1) PROVE pos2[m] # p
            OBVIOUS
          <5>2. pos[m] \in 1..L /\ pos2[m] = sh(pos[m])
            BY <1>13
          <5>3. QED
            BY <1>8, <5>2
        <4>2. pos2[i] = p
          BY <1>13
        <4>3. QED
          BY <1>12, <3>1, <3>2, <4>1, <4>2
      <3>3. CASE g # i /\ h # i
        <4>1. g \in 1..(i - 1) /\ h \in 1..(i - 1)
          BY <1>12, <3>3
        <4>2. sh(pos[g]) = sh(pos[h])
          BY <1>13, <3>1, <4>1
        <4>3. pos[g] = pos[h]
          BY <1>9, <1>13, <4>1, <4>2
        <4>4. QED
          BY <1>5, <4>1, <4>3
      <3>4. QED
        BY <3>2, <3>3
    <2>3. \A h \in 1..i : new[pos2[h]].name = local[h].name
      <3>1. new[pos2[i]].name = local[i].name
        BY <1>7, <1>13
      <3>2. ASSUME NEW h \in 1..(i - 1)
            PROVE  new[pos2[h]].name = local[h].name
        <4>1. pos[h] \in 1..L /\ pos2[h] = sh(pos[h])
          BY <1>13
        <4>2. new[sh(pos[h])] = list[pos[h]]
          BY <1>8, <4>1
        <4>3. QED
          BY <1>5, <4>1, <4>2
      <3>3. QED
        BY <1>12, <3>1, <3>2
    <2>4. \A m \in 1..(L + 1) : new[m].name[1] = "user" => \E h \in 1..i : pos2[h] = m
      <3>1. SUFFICES ASSUME NEW m \in 1..(L + 1), new[m].name[1] = "user" PROVE \E h \in 1..i : pos2[h] = m
        OBVIOUS
      <3>2. CASE m = p
        BY <1>12, <1>13, <3>2
      <3>3. CASE m # p
        <4>1. PICK q \in 1..L : sh(q) = m
          BY <1>10, <3>3
        <4>2. list[q].name[1] = "user"
          BY <1>8, <3>1, <4>1
        <4>3. PICK h \in 1..(i - 1) : pos[h] = q
          BY <1>5, <4>2
        <4>4. pos2[h] = m /\ h \in 1..i
          BY <1>11, <1>13, <4>1, <4>3
        <4>5. QED
          BY <4>4
      <3>4. QED
        BY <3>2, <3>3
    <2>5. QED
      BY <1>0, <1>7, <2>1, <2>2, <2>3, <2>4 DEF Placed
  <1>20. Behind(shared, local, new, i + 1, p + 1, pos2)
    <2>1. ASSUME NEW h \in 2..i, New(shared, local[h])
          PROVE  pos2[h] = pos2[h - 1] + 1 /\ new[pos2[h]] = local[h]
      <3>1. CASE h = i
        <4>1. i > 1 /\ i - 1 \in 1..(i - 1) /\ p = pos[i - 1] + 1
          BY <1>0, <1>6, <3>1
        <4>2. pos[i - 1] \in 1..L /\ pos2[i - 1] = sh(pos[i - 1])
          BY <1>13, <4>1
        <4>3. pos[i - 1] = p - 1
          BY <1>0, <4>1, <4>2
        <4>4. pos2[i - 1] = p - 1
          BY <1>16, <4>1, <4>2, <4>3
        <4>5. QED
          BY <1>0, <1>7, <1>13, <3>1, <4>4
      <3>2. CASE h # i
        <4>1. h \in 2..(i - 1) /\ h \in 1..(i - 1) /\ h - 1 \in 1..(i - 1) /\ i > 1 /\ h - 1 # i - 1 /\ i - 1 \in 1..(i - 1)
          BY <1>0, <3>2
        <4>2. pos[h] = pos[h - 1] + 1 /\ list[pos[h]] = local[h]
          BY <1>6, <2>1, <4>1
        <4>3. pos[h] \in 1..L /\ pos[h - 1] \in 1..L /\ pos[i - 1] \in 1..L
          BY <1>13, <4>1
        <4>4. pos[h - 1] # pos[i - 1]
          BY <1>5, <4>1
        <4>5. pos[h - 1] # p - 1
          BY <1>0, <1>6, <4>1, <4>3, <4>4
        <4>6. sh(pos[h]) = sh(pos[h - 1]) + 1
          BY <1>17, <4>2, <4>3, <4>5
        <4>7. new[sh(pos[h])] = local[h]
          BY <1>8, <4>2, <4>3
        <4>8. QED
          BY <1>13, <4>1, <4>6, <4>7
      <3>3. QED
        BY <3>1, <3>2
    <2>2. p + 1 = pos2[(i + 1) - 1] + 1
      BY <1>0, <1>13
    <2>3. QED
      BY <1>0, <2>1, <2>2 DEF Behind
  <1>21. QED
    BY <1>18, <1>19, <1>20 DEF MergedTo

MergeInv ==
    mpc = "merge" => \E at, pos : MergedTo(mShared, mLocalCaseList, mCaseList, mi, mKeep, at, pos)

(* Before mergeCase: nothing has moved. *)
LEMMA MergeBegins ==
    ASSUME ListTypes, ListTrees, Loaded("loadingUser", "merge")
    PROVE  MergeInv'
  <1>1. /\ mpc = "loadingUser" /\ mShared' = mCaseList
        /\ UNCHANGED <<mCaseList, mLocalCaseList, mi, mKeep>>
    BY DEF Loaded
  <1>2. mi = 1 /\ Of(mCaseList, "common")
    BY <1>1 DEF ListTrees
  <1> DEFINE n == Len(mCaseList)
             at == [k \in 1..n |-> k]
             pos == [k \in 1..(1 - 1) |-> k]
  <1>3. n \in Nat /\ mCaseList \in Seq(Cases)
    BY ListLens DEF ListTypes
  <1>4. \A k \in 1..n : mCaseList[k].name[1] = "common"
    BY <1>2, <1>3 DEF Of
  <1>5. Ordered(mCaseList, mCaseList, at)
    BY <1>3 DEF Ordered
  <1>6. 1..(1 - 1) = {} /\ 2..(1 - 1) = {} /\ ~(1 > 1)
    OBVIOUS
  <1>7. Placed(mLocalCaseList, mCaseList, 1, pos)
    BY <1>4, <1>6 DEF Placed
  <1>8. Behind(mCaseList, mLocalCaseList, mCaseList, 1, mKeep, pos)
    BY <1>6 DEF Behind
  <1> HIDE DEF at, pos
  <1>9. MergedTo(mCaseList, mLocalCaseList, mCaseList, 1, mKeep, at, pos)
    BY <1>5, <1>7, <1>8 DEF MergedTo
  <1>10. \E a, q : MergedTo(mCaseList, mLocalCaseList, mCaseList, 1, mKeep, a, q)
    BY <1>9
  <1>11. QED
    BY <1>1, <1>2, <1>10 DEF MergeInv

LEMMA MergeGoesOn ==
    ASSUME ListTypes, ListTrees, MergeInv, MergeOne
    PROVE  MergeInv'
  <1> DEFINE c == mLocalCaseList[mi]
             n == Len(mCaseList)
  <1>0. /\ mCaseList \in Seq(Cases) /\ mLocalCaseList \in Seq(Cases) /\ mShared \in Seq(Cases)
        /\ n \in Nat /\ Len(mLocalCaseList) \in Nat
        /\ mi \in 1..Len(mLocalCaseList) /\ mKeep \in 1..(n + 1)
    <2>1. mi \in 1..(Len(mLocalCaseList) + 1) /\ mi <= Len(mLocalCaseList)
      BY DEF ListTypes, MergeOne
    <2>2. Len(mCaseList) \in Nat /\ Len(mLocalCaseList) \in Nat
      BY ListLens
    <2>3. mi \in 1..Len(mLocalCaseList)
      BY ONLY <2>1, <2>2
    <2>4. QED
      BY <2>2, <2>3 DEF ListTypes
  <1>1. /\ mpc = "merge" /\ mi' = mi + 1 /\ mShared' = mShared /\ mLocalCaseList' = mLocalCaseList
    BY DEF MergeOne
  <1>2. PICK at, pos : MergedTo(mShared, mLocalCaseList, mCaseList, mi, mKeep, at, pos)
    BY <1>1 DEF MergeInv
  <1>3. Of(mShared, "common") /\ Of(mLocalCaseList, "user")
    BY DEF ListTrees
  <1>4. mCaseList' \in Seq(Cases)
    BY MergeTypes DEF ListTypes
  <1>5. SUFFICES \E at2, pos2 : MergedTo(mShared, mLocalCaseList, mCaseList', mi + 1, mKeep', at2, pos2)
    BY <1>1 DEF MergeInv
  <1>6. c \in Cases
    BY <1>0
  <1>7. CASE Found(c) # {}
    <2> DEFINE k == Least(Found(c))
    <2>1. /\ mCaseList' = [mCaseList EXCEPT ![k] = Updated(mCaseList[k], c)]
          /\ mKeep' = k + 1
      BY <1>7 DEF MergeOne
    <2>2. k \in 1..n /\ mCaseList[k].name = Twin(c)
      <3>1. Found(c) \in SUBSET (1..n)
        BY <1>0 DEF Found
      <3>2. k \in Found(c)
        BY <1>0, <1>7, <3>1, LeastOf
      <3>3. QED
        BY <3>1, <3>2 DEF Found
    <2> HIDE DEF k
    <2>3. Updated(mCaseList[k], c) \in Cases /\ Updated(mCaseList[k], c).name = c.name
      <3>1. mCaseList[k] \in Cases
        BY <1>0, <2>2
      <3>2. QED
        BY <1>6, <3>1 DEF Updated, Cases
    <2>4. Len(mCaseList') = n /\ (\A m \in 1..n : m # k => mCaseList'[m] = mCaseList[m]) /\ mCaseList'[k].name = c.name
      <3>1. /\ Len([mCaseList EXCEPT ![k] = Updated(mCaseList[k], c)]) = n
            /\ \A m \in 1..n : [mCaseList EXCEPT ![k] = Updated(mCaseList[k], c)][m]
                                  = IF m = k THEN Updated(mCaseList[k], c) ELSE mCaseList[m]
        BY <1>0, <2>2, <2>3, ExceptSeq
      <3>2. QED
        BY <2>1, <2>2, <2>3, <3>1
    <2>5. QED
      BY <1>0, <1>2, <1>3, <1>4, <2>1, <2>2, <2>4, MergeTwin
  <1>8. CASE Found(c) = {} /\ mi = 1
    <2>1. mCaseList' = Append(mCaseList, c) /\ mKeep' = n + 2
      BY <1>8 DEF MergeOne
    <2>2. /\ Len(Append(mCaseList, c)) = n + 1
          /\ \A m \in 1..n : Append(mCaseList, c)[m] = mCaseList[m]
          /\ Append(mCaseList, c)[n + 1] = c
      BY <1>0, <1>6, AppendProperties
    <2>3. n + 1 \in 1..(n + 1) /\ (n + 1) - 1 = n /\ (n + 1)..n = {} /\ (n + 1) + 1 = n + 2 /\ ~(mi > 1)
      BY <1>0, <1>8
    <2> DEFINE p == n + 1
    <2>4. /\ p \in 1..(n + 1) /\ (mi > 1 => p = mKeep) /\ Len(mCaseList') = n + 1
          /\ (\A m \in 1..(p - 1) : mCaseList'[m] = mCaseList[m])
          /\ (\A m \in p..n : mCaseList'[m + 1] = mCaseList[m])
          /\ mCaseList'[p] = c /\ mKeep' = p + 1
      BY <2>1, <2>2, <2>3
    <2> HIDE DEF p
    <2>5. QED
      BY <1>0, <1>2, <1>3, <1>4, <2>4, MergePut
  <1>9. CASE Found(c) = {} /\ mi # 1
    <2>1. mCaseList' = InsertAt(mCaseList, mKeep, c) /\ mKeep' = mKeep + 1
      BY <1>9 DEF MergeOne, Put
    <2>2. /\ Len(mCaseList') = n + 1
          /\ \A m \in 1..(mKeep - 1) : mCaseList'[m] = mCaseList[m]
          /\ \A m \in mKeep..n : mCaseList'[m + 1] = mCaseList[m]
          /\ mCaseList'[mKeep] = c
      BY <1>0, <1>6, <2>1, InsertAtSeq
    <2>3. QED
      BY <1>0, <1>2, <1>3, <1>4, <2>1, <2>2, MergePut
  <1>10. QED
    BY <1>7, <1>8, <1>9

LEMMA MergeInvStep ==
    ClientTypes /\ MergeInv /\ [Next]_vars => MergeInv'
  <1> SUFFICES ASSUME ClientTypes, MergeInv, [Next]_vars PROVE MergeInv'
    OBVIOUS
  <1>0. ListTypes /\ ListTrees
    BY DEF ClientTypes
  <1>1. ASSUME UNCHANGED <<mpc, mShared, mLocalCaseList, mCaseList, mi, mKeep>>
        PROVE  MergeInv'
    BY <1>1 DEF MergeInv
  <1>2. ASSUME UNCHANGED listvars
        PROVE  MergeInv'
    BY <1>1, <1>2 DEF listvars
  <1>3. CASE Load
    <2>1. CASE MergeOne
      BY <1>0, <2>1, MergeGoesOn
    <2>2. CASE Loaded("loadingUser", "merge")
      BY <1>0, <2>2, MergeBegins
    <2>3. CASE mpc' # "merge"
      BY <2>3 DEF MergeInv
    <2>4. mpc' = "merge" => MergeOne \/ Loaded("loadingUser", "merge")
      <3>1. frames # <<>> => mpc # "merge"
        BY <1>0 DEF ListTrees
      <3>2. LoadStep
        BY <1>3 DEF Load
      <3>3. QED
        BY <3>1, <3>2 DEF LoadStep, LoadShared, LoadUser, LoadRoot, NoCase, Word, Unknown, Entry, Reading,
              Close, Loaded, SkipUser, Merged
    <2>5. QED
      BY <2>1, <2>2, <2>3, <2>4
  <1>4. CASE Start \/ SkipCase \/ PassList \/ NoPoint \/ EndOfList \/ Report \/ Stopped \/ UNCHANGED vars
    BY <1>2, <1>4 DEF Start, SkipCase, PassList, NoPoint, EndOfList, Report, Stopped, vars
  <1>5. CASE \E reply \in input.replies : RunCase(reply) \/ Refused(reply)
    BY <1>2, <1>5 DEF RunCase, Refused
  <1>6. QED
    BY <1>3, <1>4, <1>5 DEF Next

(* What the places of all cases of the user say of the merged list. *)
LEMMA MergeDone ==
    ASSUME ListTypes, ListTrees, MergeInv PROVE MergeInOrder
  <1> SUFFICES ASSUME mpc = "merge", mi > Len(mLocalCaseList) PROVE
        /\ Cardinality(Mine) = Len(mLocalCaseList)
        /\ \E at \in [DOMAIN mShared -> DOMAIN mCaseList] : KeepsOrder(at)
        /\ \A i \in 2..Len(mLocalCaseList) : IsNew(mLocalCaseList[i]) =>
              \E k \in 2..Len(mCaseList) : /\ mCaseList[k] = mLocalCaseList[i]
                                           /\ mCaseList[k - 1].name = mLocalCaseList[i - 1].name
    BY DEF MergeInOrder
  <1> DEFINE n == Len(mLocalCaseList)
             L == Len(mCaseList)
             S == Len(mShared)
  <1>1. /\ n \in Nat /\ L \in Nat /\ S \in Nat
        /\ DOMAIN mCaseList = 1..L /\ DOMAIN mShared = 1..S /\ DOMAIN mLocalCaseList = 1..n
    <2>1. mCaseList \in Seq(Cases) /\ mLocalCaseList \in Seq(Cases) /\ mShared \in Seq(Cases)
      BY DEF ListTypes
    <2>2. QED
      BY ONLY <2>1
  <1>2. mi - 1 = n
    <2>1. mi \in 1..(n + 1)
      BY DEF ListTypes
    <2>2. QED
      BY ONLY <1>1, <2>1, mi > Len(mLocalCaseList)
  <1>3. PICK at, pos : MergedTo(mShared, mLocalCaseList, mCaseList, mi, mKeep, at, pos)
    BY DEF MergeInv
  <1>4. /\ at \in [1..S -> 1..L]
        /\ \A h, k \in 1..S : h < k => at[h] < at[k]
        /\ \A k \in 1..S : mCaseList[at[k]].name[2] = mShared[k].name[2]
        /\ \A m \in 1..L : (\E k \in 1..S : at[k] = m) \/ mCaseList[m].name[1] = "user"
    BY <1>3 DEF MergedTo, Ordered
  <1>5. /\ pos \in [1..n -> 1..L]
        /\ \A h, k \in 1..n : pos[h] = pos[k] => h = k
        /\ \A k \in 1..n : mCaseList[pos[k]].name = mLocalCaseList[k].name
        /\ \A m \in 1..L : mCaseList[m].name[1] = "user" => \E k \in 1..n : pos[k] = m
    BY <1>2, <1>3 DEF MergedTo, Placed
  <1>6. \A k \in 2..n : New(mShared, mLocalCaseList[k]) =>
            pos[k] = pos[k - 1] + 1 /\ mCaseList[pos[k]] = mLocalCaseList[k]
    BY <1>2, <1>3 DEF MergedTo, Behind
  <1>7. \A k \in 1..n : mLocalCaseList[k].name[1] = "user"
    BY <1>1 DEF ListTrees, Of
  <1> HIDE DEF n, L, S
  <1>8. Cardinality(Mine) = n
    <2>1. Mine = {m \in 1..L : mCaseList[m].name[1] = "user"}
      BY <1>1 DEF Mine
    <2>2. \A k \in 1..n : pos[k] \in Mine
      <3>1. SUFFICES ASSUME NEW k \in 1..n PROVE pos[k] \in Mine
        OBVIOUS
      <3>2. pos[k] \in 1..L /\ mCaseList[pos[k]].name = mLocalCaseList[k].name /\ mLocalCaseList[k].name[1] = "user"
        BY <1>5, <1>7
      <3>3. QED
        BY <2>1, <3>2
    <2>3. \A m \in Mine : \E k \in 1..n : pos[k] = m
      BY <1>5, <2>1
    <2>4. pos \in Bijection(1..n, Mine)
      <3>1. pos \in [1..n -> Mine]
        BY <1>5, <2>2
      <3>2. \A h, k \in 1..n : pos[h] = pos[k] => h = k
        BY <1>5
      <3>3. QED
        BY <2>3, <3>1, <3>2 DEF Bijection, Injection, Surjection, IsInjective
    <2>5. IsFiniteSet(1..n) /\ Cardinality(1..n) = n
      BY <1>1, FS_Interval
    <2>6. QED
      BY <2>4, <2>5, FS_Bijection DEF ExistsBijection
  <1>9. at \in [DOMAIN mShared -> DOMAIN mCaseList] /\ KeepsOrder(at)
    BY <1>1, <1>4 DEF KeepsOrder, Mine
  <1>10. ASSUME NEW i \in 2..n, IsNew(mLocalCaseList[i])
         PROVE  \E k \in 2..L : /\ mCaseList[k] = mLocalCaseList[i]
                                /\ mCaseList[k - 1].name = mLocalCaseList[i - 1].name
    <2>1. i \in 1..n /\ i - 1 \in 1..n
      BY <1>1
    <2>2. New(mShared, mLocalCaseList[i])
      BY <1>1, <1>10 DEF New, IsNew, S
    <2>3. pos[i] = pos[i - 1] + 1 /\ mCaseList[pos[i]] = mLocalCaseList[i]
      BY <1>6, <2>2
    <2>4. pos[i] \in 1..L /\ pos[i - 1] \in 1..L /\ mCaseList[pos[i - 1]].name = mLocalCaseList[i - 1].name
      BY <1>5, <2>1
    <2>5. pos[i] \in 2..L /\ pos[i] - 1 = pos[i - 1]
      BY <1>1, <2>3, <2>4
    <2>6. QED
      BY <2>3, <2>4, <2>5
  <1>11. QED
    BY <1>8, <1>9, <1>10 DEF n, L

(* However the two lists are made up: when mergeCase returns, the common   *)
(* cases are in their order, each case of the user is there once for each  *)
(* line that names it, and a new one stands right behind the case before   *)
(* it in the user's list (CaseManager::mergeCase).                         *)
THEOREM MergeKeepsOrder == Spec => []MergeInOrder
  <1>1. Init => MergeInv
    BY DEF Init, LInit, MergeInv
  <1>2. ClientTypes /\ MergeInv => MergeInOrder
    BY MergeDone DEF ClientTypes
  <1>3. QED
    BY <1>1, <1>2, InitTypes, TypesStep, MergeInvStep, PTL DEF Spec

-----------------------------------------------------------------------------
(* The requests follow the list.  RankIn counts the cases of W up to n, so *)
(* that the case at n in W is the RankIn(W, n)-th of the requests.         *)
RankIn(W, n) == Cardinality({h \in W : h <= n})

Served(W, al, reqs, n) ==
    /\ Len(reqs) = RankIn(W, n)
    /\ \A k \in W : k <= n => reqs[RankIn(W, k)].name = al[k].name

LEMMA RankFacts ==
    ASSUME NEW N \in Nat, NEW W \in SUBSET (1..N)
    PROVE  /\ IsFiniteSet(W) /\ Cardinality(W) \in Nat
           /\ \A n \in Nat : RankIn(W, n) \in Nat /\ RankIn(W, n) <= Cardinality(W)
           /\ \A n \in Nat : n >= N => RankIn(W, n) = Cardinality(W)
           /\ RankIn(W, 0) = 0
           /\ \A m, n \in Nat : m <= n => RankIn(W, m) <= RankIn(W, n)
           /\ \A m, n \in Nat : m < n /\ n \in W => RankIn(W, m) < RankIn(W, n)
  <1> DEFINE U(n) == {h \in W : h <= n}
  <1>1. IsFiniteSet(1..N)
    BY FS_Interval
  <1>2. IsFiniteSet(W)
    BY <1>1, FS_Subset
  <1>3. Cardinality(W) \in Nat
    BY <1>2, FS_CardinalityType
  <1>4. \A n : U(n) \in SUBSET W
    OBVIOUS
  <1>5. \A n : IsFiniteSet(U(n)) /\ Cardinality(U(n)) <= Cardinality(W)
    BY <1>2, <1>4, FS_Subset
  <1>6. \A n : Cardinality(U(n)) \in Nat
    BY <1>5, FS_CardinalityType
  <1> DEFINE In(h) == h \in Nat /\ 1 <= h /\ h <= N
  <1>0. \A h \in W : In(h)
    <2>1. \A h \in 1..N : In(h)
      OBVIOUS
    <2>2. QED
      BY <2>1
  <1>7. \A n \in Nat : n >= N => U(n) = W
    <2>1. SUFFICES ASSUME NEW n \in Nat, n >= N PROVE U(n) = W
      OBVIOUS
    <2>2. \A h : In(h) => h <= n
      BY <2>1
    <2>3. \A h \in W : h <= n
      BY <1>0, <2>2
    <2>4. QED
      BY <2>3
  <1>8. U(0) = {}
    <2>1. \A h : In(h) => ~(h <= 0)
      OBVIOUS
    <2>2. \A h \in W : ~(h <= 0)
      BY <1>0, <2>1
    <2>3. QED
      BY <2>2
  <1>9. \A m, n \in Nat : m <= n => U(m) \in SUBSET U(n)
    <2>1. SUFFICES ASSUME NEW m \in Nat, NEW n \in Nat, m <= n PROVE U(m) \in SUBSET U(n)
      OBVIOUS
    <2>2. \A h : In(h) /\ h <= m => h <= n
      BY <2>1
    <2>3. \A h \in W : h <= m => h <= n
      BY <1>0, <2>2
    <2>4. QED
      BY <2>3
  <1>10. \A m, n \in Nat : m < n /\ n \in W => U(m) # U(n) /\ U(m) \in SUBSET U(n)
    <2>1. SUFFICES ASSUME NEW m \in Nat, NEW n \in Nat, m < n, n \in W
                   PROVE  U(m) # U(n) /\ U(m) \in SUBSET U(n)
      OBVIOUS
    <2>2. n \in U(n) /\ n \notin U(m)
      BY <2>1
    <2>3. QED
      BY <1>9, <2>1, <2>2
  <1>11. \A n : RankIn(W, n) = Cardinality(U(n))
    BY DEF RankIn
  <1> HIDE DEF U
  <1>12. \A m, n \in Nat : m <= n => Cardinality(U(m)) <= Cardinality(U(n))
    BY <1>5, <1>9, FS_Subset
  <1>13. ASSUME NEW m \in Nat, NEW n \in Nat, m < n, n \in W
         PROVE  Cardinality(U(m)) < Cardinality(U(n))
    <2>1. IsFiniteSet(U(n)) /\ U(m) \in SUBSET U(n) /\ U(m) # U(n)
      BY <1>5, <1>10, <1>13
    <2>2. Cardinality(U(m)) <= Cardinality(U(n)) /\ Cardinality(U(m)) # Cardinality(U(n))
      BY <2>1, FS_Subset
    <2>3. QED
      BY <1>6, <2>2
  <1>14. Cardinality(U(0)) = 0
    BY <1>8, FS_EmptySet
  <1>15. QED
    BY <1>2, <1>3, <1>5, <1>6, <1>7, <1>11, <1>12, <1>13, <1>14

LEMMA RankStep ==
    ASSUME NEW N \in Nat, NEW W \in SUBSET (1..N), NEW n \in 1..N
    PROVE  RankIn(W, n) = IF n \in W THEN RankIn(W, n - 1) + 1 ELSE RankIn(W, n - 1)
  <1> DEFINE U == {h \in W : h <= n - 1}
             V == {h \in W : h <= n}
  <1>1. IsFiniteSet(U)
    <2>1. IsFiniteSet(W) /\ U \in SUBSET W
      BY RankFacts
    <2>2. QED
      BY <2>1, FS_Subset
  <1>2. n \notin U
    OBVIOUS
  <1>0. \A h \in W : h <= n <=> h = n \/ h <= n - 1
    <2>1. \A h \in 1..N : h <= n <=> h = n \/ h <= n - 1
      OBVIOUS
    <2>2. QED
      BY <2>1
  <1>3. CASE n \in W
    <2>1. V = U \cup {n}
      <3>1. n <= n
        OBVIOUS
      <3>2. QED
        BY <1>0, <1>3, <3>1
    <2>2. Cardinality(V) = Cardinality(U) + 1
      BY <1>1, <1>2, <2>1, FS_AddElement
    <2>3. QED
      BY <1>3, <2>2 DEF RankIn
  <1>4. CASE n \notin W
    <2>1. V = U
      BY <1>0, <1>4
    <2>2. QED
      BY <1>4, <2>1 DEF RankIn
  <1>5. QED
    BY <1>3, <1>4

(* One more case, with a request or without. *)
LEMMA ServedMore ==
    ASSUME NEW N \in Nat, NEW W \in SUBSET (1..N), NEW n \in 1..N, NEW al, NEW reqs \in Seq(Requests),
           Served(W, al, reqs, n - 1)
    PROVE  /\ n \notin W => Served(W, al, reqs, n)
           /\ \A r \in Requests : n \in W /\ r.name = al[n].name => Served(W, al, Append(reqs, r), n)
  <1>0. n - 1 \in Nat /\ n \in Nat /\ \A k \in W : k \in Nat /\ (k <= n <=> k = n \/ k <= n - 1)
    OBVIOUS
  <1>1. Len(reqs) = RankIn(W, n - 1) /\ \A k \in W : k <= n - 1 => reqs[RankIn(W, k)].name = al[k].name
    BY DEF Served
  <1>2. ASSUME n \notin W
        PROVE  Served(W, al, reqs, n)
    <2>1. RankIn(W, n) = RankIn(W, n - 1)
      BY <1>2, RankStep
    <2>2. \A k \in W : k <= n => k <= n - 1
      BY <1>0, <1>2
    <2>3. QED
      BY <1>1, <2>1, <2>2 DEF Served
  <1>3. ASSUME NEW r \in Requests, n \in W, r.name = al[n].name
        PROVE  Served(W, al, Append(reqs, r), n)
    <2>1. RankIn(W, n) = Len(reqs) + 1
      BY <1>1, <1>3, RankStep
    <2>2. /\ Len(Append(reqs, r)) = Len(reqs) + 1
          /\ \A j \in 1..Len(reqs) : Append(reqs, r)[j] = reqs[j]
          /\ Append(reqs, r)[Len(reqs) + 1] = r
      BY AppendProperties
    <2>3. ASSUME NEW k \in W, k <= n
          PROVE  Append(reqs, r)[RankIn(W, k)].name = al[k].name
      <3>1. CASE k = n
        BY <1>3, <2>1, <2>2, <3>1
      <3>2. CASE k # n
        <4>1. k <= n - 1 /\ k \in Nat /\ 0 < k
          BY <1>0, <2>3, <3>2
        <4>2. RankIn(W, k) \in Nat /\ Len(reqs) \in Nat
          <5>1. RankIn(W, k) \in Nat
            BY <4>1, RankFacts
          <5>2. QED
            BY <5>1
        <4>6. RankIn(W, 0) = 0 /\ RankIn(W, 0) < RankIn(W, k)
          BY <4>1, RankFacts
        <4>7. RankIn(W, k) <= Len(reqs)
          BY <1>0, <1>1, <4>1, RankFacts
        <4>3. RankIn(W, k) \in 1..Len(reqs)
          BY <4>2, <4>6, <4>7
        <4>4. reqs[RankIn(W, k)].name = al[k].name
          BY <1>1, <4>1
        <4>5. QED
          BY <2>2, <4>3, <4>4
      <3>3. QED
        BY <3>1, <3>2
    <2>4. QED
      BY <2>1, <2>2, <2>3 DEF Served
  <1>4. QED
    BY <1>2, <1>3

(* What Served says of the requests up to any case. *)
LEMMA ServedAll ==
    ASSUME NEW N \in Nat, NEW W \in SUBSET (1..N), NEW n \in Nat, NEW al, NEW reqs, Served(W, al, reqs, n)
    PROVE  /\ \A k \in W : RankIn(W, k) <= Len(reqs) => reqs[RankIn(W, k)].name = al[k].name
           /\ Len(reqs) <= Cardinality(W)
           /\ n >= N => Len(reqs) = Cardinality(W)
  <1>1. ASSUME NEW k \in W, RankIn(W, k) <= Len(reqs)
        PROVE  reqs[RankIn(W, k)].name = al[k].name
    <2>1. RankIn(W, k) <= RankIn(W, n) /\ k \in Nat
      BY <1>1 DEF Served
    <2>2. ~(n < k)
      <3>1. RankIn(W, k) \in Nat /\ RankIn(W, n) \in Nat
        BY <2>1, RankFacts
      <3>2. n < k => RankIn(W, n) < RankIn(W, k)
        BY <2>1, RankFacts
      <3>3. QED
        BY <2>1, <3>1, <3>2
    <2>3. k <= n
      BY <2>1, <2>2
    <2>4. QED
      BY <2>3 DEF Served
  <1>2. Len(reqs) <= Cardinality(W) /\ (n >= N => Len(reqs) = Cardinality(W))
    BY RankFacts DEF Served
  <1>3. QED
    BY <1>1, <1>2

(* The links when D are the directories whose files are linked, S those    *)
(* whose scripts are.                                                      *)
Now(D, S)  == [f \in Files |-> IF f[1] \in (IF f[2] = "data" THEN D ELSE S) THEN "common" ELSE "none"]
NoLinks    == Now({}, {})
Asks(c)    == c.type = "SQL" /\ Runnable(c)

(* The loop stands behind the case it served last, or has ended at it.     *)
FollowInv ==
    /\ cpc = "start" => sOld = NoDir /\ linked = NoLinks /\ sRun = 0 /\ all = <<>>
    /\ cpc = "walk" => all = AllCount
    /\ Wanted \in SUBSET (1..Len(mCaseList))
    /\ cpc # "start" /\ mTest # "sequential" =>
          \/ Served(Wanted, all, requests, it - 1)
          \/ cpc # "walk" /\ it <= Len(mCaseList) /\ Served(Wanted, all, requests, it)
    /\ cpc = "walk" /\ mTest # "sequential" => sRun = it - 1

LEMMA AllCountKept ==
    ASSUME UNCHANGED listvars
    PROVE  AllCount' = AllCount
  BY DEF listvars, AllCount, Marked, Runnable, InGroup, Addresses, FirstHost

(* The two walks over the list agree on what may run. *)
LEMMA WantedIs ==
    ASSUME ListTypes, NEW al, al = AllCount
    PROVE  /\ {k \in DOMAIN al : al[k].mark = "Y"} \in SUBSET (1..Len(mCaseList))
           /\ \A k \in 1..Len(mCaseList) : k \in {h \in DOMAIN al : al[h].mark = "Y"} <=> Asks(mCaseList[k])
           /\ \A k \in DOMAIN al : al[k].name = mCaseList[k].name
  <1>1. DOMAIN mCaseList = 1..Len(mCaseList)
    <2>1. mCaseList \in Seq(Cases)
      BY DEF ListTypes
    <2>2. QED
      BY ONLY <2>1
  <1>2. DOMAIN al = {k \in 1..Len(mCaseList) : mCaseList[k].type = "SQL"}
    BY <1>1 DEF AllCount
  <1>3. \A k \in DOMAIN al : al[k] = [mark |-> Marked(mCaseList[k]), name |-> mCaseList[k].name]
    BY <1>1 DEF AllCount
  <1>4. \A k \in DOMAIN al : /\ al[k].mark = "Y" <=> Runnable(mCaseList[k])
                             /\ al[k].name = mCaseList[k].name
    BY <1>3 DEF Marked
  <1>5. ASSUME NEW k \in 1..Len(mCaseList)
        PROVE  k \in {h \in DOMAIN al : al[h].mark = "Y"} <=> Asks(mCaseList[k])
    <2>1. k \in {h \in DOMAIN al : al[h].mark = "Y"} <=> k \in DOMAIN al /\ al[k].mark = "Y"
      OBVIOUS
    <2>2. k \in DOMAIN al <=> mCaseList[k].type = "SQL"
      BY <1>2
    <2>3. QED
      BY <1>4, <2>1, <2>2 DEF Asks
  <1>6. {k \in DOMAIN al : al[k].mark = "Y"} \in SUBSET (1..Len(mCaseList))
    BY <1>2
  <1>7. QED
    BY <1>4, <1>5, <1>6

LEMMA FollowStep ==
    ASSUME ClientTypes, FollowInv, cpc = "walk", cpc' # "start", UNCHANGED <<listvars, mTest, all>>,
           mTest # "sequential" =>
              \/ sRun' = sRun + 1 /\ it' = it + 1 /\ Served(Wanted, all, requests', it)
              \/ /\ cpc' # "walk" /\ it' = it
                 /\ \/ Served(Wanted, all, requests', it - 1)
                    \/ it <= Len(mCaseList) /\ Served(Wanted, all, requests', it)
    PROVE  FollowInv'
  <1>0. ListTypes /\ WalkTypes
    BY DEF ClientTypes
  <1>1. mCaseList' = mCaseList /\ all' = all /\ mTest' = mTest /\ AllCount' = AllCount
    BY AllCountKept DEF listvars
  <1>2. Wanted' = Wanted
    BY <1>1 DEF Wanted
  <1>3. it \in Nat /\ sRun \in Nat
    BY <1>0, WalkLens
  <1>4. mTest # "sequential" => sRun = it - 1
    BY DEF FollowInv
  <1>5. mTest # "sequential" => \/ Served(Wanted, all, requests', it' - 1)
                                \/ cpc' # "walk" /\ it' <= Len(mCaseList) /\ Served(Wanted, all, requests', it')
    <2>1. (it + 1) - 1 = it
      BY <1>3
    <2>2. QED
      BY <2>1
  <1>6. cpc' = "walk" /\ mTest # "sequential" => sRun' = it' - 1
    <2>1. sRun = it - 1 => sRun + 1 = (it + 1) - 1
      BY <1>3
    <2>2. QED
      BY <1>4, <2>1
  <1>7. QED
    BY <1>1, <1>2, <1>5, <1>6 DEF FollowInv

(* The case the loop is at, served or not. *)
LEMMA ServedHere ==
    ASSUME ClientTypes, FollowInv, Walking, mTest # "sequential"
    PROVE  /\ ~Asks(Case) => Served(Wanted, all, requests, it)
           /\ \A r \in Requests : Asks(Case) /\ r.name = Case.name => Served(Wanted, all, Append(requests, r), it)
           /\ sRun = it - 1
           /\ it <= Len(mCaseList)
  <1>0. ListTypes /\ WalkTypes /\ requests \in Seq(Requests) /\ cpc = "walk" /\ it <= Len(mCaseList)
    BY DEF ClientTypes, Walking
  <1>1. all = AllCount /\ Served(Wanted, all, requests, it - 1) /\ sRun = it - 1
    BY <1>0 DEF FollowInv
  <1>2. it \in 1..Len(mCaseList) /\ Len(mCaseList) \in Nat
    BY <1>0, CaseTypes, WalkLens
  <1>3. /\ Wanted \in SUBSET (1..Len(mCaseList))
        /\ it \in Wanted <=> Asks(Case)
        /\ it \in Wanted => all[it].name = Case.name
    BY <1>0, <1>1, <1>2, WantedIs DEF Case, Wanted
  <1>4. QED
    BY <1>0, <1>1, <1>2, <1>3, ServedMore

LEMMA FollowInvStep == ClientTypes /\ FollowInv /\ [Next]_vars => FollowInv'
  <1> SUFFICES ASSUME ClientTypes, FollowInv, [Next]_vars PROVE FollowInv'
    OBVIOUS
  <1>0. ListTypes /\ WalkTypes /\ ListTrees /\ requests \in Seq(Requests)
    BY DEF ClientTypes
  <1>1. CASE UNCHANGED vars
    <2>1. UNCHANGED listvars /\ UNCHANGED <<cpc, mTest, all, it, sRun, sOld, requests, linked>>
      BY <1>1 DEF vars, walkvars
    <2>2. AllCount' = AllCount /\ mCaseList' = mCaseList
      BY <2>1, AllCountKept DEF listvars
    <2>3. QED
      BY <2>1, <2>2 DEF FollowInv, Wanted
  <1>2. CASE Load
    <2>1. cpc = "start"
      BY <1>0, <1>2, LoadFirst DEF Load
    <2>2. UNCHANGED <<cpc, mTest, all, it, sRun, sOld, requests, linked>>
      BY <1>2 DEF Load, walkvars
    <2>3. all = <<>> /\ Wanted' = {}
      BY <2>1, <2>2, DOMAIN <<>> = {} DEF FollowInv, Wanted
    <2>4. QED
      BY <2>1, <2>2, <2>3 DEF FollowInv
  <1>3. CASE Start
    <2>1. cpc = "start" /\ UNCHANGED listvars /\ UNCHANGED <<it, sRun, sOld, requests, linked>>
      BY <1>3 DEF Start
    <2>2. it = 1 /\ sRun = 0 /\ requests = <<>> /\ all = <<>>
      BY <1>0, <2>1 DEF FollowInv, WalkTypes
    <2>3. AllCount' = AllCount /\ mCaseList' = mCaseList
      BY <2>1, AllCountKept DEF listvars
    <2>4. (cpc' = "walk" /\ all' = AllCount) \/ (cpc' = "stopped" /\ all' = all)
      BY <1>3 DEF Start
    <2>5. ListTypes'
      BY <1>0, <2>1, ListKept
    <2>6. Wanted' \in SUBSET (1..Len(mCaseList'))
      <3>1. CASE all' = AllCount'
        BY <1>0, <2>3, <3>1, WantedIs DEF Wanted
      <3>2. CASE all' = <<>>
        BY <3>2, DOMAIN <<>> = {} DEF Wanted
      <3>3. QED
        BY <2>2, <2>3, <2>4, <3>1, <3>2
    <2>7. Served(Wanted', all', requests', it' - 1)
      <3>1. it' - 1 = 0 /\ requests' = <<>> /\ Len(<<>>) = 0
        BY <2>1, <2>2
      <3>2. Len(mCaseList') \in Nat
        <4>1. mCaseList' \in Seq(Cases)
          BY <2>5 DEF ListTypes
        <4>2. QED
          BY ONLY <4>1
      <3>3. RankIn(Wanted', 0) = 0
        BY <2>6, <3>2, RankFacts
      <3>4. \A k \in Wanted' : ~(k <= 0)
        <4>1. \A k \in 1..Len(mCaseList') : ~(k <= 0)
          BY <3>2
        <4>2. QED
          BY <2>6, <4>1
      <3>5. QED
        BY <3>1, <3>3, <3>4 DEF Served
    <2>8. sRun' = it' - 1
      BY <2>1, <2>2
    <2>9. QED
      BY <2>3, <2>4, <2>6, <2>7, <2>8 DEF FollowInv
  <1>4. CASE SkipCase
    <2>1. /\ Walking /\ ~Asks(Case) /\ sRun' = sRun + 1 /\ it' = it + 1 /\ requests' = requests /\ cpc' = cpc
          /\ UNCHANGED <<listvars, mTest, all>> /\ cpc = "walk"
      BY <1>4 DEF SkipCase, Asks, Walking
    <2>2. QED
      BY <2>1, FollowStep, ServedHere
  <1>5. CASE PassList
    <2>1. /\ Walking /\ ~Asks(Case) /\ sRun' = sRun + 1 /\ requests' = requests
          /\ UNCHANGED <<listvars, mTest, all>> /\ cpc = "walk"
          /\ cpc' # "start" /\ (mTest # "sequential" => it' = it + 1)
      BY <1>5 DEF PassList, Asks, Walking, Bottom
    <2>2. QED
      BY <2>1, FollowStep, ServedHere
  <1>6. CASE NoPoint \/ EndOfList
    <2>1. /\ cpc = "walk" /\ cpc' \in {"report", "undefined"} /\ it' = it /\ requests' = requests
          /\ UNCHANGED <<listvars, mTest, all>>
      BY <1>6 DEF NoPoint, CanRun, Walking, EndOfList
    <2>2. mTest # "sequential" => Served(Wanted, all, requests, it - 1)
      BY <2>1 DEF FollowInv
    <2>3. QED
      BY <2>1, <2>2, FollowStep
  <1>7. CASE Report
    <2>1. cpc = "report" /\ cpc' = "stopped" /\ UNCHANGED listvars /\ UNCHANGED <<mTest, all, it, requests>>
      BY <1>7 DEF Report
    <2>2. mCaseList' = mCaseList
      BY <2>1 DEF listvars
    <2>3. QED
      BY <2>1, <2>2 DEF FollowInv, Wanted
  <1>8. ASSUME NEW reply \in input.replies, RunCase(reply) PROVE FollowInv'
    <2>1. /\ CanRun /\ (mTest = "sequential" => gRecPtrList # <<>>) /\ reply.kind \in Kinds4 /\ sRun' = sRun + 1
          /\ UNCHANGED <<listvars, mTest, all>>
      BY <1>8 DEF RunCase, Kinds4
    <2>2. cpc = "walk" /\ Walking /\ Asks(Case)
      BY <2>1 DEF CanRun, Walking, Asks
    <2>3. PICK far \in BOOLEAN :
             LET ln == IF far THEN Before(linked) ELSE linked
                 v  == Reads(reply)
                 c  == IF v = "none" THEN counts ELSE [counts EXCEPT ![v] = @ + 1]
             IN  /\ requests' = Append(requests, Request(reply.kind, v, ln))
                 /\ IF v \in {"FATAL", "none"} THEN cpc' = "report" /\ UNCHANGED <<it, rit>>
                    ELSE Bottom(RecsAfter(v), RitAfter(v), c)
      BY <1>8 DEF RunCase
    <2> DEFINE ln == IF far THEN Before(linked) ELSE linked
               v  == Reads(reply)
    <2>4. ln \in Links /\ v \in VerdictSet \cup {"none"}
      <3>1. linked \in Links
        BY <1>0 DEF WalkTypes
      <3>2. QED
        BY <1>0, <2>2, <2>3, <3>1, LinksAround, ReadsVerdict
    <2> DEFINE r == Request(reply.kind, v, ln)
    <2>5. r \in Requests /\ r.name = Case.name
      <3>1. r.name = Case.name
        BY DEF Request
      <3> HIDE DEF ln, v
      <3>2. QED
        BY <2>1, <2>4, <3>1, RequestTypes
    <2>6. cpc' # "start" /\ (mTest # "sequential" => it' = it + 1 \/ (cpc' # "walk" /\ it' = it))
      BY <2>2, <2>3 DEF Bottom
    <2>7. requests' = Append(requests, r)
      BY <2>3
    <2> HIDE DEF r
    <2>8. mTest # "sequential" => Served(Wanted, all, requests', it) /\ it <= Len(mCaseList)
      BY <2>2, <2>5, <2>7, ServedHere
    <2>9. QED
      BY <2>1, <2>2, <2>6, <2>8, FollowStep
  <1>9. ASSUME NEW reply \in input.replies, Refused(reply) PROVE FollowInv'
    <2>1. /\ CanRun /\ (mTest = "sequential" => gRecPtrList # <<>>) /\ reply.kind \in Kinds4 /\ sRun' = sRun + 1
          /\ UNCHANGED <<listvars, mTest, all>>
          /\ requests' = Append(requests, Request(reply.kind, "none", linked))
          /\ IF reply.kind = "unreachable" THEN cpc' = "report" /\ UNCHANGED <<it, rit>>
             ELSE Bottom(gRecPtrList, rit, counts)
      BY <1>9 DEF Refused, Kinds4
    <2>2. cpc = "walk" /\ Walking /\ Asks(Case)
      BY <2>1 DEF CanRun, Walking, Asks
    <2>3. linked \in Links
      BY <1>0 DEF WalkTypes
    <2> DEFINE r == Request(reply.kind, "none", linked)
    <2>4. r \in Requests /\ r.name = Case.name
      BY <2>1, <2>3, RequestTypes DEF Request
    <2>5. cpc' # "start" /\ (mTest # "sequential" => it' = it + 1 \/ (cpc' # "walk" /\ it' = it))
      BY <2>1, <2>2 DEF Bottom
    <2>6. requests' = Append(requests, r)
      BY <2>1
    <2> HIDE DEF r
    <2>7. mTest # "sequential" => Served(Wanted, all, requests', it) /\ it <= Len(mCaseList)
      BY <2>2, <2>4, <2>6, ServedHere
    <2>8. QED
      BY <2>1, <2>2, <2>5, <2>7, FollowStep
  <1>10. QED
    BY <1>1, <1>2, <1>3, <1>4, <1>5, <1>6, <1>7, <1>8, <1>9 DEF Next, Stopped

(* The links of the directory the client was in last, or none, and those   *)
(* to the scripts of every directory it was in.                            *)
LinkInv ==
    mTest # "sequential" /\ OneTree /\ Intact =>
        /\ \A k \in DOMAIN requests : requests[k].links = {requests[k].name[1]}
        /\ sOld = NoDir => linked = Now({}, Visited)
        /\ sOld # NoDir => /\ sOld[1] = "common" /\ sOld[2] \in Visited
                           /\ linked \in {Now({}, Visited), Now({sOld[2]}, Visited)}
        /\ cpc = "walk" /\ it <= Len(mCaseList) /\ sOld # NoDir => linked = Now({sOld[2]}, Visited)
        /\ it > Len(mCaseList) /\ cpc # "start" /\ Asks(Last(mCaseList)) => linked = Now({}, Visited)

LEMMA NoDirIs == NoDir[1] # "common" /\ \A d : <<"common", d>> # NoDir
  BY DEF NoDir

LEMMA VisitedDirs == requests \in Seq(Requests) => Visited \in SUBSET Dirs
  <1> SUFFICES ASSUME requests \in Seq(Requests), NEW k \in DOMAIN requests
               PROVE  DirOf[requests[k].name[2]] \in Dirs
    BY DEF Visited
  <1>1. requests[k] \in Requests
    BY ONLY requests \in Seq(Requests), k \in DOMAIN requests
  <1>2. requests[k].name[2] \in Ids
    BY <1>1 DEF Requests
  <1>3. QED
    BY <1>2, WalkAssumption DEF Dirs, Range

LEMMA LinkValues ==
    ASSUME NEW d \in Dirs, NEW S
    PROVE  /\ Removed(Now({d}, S), <<"common", d>>) = Now({}, S)
           /\ Removed(Now({}, S), NoDir) = Now({}, S)
           /\ Linked(Now({}, S), <<"common", d>>) = Now({d}, S \cup {d})
           /\ LinksIn(Now({d}, S \cup {d}), d) = {"common"}
  <1>1. Removed(Now({d}, S), <<"common", d>>) = Now({}, S)
    <2>1. [Now({d}, S) EXCEPT ![<<d, "data">>] = "none"] = Now({}, S)
      <3>1. ASSUME NEW f \in Files
            PROVE  (IF f = <<d, "data">> THEN "none" ELSE Now({d}, S)[f]) = Now({}, S)[f]
        BY DEF Now, Files
      <3>2. [Now({d}, S) EXCEPT ![<<d, "data">>] = "none"]
                 = [f \in Files |-> IF f = <<d, "data">> THEN "none" ELSE Now({d}, S)[f]]
        BY DEF Now
      <3>3. Now({}, S) = [f \in Files |-> Now({}, S)[f]]
        BY DEF Now
      <3> HIDE DEF Now
      <3>4. QED
        BY <3>1, <3>2, <3>3, Zenon
    <2>2. QED
      BY <2>1 DEF Removed
  <1>2. Removed(Now({}, S), NoDir) = Now({}, S)
    BY NoDirIs DEF Removed
  <1>3. Linked(Now({}, S), <<"common", d>>) = Now({d}, S \cup {d})
    BY NoDirIs DEF Linked, Now, Files
  <1>4. LinksIn(Now({d}, S \cup {d}), d) = {"common"}
    <2>1. \A f \in Files : f[1] = d => Now({d}, S \cup {d})[f] = "common"
      BY DEF Now
    <2>2. <<d, "data">> \in Files /\ <<d, "data">>[1] = d
      BY DEF Files
    <2>3. QED
      BY <2>1, <2>2 DEF LinksIn
  <1>5. QED
    BY <1>1, <1>2, <1>3, <1>4

(* A request of the common tree: its directory is linked, and that of no   *)
(* other case; the last case of the list takes its links away again, but   *)
(* for the scripts.                                                        *)
LEMMA LinksOfRequest ==
    ASSUME ClientTypes, FollowInv, LinkInv, mTest # "sequential", OneTree, Intact, CanRun
    PROVE  LET d == DirOf[Case.name[2]]
               S == Visited \cup {d}
           IN  /\ Case.name[1] = "common"
               /\ Before(linked) = Now({d}, S)
               /\ LinksIn(Before(linked), d) = {"common"}
               /\ After(Before(linked)) = IF it = Len(mCaseList) THEN Now({}, S) ELSE Now({d}, S)
  <1>0. ListTypes /\ WalkTypes /\ ListTrees /\ Walking /\ cpc = "walk" /\ it <= Len(mCaseList)
    BY DEF ClientTypes, CanRun, Walking
  <1> DEFINE d == DirOf[Case.name[2]]
             S == Visited \cup {d}
  <1>1. Case.name[1] = "common"
    <2>1. Of(mCaseList, "common")
      BY <1>0 DEF OneTree, ListTrees
    <2>2. it \in DOMAIN mCaseList
      <3>1. it \in 1..Len(mCaseList)
        BY <1>0, CaseTypes
      <3>2. mCaseList \in Seq(Cases)
        BY <1>0 DEF ListTypes
      <3>3. QED
        BY ONLY <3>1, <3>2
    <2>3. QED
      BY <2>1, <2>2 DEF Of, Case
  <1>2. dirname(Case.name) = <<"common", d>> /\ d \in Dirs /\ <<"common", d>> # NoDir
    BY <1>0, <1>1, CaseTypes DEF dirname
  <1> HIDE DEF d
  <1>3. Before(linked) = Now({d}, S)
    <2>1. CASE sOld = <<"common", d>>
      <3>1. sOld # NoDir /\ linked = Now({sOld[2]}, Visited) /\ sOld[2] = d /\ d \in Visited
        BY <1>0, <1>2, <2>1 DEF LinkInv
      <3>2. S = Visited
        BY <3>1
      <3>3. sLink = NoDir /\ sUnlink = NoDir
        BY <1>2, <2>1 DEF sLink, sUnlink, Moved
      <3>4. Removed(linked, NoDir) = linked
        BY NoDirIs DEF Removed
      <3>5. Linked(linked, NoDir) = linked
        BY <1>0, LinkTypes DEF WalkTypes
      <3>6. QED
        BY <3>1, <3>2, <3>3, <3>4, <3>5 DEF Before
    <2>2. CASE sOld # <<"common", d>>
      <3>1. sLink = <<"common", d>> /\ sUnlink = sOld
        BY <1>2, <2>2 DEF sLink, sUnlink, Moved
      <3>2. Removed(linked, sOld) = Now({}, Visited)
        <4>1. CASE sOld = NoDir
          BY <1>2, <4>1, LinkValues DEF LinkInv
        <4>2. CASE sOld # NoDir
          <5>1. linked = Now({sOld[2]}, Visited) /\ sOld[1] = "common"
            BY <1>0, <4>2 DEF LinkInv
          <5>2. sOld = <<"common", sOld[2]>> /\ sOld[2] \in Dirs
            <6>1. sOld[2] \in Visited
              BY <4>2 DEF LinkInv
            <6>2. Visited \in SUBSET Dirs
              BY VisitedDirs DEF ClientTypes
            <6>3. sOld \in SOlds
              BY <1>0 DEF WalkTypes
            <6>4. sOld = <<sOld[1], sOld[2]>>
              <7>1. \A A, B : \A x \in A \X B : x = <<x[1], x[2]>>
                OBVIOUS
              <7>2. QED
                BY ONLY <6>3, <7>1 DEF SOlds
            <6>5. QED
              BY <5>1, <6>1, <6>2, <6>4
          <5>3. \A e \in Dirs : Removed(Now({e}, Visited), <<"common", e>>) = Now({}, Visited)
            BY LinkValues
          <5>4. Removed(Now({sOld[2]}, Visited), <<"common", sOld[2]>>) = Now({}, Visited)
            BY <5>2, <5>3
          <5>5. QED
            BY <5>1, <5>2, <5>4
        <4>3. QED
          BY <4>1, <4>2
      <3>3. QED
        BY <1>2, <3>1, <3>2, LinkValues DEF Before
    <2>3. QED
      BY <2>1, <2>2
  <1>4. LastOne <=> it = Len(mCaseList)
    <2>1. sRun = it - 1 /\ it \in Nat /\ sRun \in Nat /\ Len(mCaseList) \in Nat
      BY <1>0, WalkLens DEF FollowInv
    <2>2. sRun + 1 = Len(mCaseList) <=> it = Len(mCaseList)
      BY ONLY <2>1
    <2>3. QED
      BY <2>2 DEF LastOne
  <1>5. After(Now({d}, S)) = IF it = Len(mCaseList) THEN Now({}, S) ELSE Now({d}, S)
    BY <1>2, <1>4, LinkValues DEF After
  <1>6. LinksIn(Now({d}, S), d) = {"common"}
    BY <1>2, LinkValues
  <1>7. QED
    BY <1>1, <1>3, <1>5, <1>6 DEF d

LEMMA AsksKept ==
    ASSUME input' = input, mCaseList' = mCaseList
    PROVE  Asks(Last(mCaseList))' <=> Asks(Last(mCaseList))
  <1>1. Runnable(Last(mCaseList))' <=> Runnable(Last(mCaseList))
    BY DEF Runnable, InGroup, Addresses, FirstHost
  <1>2. QED
    BY <1>1 DEF Asks, Last

(* What a step must keep when the links stay as they are. *)
LEMMA LinksKept ==
    ASSUME LinkInv, UNCHANGED <<listvars, mTest, sOld, requests, linked>>, cpc # "start", cpc' # "start",
           cpc' = "walk" /\ it' <= Len(mCaseList) => cpc = "walk" /\ it <= Len(mCaseList),
           mTest # "sequential" /\ it' > Len(mCaseList) /\ Asks(Last(mCaseList)) => it > Len(mCaseList)
    PROVE  LinkInv'
  <1>1. /\ input' = input /\ mCaseList' = mCaseList /\ mTest' = mTest /\ sOld' = sOld
        /\ requests' = requests /\ linked' = linked
    BY DEF listvars
  <1>2. Intact' = Intact /\ OneTree' = OneTree /\ Visited' = Visited
    BY <1>1 DEF Intact, OneTree, Visited
  <1>3. Asks(Last(mCaseList))' <=> Asks(Last(mCaseList))
    BY <1>1, AsksKept
  <1>4. QED
    BY <1>1, <1>2, <1>3 DEF LinkInv

LEMMA VisitedMore ==
    ASSUME requests \in Seq(Requests), NEW r \in Requests, requests' = Append(requests, r)
    PROVE  Visited' = Visited \cup {DirOf[r.name[2]]}
  <1> DEFINE n == Len(requests)
  <1>1. /\ n \in Nat /\ DOMAIN requests' = 1..(n + 1) /\ DOMAIN requests = 1..n
        /\ requests'[n + 1] = r
        /\ \A k \in 1..n : requests'[k] = requests[k]
    <2>1. /\ Append(requests, r) \in Seq(Requests)
          /\ Len(Append(requests, r)) = n + 1
          /\ \A k \in 1..n : Append(requests, r)[k] = requests[k]
          /\ Append(requests, r)[n + 1] = r
      BY AppendProperties
    <2>2. n \in Nat /\ DOMAIN Append(requests, r) = 1..(n + 1) /\ DOMAIN requests = 1..n
      BY ONLY requests \in Seq(Requests), <2>1
    <2>3. QED
      BY <2>1, <2>2
  <1>2. 1..(n + 1) = (1..n) \cup {n + 1}
    BY <1>1
  <1> HIDE DEF n
  <1>3. QED
    BY <1>1, <1>2 DEF Visited

LEMMA LinksOfRun ==
    ASSUME ClientTypes, FollowInv, LinkInv, NEW reply, RunCase(reply)
    PROVE  LinkInv'
  <1>0. ListTypes /\ WalkTypes /\ requests \in Seq(Requests)
    BY DEF ClientTypes
  <1>1. /\ CanRun /\ Walking /\ cpc = "walk" /\ it <= Len(mCaseList)
        /\ mTest = "sequential" => gRecPtrList # <<>>
        /\ reply.kind \in Kinds4
        /\ sOld' = dirname(Case.name) /\ UNCHANGED <<listvars, mTest>>
    BY DEF RunCase, CanRun, Walking, Kinds4
  <1>2. input' = input /\ mCaseList' = mCaseList
    BY <1>1 DEF listvars
  <1>3. PICK far \in (IF reply.kind = "verdict" THEN {TRUE} ELSE BOOLEAN) :
          LET ln == IF far THEN Before(linked) ELSE linked
              v  == Reads(reply)
              c  == IF v = "none" THEN counts ELSE [counts EXCEPT ![v] = @ + 1]
          IN  /\ linked' = IF reply.kind = "verdict" THEN After(ln) ELSE ln
              /\ requests' = Append(requests, Request(reply.kind, v, ln))
              /\ IF v \in {"FATAL", "none"} THEN cpc' = "report" /\ UNCHANGED <<it, rit>>
                 ELSE Bottom(RecsAfter(v), RitAfter(v), c)
    BY DEF RunCase
  <1> DEFINE ln == IF far THEN Before(linked) ELSE linked
             v  == Reads(reply)
             r  == Request(reply.kind, v, ln)
             d  == DirOf[Case.name[2]]
             n  == Len(requests)
  <1>4. v \in VerdictSet \cup {"none"} /\ ln \in Links
    <2>1. linked \in Links
      BY <1>0 DEF WalkTypes
    <2>2. QED
      BY <1>0, <1>1, <2>1, LinksAround, ReadsVerdict
  <1>5. r.kind = reply.kind /\ r.links = LinksIn(ln, d) /\ r.name = Case.name
    BY DEF Request, LinksIn
  <1>6. r \in Requests
    <2> HIDE DEF ln, v
    <2>1. QED
      BY <1>1, <1>4, RequestTypes
  <1>7. requests' = Append(requests, r) /\ linked' = IF reply.kind = "verdict" THEN After(ln) ELSE ln
    BY <1>3
  <1>8. cpc' # "start" /\ (mTest # "sequential" => it' = it + 1 \/ (cpc' = "report" /\ it' = it))
    BY <1>1, <1>3 DEF Bottom
  <1>9. ln = IF far THEN Before(linked) ELSE linked
    OBVIOUS
  <1> HIDE DEF r, v, ln
  <1>10. /\ n \in Nat /\ DOMAIN requests' = 1..(n + 1) /\ DOMAIN requests = 1..n
         /\ requests'[n + 1] = r
         /\ \A k \in 1..n : requests'[k] = requests[k]
    <2>1. /\ Append(requests, r) \in Seq(Requests)
          /\ Len(Append(requests, r)) = n + 1
          /\ \A k \in 1..n : Append(requests, r)[k] = requests[k]
          /\ Append(requests, r)[n + 1] = r
      BY <1>0, <1>6, AppendProperties
    <2>2. n \in Nat /\ DOMAIN Append(requests, r) = 1..(n + 1) /\ DOMAIN requests = 1..n
      BY ONLY <1>0, <2>1
    <2>3. QED
      BY <1>7, <2>1, <2>2
  <1>11. SUFFICES ASSUME mTest # "sequential", OneTree, Intact'
                  PROVE  /\ \A k \in DOMAIN requests' : requests'[k].links = {requests'[k].name[1]}
                         /\ sOld' # NoDir /\ sOld'[1] = "common" /\ sOld'[2] \in Visited'
                         /\ linked' \in {Now({}, Visited'), Now({sOld'[2]}, Visited')}
                         /\ cpc' = "walk" /\ it' <= Len(mCaseList) => linked' = Now({sOld'[2]}, Visited')
                         /\ it' > Len(mCaseList) => linked' = Now({}, Visited')
    BY <1>1, <1>2 DEF LinkInv, OneTree
  <1>12. Intact /\ reply.kind = "verdict"
    <2>1. n + 1 \in 1..(n + 1) /\ \A k \in 1..n : k \in 1..(n + 1)
      BY <1>10
    <2>2. \A k \in 1..(n + 1) : ~Lost(requests'[k])
      BY <1>10, <1>11 DEF Intact, Lost
    <2>3. ~Lost(r) /\ \A k \in 1..n : ~Lost(requests[k])
      <3>1. ~Lost(requests'[n + 1]) /\ \A k \in 1..n : ~Lost(requests'[k])
        BY <2>1, <2>2
      <3>2. QED
        BY <1>10, <3>1
    <2>4. QED
      BY <1>5, <1>10, <2>3 DEF Intact, Lost
  <1>13. ln = Before(linked)
    BY <1>9, <1>12
  <1>a. Visited' = Visited \cup {d}
    BY <1>0, <1>5, <1>6, <1>7, VisitedMore
  <1>14. /\ Case.name[1] = "common" /\ LinksIn(ln, d) = {"common"} /\ d \in Visited'
         /\ linked' = IF it = Len(mCaseList) THEN Now({}, Visited') ELSE Now({d}, Visited')
    BY <1>1, <1>7, <1>11, <1>12, <1>13, <1>a, LinksOfRequest
  <1>15. sOld' = <<"common", d>> /\ sOld' # NoDir /\ sOld'[1] = "common" /\ sOld'[2] = d
    BY <1>1, <1>14 DEF dirname, NoDir
  <1>16. \A k \in DOMAIN requests' : requests'[k].links = {requests'[k].name[1]}
    <2>1. SUFFICES ASSUME NEW k \in 1..(n + 1) PROVE requests'[k].links = {requests'[k].name[1]}
      BY <1>10
    <2>2. CASE k = n + 1
      BY <1>5, <1>10, <1>14, <2>2
    <2>3. CASE k # n + 1
      <3>1. k \in 1..n
        BY <1>10, <2>3
      <3>2. requests[k].links = {requests[k].name[1]}
        BY <1>10, <1>11, <1>12, <3>1 DEF LinkInv
      <3>3. QED
        BY <1>10, <3>1, <3>2
    <2>4. QED
      BY <2>2, <2>3
  <1>17. it \in Nat /\ Len(mCaseList) \in Nat
    BY <1>0, WalkLens
  <1>18. cpc' = "walk" /\ it' <= Len(mCaseList) => it # Len(mCaseList)
    BY <1>8, <1>11, <1>17
  <1>19. it' > Len(mCaseList) => it = Len(mCaseList)
    <2>1. it' = it + 1 \/ it' = it
      BY <1>8, <1>11
    <2>2. QED
      BY ONLY <1>1, <1>17, <2>1
  <1>20. QED
    BY <1>14, <1>15, <1>16, <1>18, <1>19

LEMMA LinkInvStep == ClientTypes /\ FollowInv /\ LinkInv /\ [Next]_vars => LinkInv'
  <1> SUFFICES ASSUME ClientTypes, FollowInv, LinkInv, [Next]_vars PROVE LinkInv'
    OBVIOUS
  <1>0. ListTypes /\ WalkTypes /\ ListTrees /\ requests \in Seq(Requests)
    BY DEF ClientTypes
  <1>1. ASSUME UNCHANGED vars PROVE LinkInv'
    <2>1. UNCHANGED listvars /\ UNCHANGED <<cpc, mTest, it, sOld, requests, linked>>
      BY <1>1 DEF vars, walkvars
    <2>2. input' = input /\ mCaseList' = mCaseList
      BY <2>1 DEF listvars
    <2>3. Intact' = Intact /\ OneTree' = OneTree /\ Visited' = Visited
      BY <2>1, <2>2 DEF Intact, OneTree, Visited
    <2>4. Asks(Last(mCaseList))' <=> Asks(Last(mCaseList))
      BY <2>2, AsksKept
    <2>5. QED
      BY <2>1, <2>2, <2>3, <2>4 DEF LinkInv
  <1>2. ASSUME Load \/ Start PROVE LinkInv'
    <2>1. cpc = "start"
      BY <1>0, <1>2, LoadFirst DEF Load, Start
    <2>2. UNCHANGED <<sOld, requests, linked>>
      BY <1>2 DEF Load, walkvars, Start
    <2>3. requests' = <<>> /\ sOld' = NoDir /\ linked' = NoLinks
      BY <1>0, <2>1, <2>2 DEF WalkTypes, FollowInv
    <2>4. Visited' = {}
      BY <2>3, DOMAIN <<>> = {} DEF Visited
    <2>5. QED
      BY <2>3, <2>4, DOMAIN <<>> = {} DEF LinkInv, NoLinks
  <1>3. ASSUME SkipCase \/ PassList PROVE LinkInv'
    <2>1. /\ Walking /\ ~Asks(Case) /\ cpc = "walk" /\ it <= Len(mCaseList) /\ cpc' # "start"
          /\ UNCHANGED <<listvars, mTest, sOld, requests, linked>>
          /\ mTest # "sequential" => it' = it + 1
      BY <1>3 DEF SkipCase, PassList, Asks, Walking, Bottom
    <2>2. it \in Nat /\ Len(mCaseList) \in Nat
      BY <1>0, WalkLens
    <2>3. ASSUME mTest # "sequential", it' > Len(mCaseList)
          PROVE  ~Asks(Last(mCaseList))
      <3>1. it' = it + 1
        BY <2>1, <2>3
      <3>2. it = Len(mCaseList)
        BY ONLY <2>1, <2>2, <2>3, <3>1
      <3>3. QED
        BY <2>1, <3>2 DEF Case, Last
    <2>4. QED
      BY <2>1, <2>3, LinksKept
  <1>4. ASSUME NoPoint \/ EndOfList \/ Report PROVE LinkInv'
    <2>1. /\ cpc # "start" /\ cpc' # "start" /\ cpc' # "walk" /\ it' = it
          /\ UNCHANGED <<listvars, mTest, sOld, requests, linked>>
      BY <1>4 DEF NoPoint, CanRun, Walking, EndOfList, Report
    <2>2. QED
      BY <2>1, LinksKept
  <1>5. ASSUME NEW reply, Refused(reply) PROVE LinkInv'
    <2>1. /\ CanRun /\ (mTest = "sequential" => gRecPtrList # <<>>) /\ reply.kind \in {"refused", "unreachable"}
          /\ requests' = Append(requests, Request(reply.kind, "none", linked))
      BY <1>5 DEF Refused
    <2> DEFINE r == Request(reply.kind, "none", linked)
    <2>2. r.kind = reply.kind
      BY DEF Request
    <2>3. r \in Requests
      <3>1. linked \in Links /\ reply.kind \in Kinds4
        BY <1>0, <2>1 DEF WalkTypes, Kinds4
      <3>2. QED
        BY <2>1, <3>1, RequestTypes
    <2> HIDE DEF r
    <2>4. Len(requests) + 1 \in DOMAIN requests' /\ requests'[Len(requests) + 1] = r
      <3>1. /\ Append(requests, r) \in Seq(Requests)
            /\ Len(Append(requests, r)) = Len(requests) + 1
            /\ Append(requests, r)[Len(requests) + 1] = r
        BY <1>0, <2>3, AppendProperties
      <3>2. Len(requests) + 1 \in DOMAIN Append(requests, r)
        BY ONLY <1>0, <3>1
      <3>3. requests' = Append(requests, r)
        BY <2>1 DEF r
      <3>4. QED
        BY <3>1, <3>2, <3>3
    <2>5. ~Intact'
      BY <2>1, <2>2, <2>4 DEF Intact, Lost
    <2>6. QED
      BY <2>5 DEF LinkInv
  <1>6. QED
    BY <1>1, <1>2, <1>3, <1>4, <1>5, LinksOfRun DEF Next, Stopped

LEMMA FollowsInit == Init => FollowInv /\ LinkInv
  <1> SUFFICES ASSUME Init PROVE FollowInv /\ LinkInv
    OBVIOUS
  <1>1. DOMAIN <<>> = {} /\ cpc = "start" /\ requests = <<>> /\ all = <<>> /\ sOld = NoDir /\ linked = NoLinks /\ sRun = 0
    BY DEF Init, NoLinks, Now
  <1>2. Wanted = {} /\ Visited = {}
    BY <1>1 DEF Wanted, Visited
  <1>3. QED
    BY <1>1, <1>2 DEF FollowInv, LinkInv, NoLinks

LEMMA FollowsList == ASSUME ClientTypes, FollowInv, LinkInv PROVE RequestsFollowList
  <1>0. ListTypes /\ WalkTypes
    BY DEF ClientTypes
  <1>1. Len(mCaseList) \in Nat /\ it \in Nat /\ it \in 1..(Len(mCaseList) + 1)
    BY <1>0, WalkLens DEF WalkTypes
  <1>2. ASSUME ~Sequential, cpc # "start"
        PROVE  /\ \A k \in Wanted : Rank(k) <= Len(requests) => requests[Rank(k)].name = all[k].name
               /\ IF it > Len(mCaseList) THEN Len(requests) = Cardinality(Wanted)
                  ELSE Len(requests) <= Cardinality(Wanted)
    <2>1. Wanted \in SUBSET (1..Len(mCaseList)) /\ \A k \in Wanted : Rank(k) = RankIn(Wanted, k)
      BY DEF FollowInv, Rank, RankIn
    <2>2. PICK n \in Nat : Served(Wanted, all, requests, n) /\ (it > Len(mCaseList) => n >= Len(mCaseList))
      <3>1. it - 1 \in Nat /\ (it > Len(mCaseList) => it - 1 >= Len(mCaseList) /\ ~(it <= Len(mCaseList)))
        BY ONLY <1>1
      <3>2. QED
        BY <1>1, <1>2, <3>1 DEF FollowInv, Sequential
    <2>3. /\ \A k \in Wanted : RankIn(Wanted, k) <= Len(requests) => requests[RankIn(Wanted, k)].name = all[k].name
          /\ Len(requests) <= Cardinality(Wanted)
          /\ n >= Len(mCaseList) => Len(requests) = Cardinality(Wanted)
      <3>1. Wanted \in SUBSET (1..Len(mCaseList)) /\ Len(mCaseList) \in Nat
        BY <1>1, <2>1
      <3>2. Served(Wanted, all, requests, n)
        BY <2>2
      <3>3. \A W \in SUBSET (1..Len(mCaseList)) : \A al, reqs : Served(W, al, reqs, n) =>
               /\ \A k \in W : RankIn(W, k) <= Len(reqs) => reqs[RankIn(W, k)].name = al[k].name
               /\ Len(reqs) <= Cardinality(W)
               /\ n >= Len(mCaseList) => Len(reqs) = Cardinality(W)
        BY <3>1, ServedAll
      <3>4. QED
        BY <3>1, <3>2, <3>3
    <2>4. QED
      BY <2>1, <2>2, <2>3
  <1>3. ASSUME ~Sequential, OneTree, Intact
        PROVE  LET L == {d \in Dirs : linked[<<d, "data">>] # "none"}
               IN  /\ \A k \in DOMAIN requests : requests[k].links = {requests[k].name[1]}
                   /\ {d \in Dirs : linked[<<d, "script">>] # "none"} = Visited
                   /\ \A d, e \in L : d = e
                   /\ cpc = "stopped" /\ it > Len(mCaseList) /\ Last(mCaseList).type = "SQL" /\ Runnable(Last(mCaseList))
                      => L = {}
    <2>1. mTest # "sequential"
      BY <1>0, <1>3 DEF Sequential, WalkTypes
    <2>2. /\ \A k \in DOMAIN requests : requests[k].links = {requests[k].name[1]}
          /\ linked = Now({}, Visited) \/ linked = Now({sOld[2]}, Visited)
          /\ it > Len(mCaseList) /\ cpc = "stopped" /\ Asks(Last(mCaseList)) => linked = Now({}, Visited)
      BY <1>3, <2>1 DEF LinkInv
    <2>3. \A d \in Dirs :
             /\ Now({}, Visited)[<<d, "data">>] = "none"
             /\ Now({sOld[2]}, Visited)[<<d, "data">>] # "none" => d = sOld[2]
             /\ \A D : Now(D, Visited)[<<d, "script">>] # "none" <=> d \in Visited
      BY DEF Now, Files
    <2>4. Visited \in SUBSET Dirs
      BY VisitedDirs DEF ClientTypes
    <2>5. {d \in Dirs : linked[<<d, "script">>] # "none"} = Visited
      BY <2>2, <2>3, <2>4
    <2>6. QED
      BY <2>2, <2>3, <2>5 DEF Asks
  <1>4. QED
    BY <1>2, <1>3 DEF RequestsFollowList

(* For every list, every machine and all replies of the service: outside   *)
(* the sequential tests each case that may run is requested once and in    *)
(* the order of the list, and while no request is lost a case of the       *)
(* common tree runs with the files of its directory among the results, of  *)
(* no other directory but the scripts of those run before                  *)
(* (writeAllTestCase, main, Servicer::link and unlink).                    *)
THEOREM ClientFollowsList == Spec => []RequestsFollowList
  BY InitTypes, TypesStep, FollowsInit, FollowInvStep, LinkInvStep, FollowsList, PTL DEF Spec

-----------------------------------------------------------------------------
(* The recovery points.  Going round from the point at a to the iterator r *)
(* one has passed the points Between(a, q, r); since the request that      *)
(* missed its point all of them were tried.                                *)
Between(a, q, r) == (a < r /\ a < q /\ q < r) \/ (a >= r /\ (q > a \/ q < r))

Distinct(recs) == \A h, k \in 1..Len(recs) : recs[h] = recs[k] => h = k
Tried(reqs, i, j, p) == \E k \in i..j : reqs[k].point = p

Due(reqs, recs, r) ==
    \A i \in 1..Len(reqs) : reqs[i].read = "MISS" =>
        \A a, q \in 1..Len(recs) :
            recs[a] = reqs[i].point /\ Between(a, q, r) => Tried(reqs, i, Len(reqs), recs[q])

Turned(reqs, recs) ==
    \A i, j \in 1..Len(reqs) :
        i < j /\ reqs[i].point = reqs[j].point /\ reqs[i].read = "MISS" =>
            \A p \in Range(recs) \ {reqs[i].point} : Tried(reqs, i, j, p)

(* The points after a verdict: what is left of them, and where it stood.   *)
Left(recs, r, read) == IF read = "HIT" THEN RemoveAt(recs, r) ELSE recs
Up(x, r)            == IF x < r THEN x ELSE x + 1

LEMMA LeftIs ==
    ASSUME NEW P, NEW recs \in Seq(P), NEW r \in 1..Len(recs), NEW read
    PROVE  /\ Left(recs, r, read) \in Seq(P)
           /\ Range(Left(recs, r, read)) \in SUBSET Range(recs)
           /\ Distinct(recs) => Distinct(Left(recs, r, read))
           /\ read = "HIT" => /\ Len(Left(recs, r, read)) = Len(recs) - 1
                              /\ \A x \in 1..(Len(recs) - 1) : /\ Up(x, r) \in 1..Len(recs)
                                                              /\ Left(recs, r, read)[x] = recs[Up(x, r)]
                              /\ Range(Left(recs, r, read)) \cup {recs[r]} = Range(recs)
  <1>1. CASE read # "HIT"
    BY <1>1 DEF Left
  <1>2. CASE read = "HIT"
    <2> DEFINE s == RemoveAt(recs, r)
               n == Len(recs)
    <2>0. n \in Nat /\ r \in 1..n /\ DOMAIN recs = 1..n
      OBVIOUS
    <2>1. /\ s \in Seq(P) /\ Len(s) = n - 1
          /\ \A k \in 1..(r - 1) : s[k] = recs[k]
          /\ \A k \in r..(n - 1) : s[k] = recs[k + 1]
      BY RemoveAtSeq
    <2> HIDE DEF s
    <2>2. DOMAIN s = 1..(n - 1)
      BY <2>0, <2>1
    <2> HIDE DEF n
    <2>3. ASSUME NEW x \in 1..(n - 1)
          PROVE  Up(x, r) \in 1..n /\ s[x] = recs[Up(x, r)] /\ Up(x, r) # r
      <3>1. CASE x < r
        <4>1. x \in 1..(r - 1) /\ Up(x, r) = x /\ x \in 1..n /\ x # r
          BY <2>0, <3>1 DEF Up
        <4>2. QED
          BY <2>1, <4>1
      <3>2. CASE ~(x < r)
        <4>1. x \in r..(n - 1) /\ Up(x, r) = x + 1 /\ x + 1 \in 1..n /\ x + 1 # r
          BY <2>0, <3>2 DEF Up
        <4>2. QED
          BY <2>1, <4>1
      <3>3. QED
        BY <3>1, <3>2
    <2>4. ASSUME NEW y \in 1..n, y # r
          PROVE  \E x \in 1..(n - 1) : Up(x, r) = y
      <3>1. CASE y < r
        <4>1. y \in 1..(n - 1) /\ Up(y, r) = y
          BY <2>0, <3>1 DEF Up
        <4>2. QED
          BY <4>1
      <3>2. CASE y > r
        <4>1. y - 1 \in 1..(n - 1) /\ Up(y - 1, r) = y
          BY <2>0, <3>2 DEF Up
        <4>2. QED
          BY <4>1
      <3>3. QED
        BY <2>0, <2>4, <3>1, <3>2
    <2>5. \A x, y \in 1..(n - 1) : Up(x, r) = Up(y, r) => x = y
      BY <2>0 DEF Up
    <2>6. Range(s) \in SUBSET Range(recs)
      BY <2>0, <2>2, <2>3 DEF Range
    <2>7. Range(s) \cup {recs[r]} = Range(recs)
      <3>1. \A p \in Range(recs) : p \in Range(s) \/ p = recs[r]
        <4>1. SUFFICES ASSUME NEW y \in 1..n PROVE recs[y] \in Range(s) \/ recs[y] = recs[r]
          BY <2>0 DEF Range
        <4>2. CASE y = r
          BY <4>2
        <4>3. CASE y # r
          <5>1. PICK x \in 1..(n - 1) : Up(x, r) = y
            BY <2>4, <4>3
          <5>2. QED
            BY <2>2, <2>3, <5>1 DEF Range
        <4>4. QED
          BY <4>2, <4>3
      <3>2. recs[r] \in Range(recs)
        BY <2>0 DEF Range
      <3>3. QED
        BY <2>6, <3>1, <3>2
    <2>8. Distinct(recs) => Distinct(s)
      <3>1. SUFFICES ASSUME Distinct(recs), NEW x \in 1..(n - 1), NEW y \in 1..(n - 1), s[x] = s[y]
                     PROVE  x = y
        BY <2>1 DEF Distinct
      <3>2. recs[Up(x, r)] = recs[Up(y, r)] /\ Up(x, r) \in 1..n /\ Up(y, r) \in 1..n
        BY <2>3, <3>1
      <3>3. Up(x, r) = Up(y, r)
        BY <3>1, <3>2 DEF Distinct, n
      <3>4. QED
        BY <2>5, <3>3
    <2>9. Left(recs, r, read) = s
      BY <1>2 DEF Left, s
    <2>10. QED
      BY <1>2, <2>1, <2>3, <2>6, <2>7, <2>8, <2>9 DEF n
  <1>3. QED
    BY <1>1, <1>2

(* Whatever was tried before is still tried with one request more. *)
LEMMA TriedMore ==
    ASSUME NEW reqs \in Seq(Requests), NEW u \in Requests
    PROVE  /\ Len(Append(reqs, u)) = Len(reqs) + 1 /\ Len(reqs) \in Nat
           /\ Append(reqs, u)[Len(reqs) + 1] = u
           /\ \A k \in 1..Len(reqs) : Append(reqs, u)[k] = reqs[k]
           /\ \A i, j \in 1..Len(reqs) : \A p : Tried(reqs, i, j, p) =>
                 /\ Tried(Append(reqs, u), i, j, p)
                 /\ Tried(Append(reqs, u), i, Len(reqs) + 1, p)
           /\ \A i \in 1..(Len(reqs) + 1) : Tried(Append(reqs, u), i, Len(reqs) + 1, u.point)
  <1> DEFINE n == Len(reqs)
             s == Append(reqs, u)
  <1>1. n \in Nat /\ Len(s) = n + 1 /\ s[n + 1] = u /\ \A k \in 1..n : s[k] = reqs[k]
    BY AppendProperties
  <1> HIDE DEF s, n
  <1>2. ASSUME NEW i \in 1..n, NEW j \in 1..n, NEW p, Tried(reqs, i, j, p)
        PROVE  Tried(s, i, j, p) /\ Tried(s, i, n + 1, p)
    <2>1. PICK k \in i..j : reqs[k].point = p
      BY <1>2 DEF Tried
    <2>2. k \in 1..n /\ k \in i..(n + 1)
      BY <1>1, <2>1
    <2>3. s[k].point = p
      BY <1>1, <2>1, <2>2
    <2>4. QED
      BY <2>1, <2>2, <2>3 DEF Tried
  <1>3. ASSUME NEW i \in 1..(n + 1)
        PROVE  Tried(s, i, n + 1, u.point)
    <2>1. n + 1 \in i..(n + 1)
      BY <1>1
    <2>2. QED
      BY <1>1, <2>1 DEF Tried
  <1>4. QED
    BY <1>1, <1>2, <1>3 DEF s, n

LEMMA DueWrap ==
    ASSUME NEW P, NEW recs \in Seq(P), NEW reqs, NEW r \in 1..(Len(recs) + 1), Due(reqs, recs, r)
    PROVE  Due(reqs, recs, IF r > Len(recs) THEN 1 ELSE r)
  <1>1. CASE ~(r > Len(recs))
    BY <1>1
  <1>2. CASE r > Len(recs)
    <2>1. Len(recs) \in Nat /\ r = Len(recs) + 1
      BY <1>2
    <2>2. \A a, q \in 1..Len(recs) : Between(a, q, 1) => Between(a, q, r)
      BY <2>1 DEF Between
    <2>3. Due(reqs, recs, 1)
      BY <2>2 DEF Due
    <2>4. QED
      BY <1>2, <2>3
  <1>3. QED
    BY <1>1, <1>2

(* A request for the point at the iterator keeps the other points due. *)
LEMMA DueAfter ==
    ASSUME NEW P, NEW recs \in Seq(P), NEW r \in 1..Len(recs), Distinct(recs),
           NEW reqs \in Seq(Requests), Due(reqs, recs, r),
           NEW u \in Requests, u.point = recs[r]
    PROVE  Due(Append(reqs, u), Left(recs, r, u.read), IF u.read = "MISS" THEN r + 1 ELSE r)
  <1> DEFINE n == Len(reqs)
             m == Len(recs)
             s == Append(reqs, u)
             lr == Left(recs, r, u.read)
             rr == IF u.read = "MISS" THEN r + 1 ELSE r
  <1>1. /\ Len(s) = n + 1 /\ n \in Nat /\ s[n + 1] = u
        /\ \A k \in 1..n : s[k] = reqs[k]
        /\ \A i, j \in 1..n : \A p : Tried(reqs, i, j, p) => Tried(s, i, n + 1, p)
        /\ \A i \in 1..(n + 1) : Tried(s, i, n + 1, u.point)
    BY TriedMore
  <1>2. m \in Nat /\ r \in 1..m
    OBVIOUS
  <1>3. u.read # "HIT" => lr = recs /\ Len(lr) = m
    BY DEF Left
  <1>4. u.read = "HIT" => /\ Len(lr) = m - 1
                          /\ \A x \in 1..(m - 1) : Up(x, r) \in 1..m /\ lr[x] = recs[Up(x, r)]
    BY LeftIs
  <1>5. \A i \in 1..n : reqs[i].read = "MISS" =>
           \A a, q \in 1..m : recs[a] = reqs[i].point /\ Between(a, q, r) => Tried(s, i, n + 1, recs[q])
    <2>1. \A i \in 1..n : n \in 1..n
      BY <1>1
    <2>2. QED
      BY <1>1, <2>1 DEF Due
  <1>6. \A h, k \in 1..m : recs[h] = recs[k] => h = k
    BY DEF Distinct
  <1>7. u.point = recs[r]
    OBVIOUS
  <1>8. SUFFICES ASSUME NEW i \in 1..(n + 1), s[i].read = "MISS",
                        NEW a \in 1..Len(lr), NEW q \in 1..Len(lr),
                        lr[a] = s[i].point, Between(a, q, rr)
                 PROVE  Tried(s, i, n + 1, lr[q])
    BY <1>1 DEF Due
  <1> HIDE DEF n, m, s, lr, rr
  <1>9. CASE i = n + 1
    <2>1. s[i] = u /\ u.read = "MISS"
      BY <1>1, <1>8, <1>9
    <2>2. lr = recs /\ Len(lr) = m /\ rr = r + 1
      BY <1>3, <2>1 DEF rr
    <2>3. a \in 1..m /\ q \in 1..m /\ recs[a] = recs[r]
      BY <1>7, <1>8, <2>1, <2>2
    <2>4. a = r
      BY <1>2, <1>6, <2>3
    <2>5. ~Between(r, q, r + 1)
      BY ONLY <1>2, <2>3 DEF Between
    <2>6. QED
      BY <1>8, <2>2, <2>4, <2>5
  <1>10. CASE i # n + 1
    <2>1. i \in 1..n /\ s[i] = reqs[i]
      BY <1>1, <1>8, <1>10
    <2>2. CASE u.read = "HIT"
      <3>1. rr = r /\ a \in 1..(m - 1) /\ q \in 1..(m - 1)
        BY <1>4, <1>8, <2>2 DEF rr
      <3>2. Up(a, r) \in 1..m /\ Up(q, r) \in 1..m /\ lr[a] = recs[Up(a, r)] /\ lr[q] = recs[Up(q, r)]
        BY <1>4, <2>2, <3>1
      <3>3. Between(a, q, r)
        BY <1>8, <3>1
      <3>4. Between(Up(a, r), Up(q, r), r)
        BY ONLY <1>2, <3>1, <3>3 DEF Between, Up
      <3>5. QED
        BY <1>5, <1>8, <2>1, <3>2, <3>4
    <2>3. CASE u.read = "MISS"
      <3>1. rr = r + 1 /\ lr = recs /\ a \in 1..m /\ q \in 1..m
        BY <1>3, <1>8, <2>3 DEF rr
      <3>2. CASE q = r
        <4>1. Tried(s, i, n + 1, u.point)
          BY <1>1, <1>8
        <4>2. QED
          BY <1>7, <3>1, <3>2, <4>1
      <3>3. CASE q # r
        <4>1. Between(a, q, r + 1)
          BY <1>8, <3>1
        <4>2. Between(a, q, r)
          BY ONLY <1>2, <3>1, <3>3, <4>1 DEF Between
        <4>3. QED
          BY <1>5, <1>8, <2>1, <3>1, <4>2
      <3>4. QED
        BY <3>2, <3>3
    <2>4. CASE u.read \notin {"HIT", "MISS"}
      <3>1. rr = r /\ lr = recs /\ a \in 1..m /\ q \in 1..m
        BY <1>3, <1>8, <2>4 DEF rr
      <3>2. QED
        BY <1>5, <1>8, <2>1, <3>1
    <2>5. QED
      BY <2>2, <2>3, <2>4
  <1>11. QED
    BY <1>9, <1>10

(* The points due are the ones a second request must wait for. *)
LEMMA TurnedAfter ==
    ASSUME NEW P, NEW recs \in Seq(P), NEW r \in 1..Len(recs),
           NEW reqs \in Seq(Requests), Due(reqs, recs, r), Turned(reqs, recs),
           NEW u \in Requests, u.point = recs[r]
    PROVE  Turned(Append(reqs, u), Left(recs, r, u.read))
  <1> DEFINE n == Len(reqs)
             m == Len(recs)
             s == Append(reqs, u)
             lr == Left(recs, r, u.read)
  <1>1. /\ Len(s) = n + 1 /\ n \in Nat /\ s[n + 1] = u
        /\ \A k \in 1..n : s[k] = reqs[k]
        /\ \A i, j \in 1..n : \A p : Tried(reqs, i, j, p) => Tried(s, i, j, p) /\ Tried(s, i, n + 1, p)
    BY TriedMore
  <1>2. m \in Nat /\ r \in 1..m /\ u.point = recs[r] /\ Range(recs) = {recs[q] : q \in 1..m}
    BY DEF Range
  <1>3. Range(lr) \in SUBSET Range(recs)
    BY LeftIs
  <1>4. SUFFICES ASSUME NEW i \in 1..(n + 1), NEW j \in 1..(n + 1), i < j,
                        s[i].point = s[j].point, s[i].read = "MISS",
                        NEW p \in Range(lr) \ {s[i].point}
                 PROVE  Tried(s, i, j, p)
    BY <1>1 DEF Turned
  <1>5. \A h \in 1..n : reqs[h].read = "MISS" =>
           \A a, q \in 1..m : recs[a] = reqs[h].point /\ Between(a, q, r) => Tried(reqs, h, n, recs[q])
    BY DEF Due
  <1>6. \A h, k \in 1..n :
           h < k /\ reqs[h].point = reqs[k].point /\ reqs[h].read = "MISS" =>
               \A x \in Range(recs) \ {reqs[h].point} : Tried(reqs, h, k, x)
    BY DEF Turned
  <1> HIDE DEF n, m, s, lr
  <1>7. i \in 1..n /\ s[i] = reqs[i] /\ p \in Range(recs)
    BY <1>1, <1>3, <1>4
  <1>8. CASE j # n + 1
    <2>1. j \in 1..n /\ s[j] = reqs[j]
      BY <1>1, <1>4, <1>8
    <2>2. QED
      BY <1>1, <1>4, <1>6, <1>7, <2>1
  <1>9. CASE j = n + 1
    <2>1. reqs[i].point = recs[r]
      BY <1>1, <1>2, <1>4, <1>7, <1>9
    <2>2. PICK q \in 1..m : p = recs[q]
      BY <1>2, <1>7
    <2>3. q # r
      BY <1>4, <1>7, <2>1, <2>2
    <2>4. Between(r, q, r)
      BY ONLY <1>2, <2>2, <2>3 DEF Between
    <2>5. Tried(reqs, i, n, p)
      BY <1>2, <1>4, <1>5, <1>7, <2>1, <2>2, <2>4
    <2>6. n \in 1..n
      BY <1>1, <1>7
    <2>7. QED
      BY <1>1, <1>7, <1>9, <2>5, <2>6
  <1>10. QED
    BY <1>8, <1>9

(* The points that were hit. *)
Hits(reqs) == {k \in 1..Len(reqs) : reqs[k].read = "HIT"}
Gone(reqs) == {reqs[k].point : k \in Hits(reqs)}

LEMMA HitsAfter ==
    ASSUME NEW reqs \in Seq(Requests), NEW u \in Requests
    PROVE  /\ IsFiniteSet(Hits(reqs)) /\ Cardinality(Hits(reqs)) \in Nat
           /\ u.read = "HIT" =>
                 /\ Cardinality(Hits(Append(reqs, u))) = Cardinality(Hits(reqs)) + 1
                 /\ Gone(Append(reqs, u)) = Gone(reqs) \cup {u.point}
           /\ u.read # "HIT" =>
                 /\ Hits(Append(reqs, u)) = Hits(reqs)
                 /\ Gone(Append(reqs, u)) = Gone(reqs)
  <1> DEFINE n == Len(reqs)
             s == Append(reqs, u)
             H == Hits(reqs)
  <1>1. /\ Len(s) = n + 1 /\ n \in Nat /\ s[n + 1] = u
        /\ \A k \in 1..n : s[k] = reqs[k]
    BY TriedMore
  <1>2. H = {k \in 1..n : reqs[k].read = "HIT"} /\ Hits(s) = {k \in 1..Len(s) : s[k].read = "HIT"}
    BY DEF Hits
  <1>3. Gone(reqs) = {reqs[k].point : k \in H} /\ Gone(s) = {s[k].point : k \in Hits(s)}
    BY DEF Gone
  <1> HIDE DEF n, s, H
  <1>4. H \in SUBSET (1..n) /\ n + 1 \notin H /\ 1..(n + 1) = (1..n) \cup {n + 1}
    BY <1>1, <1>2
  <1>5. IsFiniteSet(H) /\ Cardinality(H) \in Nat
    <2>1. IsFiniteSet(1..n)
      BY <1>1, FS_Interval
    <2>2. QED
      BY <1>4, <2>1, FS_Subset, FS_CardinalityType
  <1>6. ASSUME u.read = "HIT"
        PROVE  Cardinality(Hits(s)) = Cardinality(H) + 1 /\ Gone(s) = Gone(reqs) \cup {u.point}
    <2>1. Hits(s) = H \cup {n + 1}
      BY <1>1, <1>2, <1>4, <1>6
    <2>2. Cardinality(H \cup {n + 1}) = Cardinality(H) + 1
      BY <1>4, <1>5, FS_AddElement
    <2>3. \A k \in H : s[k].point = reqs[k].point
      BY <1>1, <1>4
    <2>4. s[n + 1].point = u.point
      BY <1>1
    <2>5. Gone(s) = Gone(reqs) \cup {u.point}
      BY <1>3, <2>1, <2>3, <2>4
    <2>6. QED
      BY <2>1, <2>2, <2>5
  <1>7. ASSUME u.read # "HIT"
        PROVE  Hits(s) = H /\ Gone(s) = Gone(reqs)
    <2>1. Hits(s) = H
      BY <1>1, <1>2, <1>4, <1>7
    <2>2. \A k \in H : s[k].point = reqs[k].point
      BY <1>1, <1>4
    <2>3. QED
      BY <1>3, <2>1, <2>2
  <1>8. QED
    BY <1>5, <1>6, <1>7 DEF s, H

TurnInv ==
    mTest = "sequential" =>
        /\ Range(gRecPtrList) \cup Gone(requests) = Pts
        /\ Len(gRecPtrList) + Cardinality(Hits(requests)) = sTotal
        /\ Distinct(Points(input.recovery)) =>
              /\ Distinct(gRecPtrList)
              /\ Due(requests, gRecPtrList, rit)
              /\ Turned(requests, gRecPtrList)

(* A request of a sequential test, and what main does with its verdict. *)
LEMMA TurnOfRequest ==
    ASSUME ClientTypes, TurnInv, mTest = "sequential", UNCHANGED <<input, mTest>>,
           rit \in 1..Len(gRecPtrList),
           NEW u \in Requests, u.point = gRecPtrList[rit],
           requests' = Append(requests, u),
           gRecPtrList' = Left(gRecPtrList, rit, u.read),
           NEW r, r = IF u.read = "MISS" THEN rit + 1 ELSE rit,
           rit' = r \/ rit' = IF r > Len(gRecPtrList') THEN 1 ELSE r
    PROVE  TurnInv'
  <1> DEFINE lr == Left(gRecPtrList, rit, u.read)
             m  == Len(gRecPtrList)
  <1>1. gRecPtrList \in Seq(Pts) /\ requests \in Seq(Requests) /\ m \in Nat
    BY WalkLens DEF ClientTypes, WalkTypes
  <1>2. /\ lr \in Seq(Pts)
        /\ Range(lr) \in SUBSET Range(gRecPtrList)
        /\ Distinct(gRecPtrList) => Distinct(lr)
        /\ u.read = "HIT" => Len(lr) = m - 1 /\ Range(lr) \cup {u.point} = Range(gRecPtrList)
        /\ u.read # "HIT" => lr = gRecPtrList
    <2>1. /\ lr \in Seq(Pts)
          /\ Range(lr) \in SUBSET Range(gRecPtrList)
          /\ Distinct(gRecPtrList) => Distinct(lr)
          /\ u.read = "HIT" => Len(lr) = m - 1
          /\ u.read = "HIT" => Range(lr) \cup {gRecPtrList[rit]} = Range(gRecPtrList)
      BY <1>1, LeftIs
    <2>2. u.read # "HIT" => lr = gRecPtrList
      BY DEF Left
    <2>3. QED
      BY <2>1, <2>2
  <1>3. /\ Cardinality(Hits(requests)) \in Nat
        /\ u.read = "HIT" =>
              /\ Cardinality(Hits(Append(requests, u))) = Cardinality(Hits(requests)) + 1
              /\ Gone(Append(requests, u)) = Gone(requests) \cup {u.point}
        /\ u.read # "HIT" =>
              /\ Hits(Append(requests, u)) = Hits(requests)
              /\ Gone(Append(requests, u)) = Gone(requests)
    BY <1>1, HitsAfter
  <1>4. Pts' = Pts /\ sTotal' = sTotal /\ (Distinct(Points(input.recovery)))' = Distinct(Points(input.recovery))
    BY DEF Pts, sTotal, Points, Distinct
  <1>5. /\ Range(gRecPtrList) \cup Gone(requests) = Pts
        /\ m + Cardinality(Hits(requests)) = sTotal
    BY DEF TurnInv
  <1>6. Range(lr) \cup Gone(Append(requests, u)) = Pts
    BY <1>2, <1>3, <1>5
  <1>7. Len(lr) + Cardinality(Hits(Append(requests, u))) = sTotal
    <2>1. Len(lr) = IF u.read = "HIT" THEN m - 1 ELSE m
      BY <1>2
    <2>2. QED
      BY ONLY <1>1, <1>3, <1>5, <2>1
  <1>8. ASSUME Distinct(Points(input.recovery))
        PROVE  Distinct(lr) /\ Due(Append(requests, u), lr, rit') /\ Turned(Append(requests, u), lr)
    <2>1. Distinct(gRecPtrList) /\ Due(requests, gRecPtrList, rit) /\ Turned(requests, gRecPtrList)
      BY <1>8 DEF TurnInv
    <2>2. Due(Append(requests, u), lr, r)
      BY <1>1, <2>1, DueAfter
    <2>3. Turned(Append(requests, u), lr)
      BY <1>1, <2>1, TurnedAfter
    <2>4. r \in 1..(Len(lr) + 1)
      <3>1. u.read = "HIT" => Len(lr) = m - 1 /\ r = rit
        BY <1>2
      <3>2. u.read # "HIT" => Len(lr) = m /\ r \in {rit, rit + 1}
        BY <1>2
      <3>3. QED
        BY ONLY <1>1, <3>1, <3>2, rit \in 1..m
    <2>5. Due(Append(requests, u), lr, IF r > Len(lr) THEN 1 ELSE r)
      BY <1>2, <2>2, <2>4, DueWrap
    <2>6. Due(Append(requests, u), lr, rit')
      <3>1. rit' = r \/ rit' = IF r > Len(lr) THEN 1 ELSE r
        OBVIOUS
      <3>2. QED
        BY ONLY <2>2, <2>5, <3>1
    <2>7. QED
      BY <1>2, <2>1, <2>3, <2>6
  <1> HIDE DEF lr, m
  <1>9. gRecPtrList' = lr /\ requests' = Append(requests, u)
    BY DEF lr
  <1>10. QED
    BY <1>4, <1>6, <1>7, <1>8, <1>9 DEF TurnInv

(* Where the end of the body leaves the iterator. *)
LEMMA BottomRit ==
    ASSUME NEW recs, NEW r, NEW c, Bottom(recs, r, c)
    PROVE  rit' = r \/ rit' = IF r > Len(recs) THEN 1 ELSE r
  BY DEF Bottom

LEMMA TurnInvStep == ClientTypes /\ TurnInv /\ [Next]_vars => TurnInv'
  <1> SUFFICES ASSUME ClientTypes, TurnInv, [Next]_vars PROVE TurnInv'
    OBVIOUS
  <1>0. ListTypes /\ ListTrees /\ WalkTypes /\ gRecPtrList \in Seq(Pts)
    BY DEF ClientTypes, WalkTypes
  <1>1. ASSUME UNCHANGED <<input, mTest, requests, gRecPtrList, rit>>
        PROVE  TurnInv'
    BY <1>1 DEF TurnInv, Pts, sTotal
  <1>2. CASE UNCHANGED vars
    BY <1>1, <1>2 DEF vars, listvars, walkvars
  <1>3. CASE Load
    <2>1. mTest # "sequential" /\ mTest' = mTest
      BY <1>0, <1>3, LoadFirst DEF Load, walkvars, WalkTypes
    <2>2. QED
      BY <2>1 DEF TurnInv
  <1>4. CASE Start
    <2>1. mTest # "sequential" /\ requests = <<>> /\ rit = 1 /\ UNCHANGED <<input, requests, rit>>
      BY <1>0, <1>4 DEF Start, WalkTypes, listvars
    <2>2. CASE ~Starts
      BY <1>4, <2>1, <2>2 DEF Start, TurnInv
    <2>3. CASE Starts /\ TestType # "sequential"
      BY <1>4, <2>3 DEF Start, TurnInv
    <2>4. CASE Starts /\ TestType = "sequential"
      <3>1. gRecPtrList' = Points(input.recovery) /\ input' = input /\ requests' = <<>>
        BY <1>4, <2>1, <2>4 DEF Start
      <3>2. Len(<<>>) = 0 /\ 1..0 = {}
        OBVIOUS
      <3>3. Hits(<<>>) = {} /\ Gone(<<>>) = {} /\ Cardinality({}) = 0
        BY <3>2, FS_EmptySet DEF Hits, Gone
      <3>4. Len(Points(input.recovery)) \in Nat
        BY <1>0, PointsSeq DEF ListTypes
      <3>5. \A recs, q : Due(<<>>, recs, q) /\ Turned(<<>>, recs)
        BY <3>2 DEF Due, Turned
      <3>6. Pts' = Pts /\ sTotal' = Len(Points(input.recovery))
            /\ (Distinct(Points(input.recovery)))' = Distinct(Points(input.recovery))
        <4>1. Points(input.recovery)' = Points(input.recovery)
          BY ONLY <2>1 DEF Points
        <4>2. QED
          BY <4>1 DEF Pts, sTotal, Distinct
      <3>7. Range(gRecPtrList') \cup Gone(<<>>) = Pts
        BY <3>1, <3>3 DEF Pts
      <3>8. Len(gRecPtrList') + Cardinality(Hits(<<>>)) = sTotal'
        <4>1. Len(gRecPtrList') = Len(Points(input.recovery)) /\ Cardinality(Hits(<<>>)) = 0
          BY <3>1, <3>3
        <4>2. QED
          BY ONLY <3>4, <3>6, <4>1
      <3>9. QED
        BY <3>1, <3>5, <3>6, <3>7, <3>8 DEF TurnInv
    <2>5. QED
      BY <2>2, <2>3, <2>4
  <1>5. CASE SkipCase \/ NoPoint \/ EndOfList \/ Report
    BY <1>1, <1>5 DEF SkipCase, NoPoint, EndOfList, Report, listvars
  <1>6. CASE PassList
    <2>1. UNCHANGED <<input, mTest, requests, gRecPtrList>> /\ Bottom(gRecPtrList, rit, counts)
      BY <1>6 DEF PassList, listvars
    <2>2. rit' = rit \/ rit' = IF rit > Len(gRecPtrList) THEN 1 ELSE rit
      BY <2>1, BottomRit
    <2>3. rit \in 1..(Len(gRecPtrList) + 1)
      BY <1>0 DEF WalkTypes
    <2>4. Due(requests, gRecPtrList, rit) => Due(requests, gRecPtrList, rit')
      <3>1. Due(requests, gRecPtrList, rit) =>
               Due(requests, gRecPtrList, IF rit > Len(gRecPtrList) THEN 1 ELSE rit)
        BY <1>0, <2>3, DueWrap
      <3>2. QED
        BY ONLY <2>2, <3>1
    <2>5. Pts' = Pts /\ sTotal' = sTotal /\ (Distinct(Points(input.recovery)))' = Distinct(Points(input.recovery))
      BY <2>1 DEF Pts, sTotal, Points, Distinct
    <2>6. QED
      BY <2>1, <2>4, <2>5 DEF TurnInv
  <1>7. ASSUME NEW reply, RunCase(reply)
        PROVE  TurnInv'
    <2>1. PICK far \in BOOLEAN :
            LET ln == IF far THEN Before(linked) ELSE linked
                v  == Reads(reply)
                c  == IF v = "none" THEN counts ELSE [counts EXCEPT ![v] = @ + 1]
            IN  /\ linked' = IF reply.kind = "verdict" THEN After(ln) ELSE ln
                /\ requests' = Append(requests, Request(reply.kind, v, ln))
                /\ counts' = c
                /\ gRecPtrList' = RecsAfter(v)
                /\ IF v \in {"FATAL", "none"} THEN cpc' = "report" /\ UNCHANGED <<it, rit>>
                   ELSE Bottom(RecsAfter(v), RitAfter(v), c)
      BY <1>7 DEF RunCase
    <2> DEFINE ln == IF far THEN Before(linked) ELSE linked
               v  == Reads(reply)
               c  == IF v = "none" THEN counts ELSE [counts EXCEPT ![v] = @ + 1]
               u  == Request(reply.kind, v, ln)
    <2>2. /\ requests' = Append(requests, u)
          /\ gRecPtrList' = RecsAfter(v)
          /\ IF v \in {"FATAL", "none"} THEN rit' = rit ELSE Bottom(RecsAfter(v), RitAfter(v), c)
      BY <2>1
    <2>3. /\ CanRun /\ Walking /\ reply.kind \in Kinds4
          /\ mTest = "sequential" => gRecPtrList # <<>>
          /\ UNCHANGED <<input, mTest>>
      BY <1>7 DEF RunCase, CanRun, Kinds4, listvars
    <2>4. v \in VerdictSet \cup {"none"}
      BY ReadsVerdict
    <2>5. ln \in Links
      BY <1>0, <2>3, LinksAround DEF WalkTypes
    <2>6. u.read = v /\ (mTest = "sequential" => u.point = gRecPtrList[rit])
      BY DEF Request
    <2> HIDE DEF ln, v, c
    <2>7. CASE mTest # "sequential"
      BY <2>3, <2>7 DEF TurnInv
    <2>8. CASE mTest = "sequential"
      <3>1. u \in Requests /\ rit \in 1..Len(gRecPtrList)
        BY <2>3, <2>4, <2>5, <2>8, RequestTypes
      <3> HIDE DEF u
      <3>2. gRecPtrList' = Left(gRecPtrList, rit, u.read)
        BY <2>2, <2>6, <2>8 DEF RecsAfter, Left
      <3>3. RitAfter(v) = IF u.read = "MISS" THEN rit + 1 ELSE rit
        BY <2>6, <2>8 DEF RitAfter
      <3>4. rit' = RitAfter(v) \/ rit' = IF RitAfter(v) > Len(gRecPtrList') THEN 1 ELSE RitAfter(v)
        <4>1. CASE v \in {"FATAL", "none"}
          BY <2>2, <4>1 DEF RitAfter
        <4>2. CASE v \notin {"FATAL", "none"}
          <5>1. Bottom(gRecPtrList', RitAfter(v), c)
            BY <2>2, <4>2
          <5>2. \A q, h : Bottom(gRecPtrList', q, h) => rit' = q \/ rit' = IF q > Len(gRecPtrList') THEN 1 ELSE q
            BY BottomRit
          <5>3. QED
            BY <5>1, <5>2
        <4>3. QED
          BY <4>1, <4>2
      <3>5. QED
        BY <2>2, <2>3, <2>6, <2>8, <3>1, <3>2, <3>3, <3>4, TurnOfRequest
    <2>9. QED
      BY <2>7, <2>8
  <1>8. ASSUME NEW reply, Refused(reply)
        PROVE  TurnInv'
    <2> DEFINE u == Request(reply.kind, "none", linked)
    <2>1. /\ CanRun /\ Walking /\ reply.kind \in Kinds4 /\ "none" \in VerdictSet \cup {"none"}
          /\ mTest = "sequential" => gRecPtrList # <<>>
          /\ requests' = Append(requests, u)
          /\ UNCHANGED <<input, mTest, gRecPtrList>>
          /\ IF reply.kind = "unreachable" THEN rit' = rit ELSE Bottom(gRecPtrList, rit, counts)
      BY <1>8 DEF Refused, CanRun, Kinds4, listvars
    <2>2. linked \in Links
      BY <1>0 DEF WalkTypes
    <2>3. u.read = "none" /\ (mTest = "sequential" => u.point = gRecPtrList[rit])
      BY DEF Request
    <2>4. CASE mTest # "sequential"
      BY <2>1, <2>4 DEF TurnInv
    <2>5. CASE mTest = "sequential"
      <3>1. u \in Requests /\ rit \in 1..Len(gRecPtrList)
        BY <2>1, <2>2, <2>5, RequestTypes
      <3> HIDE DEF u
      <3>2. gRecPtrList' = Left(gRecPtrList, rit, u.read) /\ rit = IF u.read = "MISS" THEN rit + 1 ELSE rit
        BY <2>1, <2>3 DEF Left
      <3>3. rit' = rit \/ rit' = IF rit > Len(gRecPtrList') THEN 1 ELSE rit
        BY <2>1, BottomRit
      <3>4. QED
        BY <2>1, <2>3, <2>5, <3>1, <3>2, <3>3, TurnOfRequest
    <2>6. QED
      BY <2>4, <2>5
  <1>9. CASE Stopped
    BY <1>2, <1>9 DEF Stopped
  <1>10. QED
    BY <1>2, <1>3, <1>4, <1>5, <1>6, <1>7, <1>8, <1>9 DEF Next

LEMMA TurnsOfPoints == ASSUME ClientTypes, TurnInv PROVE PointsTakeTurns
  <1> SUFFICES ASSUME Sequential
               PROVE  LET hit == {k \in DOMAIN requests : requests[k].read = "HIT"}
                      IN  /\ Range(gRecPtrList) \cup {requests[k].point : k \in hit} = Range(Points(input.recovery))
                          /\ Len(gRecPtrList) + Cardinality(hit) = sTotal
                          /\ IsInjective(Points(input.recovery)) =>
                               \A i, j \in DOMAIN requests :
                                  (i < j /\ requests[i].point = requests[j].point /\ requests[i].read = "MISS") =>
                                      \A p \in Range(gRecPtrList) \ {requests[i].point} :
                                          \E k \in i..j : requests[k].point = p
    BY DEF PointsTakeTurns
  <1>1. mTest = "sequential" /\ requests \in Seq(Requests) /\ input \in Inputs
    BY DEF Sequential, ClientTypes, ListTypes
  <1>2. DOMAIN requests = 1..Len(requests)
    BY ONLY <1>1
  <1>3. /\ Range(gRecPtrList) \cup Gone(requests) = Pts
        /\ Len(gRecPtrList) + Cardinality(Hits(requests)) = sTotal
        /\ Distinct(Points(input.recovery)) => Turned(requests, gRecPtrList)
    BY <1>1 DEF TurnInv
  <1>4. IsInjective(Points(input.recovery)) => Distinct(Points(input.recovery))
    <2>1. Points(input.recovery) \in Seq(Pts)
      BY <1>1, PointsSeq
    <2>2. \A s \in Seq(Pts) : DOMAIN s = 1..Len(s)
      OBVIOUS
    <2>3. QED
      BY <2>1, <2>2 DEF IsInjective, Distinct
  <1>5. QED
    BY <1>2, <1>3, <1>4 DEF Hits, Gone, Turned, Tried, Pts

(* For every list of recovery points and all replies: a sequential test    *)
(* loses no point but the ones it hit, one for each hit, and when no point *)
(* is named twice a point that was missed is not tried again before every  *)
(* other point that is left (main's gRecPtrList and its iterator, with     *)
(* erase, the step after a miss and the wrap at the end of the list).      *)
THEOREM ClientPointsTakeTurns == Spec => []PointsTakeTurns
  <1>1. Init => TurnInv
    BY DEF Init, TurnInv
  <1>2. QED
    BY <1>1, InitTypes, TypesStep, TurnInvStep, TurnsOfPoints, PTL DEF Spec
=============================================================================
