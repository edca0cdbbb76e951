------------------------------ MODULE CaseLists ------------------------------
(***************************************************************************)
(* The list of test cases the client runs (atsclnt/caseManager.cpp and     *)
(* platformManager.cpp).  CaseManager::load reads a list file (.ts, .tl)   *)
(* line by line and calls itself for a list it names.  A line may restrict *)
(* a case, or everything below a list, to a group of machines: what is in  *)
(* force is kept in members that all the calls share.  The list of a user  *)
(* is loaded in the same way and merged into the common one.               *)
(*                                                                         *)
(* A file is <<tree, id>>, the tree being "common" or "user"; a line is    *)
(* what is left of it without blanks: [name, plat, neg, hash, comment],    *)
(* name "" when it names nothing (a title, a platform alone).              *)
(***************************************************************************)
EXTENDS Integers, SequencesExt, FiniteSets

CONSTANTS Inputs,   \* [files, shared, user, skip, conf, here, clean]
          Groups,   \* what a line may name as a group of machines
          Comments, \* and what it may say in its comment
          KindOf    \* what getcasetype says of an id: "other" for an unknown suffix,
                    \* "word" for a name without any

Kinds  == {"TS", "TL", "SQL", "XML", "other", "word"}
Ids    == DOMAIN KindOf
NoFile == <<"none", "">>

ASSUME KindAssumption == \A f \in Ids : KindOf[f] \in Kinds

(* A line of a list file.  The first argument of the client is a list of   *)
(* the common tree, the second one of the user's, or there is none.        *)
ListLine == [name : Ids \cup {""}, plat : Groups \cup {""}, neg : BOOLEAN, hash : BOOLEAN,
             comment : Comments \cup {""}]

ASSUME InputsAssumption ==
    \A in \in Inputs : /\ \A f \in DOMAIN in.files : f \in {"common", "user"} \X Ids /\ in.files[f] \in Seq(ListLine)
                       /\ in.shared \in {"common"} \X Ids
                       /\ in.user = NoFile \/ in.user \in {"user"} \X Ids

(* mShared is the list as it was before mergeCase, for MergeInOrder.       *)
VARIABLES input, mpc, frames, mCaseList, mLocalCaseList, mPlatformName, mIsSetPlatformInfo,
          mFindLevel, mi, mKeep, mShared

listvars == <<input, mpc, frames, mCaseList, mLocalCaseList, mPlatformName,
              mIsSetPlatformInfo, mFindLevel, mi, mKeep, mShared>>
members  == <<mPlatformName, mIsSetPlatformInfo, mFindLevel>>

LInit ==
    /\ input \in Inputs
    /\ mpc = "shared"
    /\ frames = <<>>
    /\ mCaseList = <<>> /\ mLocalCaseList = <<>>
    /\ mPlatformName = "" /\ mIsSetPlatformInfo = "OFF" /\ mFindLevel = 0
    /\ mi = 1 /\ mKeep = 1 /\ mShared = <<>>

IsList(kind) == kind \in {"TS", "TL"}
Skips(name)  == name[2] \in input.skip       \* the map of -i has no tree

(* A case goes to the list that is being loaded. *)
Push(c) == IF mpc \in {"shared", "loading"}
           THEN mCaseList' = Append(mCaseList, c) /\ UNCHANGED mLocalCaseList
           ELSE mLocalCaseList' = Append(mLocalCaseList, c) /\ UNCHANGED mCaseList

(* A call of load: what the code keeps in locals.  A file that cannot be   *)
(* opened is left to the service to report.                                *)
Opened(file, depth, mark) ==
    IF file \in DOMAIN input.files
    THEN <<[file |-> file, depth |-> depth, mark |-> mark, next |-> 1,
            sPlat |-> "", sFlag |-> "OFF", plat |-> "", flag |-> "unset"]>>
    ELSE <<>>

(* The root of a list is a case of the list itself; mFindLevel keeps what  *)
(* the list loaded before has left there.                                  *)
LoadRoot(from, to, file) ==
    /\ mpc = from
    /\ mpc' = to
    /\ LET kind == KindOf[file[2]]
       IN  IF kind \in {"other", "word"} THEN UNCHANGED <<mCaseList, mLocalCaseList, frames>>
           ELSE /\ Push([name |-> file, ts |-> file, type |-> kind, plat |-> "",
                         flag |-> "ON", comment |-> "",
                         mark |-> IF Skips(file) THEN "SKIP" ELSE "RUN"])
                /\ frames' = IF IsList(kind) THEN Opened(file, 0, "RUN") ELSE <<>>
    /\ mPlatformName' = "" /\ mIsSetPlatformInfo' = "OFF"
    /\ UNCHANGED <<input, mFindLevel, mi, mKeep, mShared>>

LoadShared == LoadRoot("shared", "loading", input.shared)
LoadUser   == input.user # NoFile /\ LoadRoot("loaded", "loadingUser", input.user)

-----------------------------------------------------------------------------
(* One line of the list file on top. *)
Top  == Last(frames)
Line == input.files[Top.file][Top.next]

Reading == /\ frames # <<>>
           /\ Top.next <= Len(input.files[Top.file])

(* The platform read on this line, or left there by a line that named no   *)
(* case.                                                                   *)
Plat == IF Line.plat # "" THEN Line.plat ELSE Top.sPlat
Flag == IF Line.plat = "" THEN Top.sFlag ELSE IF Line.neg THEN "ON" ELSE "OFF"

Advanced(frame) == [frame EXCEPT !.next = @ + 1, !.sPlat = Plat, !.sFlag = Flag]
Replaced(frame) == Append(Front(frames), frame)

NoCase ==
    /\ Reading
    /\ Line.name = ""
    /\ frames' = Replaced(Advanced(Top))
    /\ UNCHANGED <<input, mpc, mCaseList, mLocalCaseList, members, mi, mKeep, mShared>>

Word ==
    /\ Reading
    /\ Line.name # "" /\ KindOf[Line.name] = "word"
    /\ frames' = Replaced([Advanced(Top) EXCEPT !.sPlat = ""])
    /\ UNCHANGED <<input, mpc, mCaseList, mLocalCaseList, members, mi, mKeep, mShared>>

(* Defect: the platform of a list is not forgotten after it. *)
ClearedNever == FALSE

(* Which platform is in force: the line's own, when no list above it has   *)
(* one; the one of a list above it; none any more; as it was.              *)
OwnPlat   == Plat # "" /\ (mPlatformName = "" \/ Top.depth <= mFindLevel)
Inherited == ~OwnPlat /\ mPlatformName # "" /\ Top.depth > mFindLevel
Cleared   == Plat = "" /\ Top.depth <= mFindLevel

PlatNow == IF OwnPlat THEN Plat ELSE IF Inherited THEN mPlatformName
           ELSE IF Cleared THEN "" ELSE Top.plat
FlagNow == IF OwnPlat THEN Flag ELSE IF Inherited THEN mIsSetPlatformInfo
           ELSE IF Cleared THEN "OFF" ELSE Top.flag

Members ==
    /\ mPlatformName'      = IF OwnPlat THEN Plat ELSE IF Cleared THEN "" ELSE mPlatformName
    /\ mIsSetPlatformInfo' = IF OwnPlat THEN Flag ELSE IF Cleared THEN "OFF"
                             ELSE mIsSetPlatformInfo
    /\ mFindLevel'         = IF OwnPlat THEN Top.depth ELSE mFindLevel

Frame == [Advanced(Top) EXCEPT !.plat = PlatNow, !.flag = FlagNow]

(* A name of unknown suffix is no case, but its platform counts. *)
Unknown ==
    /\ Reading
    /\ Line.name # "" /\ KindOf[Line.name] = "other"
    /\ Members
    /\ frames' = Replaced(Frame)
    /\ UNCHANGED <<input, mpc, mCaseList, mLocalCaseList, mi, mKeep, mShared>>

Name == <<Top.file[1], Line.name>>
Mark == IF Skips(Name) THEN "SKIP" ELSE IF Line.hash THEN "NOT" ELSE Top.mark

Entry ==
    /\ Reading
    /\ Line.name # "" /\ KindOf[Line.name] \in {"TS", "TL", "SQL", "XML"}
    /\ Members
    /\ Push([name |-> Name, ts |-> Top.file, type |-> KindOf[Line.name], plat |-> PlatNow,
             flag |-> FlagNow, comment |-> Line.comment, mark |-> Mark])
    /\ frames' = Replaced([Frame EXCEPT !.sPlat = ""]) \o
                 (IF IsList(KindOf[Line.name]) THEN Opened(Name, Top.depth + 1, Mark)
                  ELSE <<>>)
    /\ UNCHANGED <<input, mpc, mi, mKeep, mShared>>

Close ==
    /\ frames # <<>>
    /\ ~Reading
    /\ frames' = Front(frames)
    /\ UNCHANGED <<input, mpc, mCaseList, mLocalCaseList, members, mi, mKeep, mShared>>

Loaded(from, to) ==
    /\ mpc = from
    /\ frames = <<>>
    /\ mpc' = to
    /\ mShared' = mCaseList
    /\ UNCHANGED <<input, frames, mCaseList, mLocalCaseList, members, mi, mKeep>>

-----------------------------------------------------------------------------
(* mergeCase, one case of the user's list. *)
Twin(c)  == <<"common", c.name[2]>>
Found(c) == {k \in DOMAIN mCaseList : mCaseList[k].name = Twin(c)}
Least(S) == CHOOSE k \in S : \A j \in S : k <= j

Updated(old, c) == [c EXCEPT !.plat = old.plat, !.ts = old.ts]

(* Defect: a new case goes behind the next one. *)
PutLate(c) == IF mKeep > Len(mCaseList) THEN Append(mCaseList, c)
              ELSE InsertAt(mCaseList, mKeep + 1, c)
Put(c) == InsertAt(mCaseList, mKeep, c)

MergeOne ==
    /\ mpc = "merge"
    /\ mi <= Len(mLocalCaseList)
    /\ LET c == mLocalCaseList[mi]
       IN  IF Found(c) # {}
           THEN LET k == Least(Found(c))
                IN  /\ mCaseList' = [mCaseList EXCEPT ![k] = Updated(@, c)]
                    /\ mKeep' = k + 1
           ELSE IF mi = 1
           THEN mCaseList' = Append(mCaseList, c) /\ mKeep' = Len(mCaseList) + 2
           ELSE mCaseList' = Put(c) /\ mKeep' = mKeep + 1
    /\ mi' = mi + 1
    /\ UNCHANGED <<input, mpc, frames, mLocalCaseList, members, mShared>>

(* The user's list takes the place of the number of arguments, 2. *)
SkipUser ==
    /\ mpc = "loaded" /\ input.user = NoFile
    /\ mpc' = "ready"
    /\ UNCHANGED <<input, frames, mCaseList, mLocalCaseList, members, mi, mKeep, mShared>>

Merged ==
    /\ mpc = "merge"
    /\ mi > Len(mLocalCaseList)
    /\ mpc' = "ready"
    /\ UNCHANGED <<input, frames, mCaseList, mLocalCaseList, members, mi, mKeep, mShared>>

LoadStep ==
    \/ LoadShared \/ LoadUser \/ NoCase \/ Word \/ Unknown \/ Entry \/ Close
    \/ Loaded("loading", "loaded") \/ Loaded("loadingUser", "merge")
    \/ SkipUser \/ MergeOne \/ Merged

(* mergeCase, when it returns: the cases of the common list stay in their   *)
(* order, replaced by their twins or not; a case of the user is in the     *)
(* list once for each line that names it, and a new one stands right       *)
(* behind the one before it in the user's list.                            *)
Mine     == {k \in DOMAIN mCaseList : mCaseList[k].name[1] = "user"}
IsNew(c) == \A k \in DOMAIN mShared : mShared[k].name # Twin(c)

KeepsOrder(at) ==
    /\ \A h, k \in DOMAIN mShared : h < k => at[h] < at[k]
    /\ \A k \in DOMAIN mShared : mCaseList[at[k]].name[2] = mShared[k].name[2]
    /\ \A m \in DOMAIN mCaseList : (\E k \in DOMAIN mShared : at[k] = m) \/ m \in Mine

MergeInOrder ==
    mpc = "merge" /\ mi > Len(mLocalCaseList) =>
        /\ Cardinality(Mine) = Len(mLocalCaseList)
        /\ \E at \in [DOMAIN mShared -> DOMAIN mCaseList] : KeepsOrder(at)
        /\ \A i \in 2..Len(mLocalCaseList) : IsNew(mLocalCaseList[i]) =>
              \E k \in 2..Len(mCaseList) : /\ mCaseList[k] = mLocalCaseList[i]
                                           /\ mCaseList[k - 1].name = mLocalCaseList[i - 1].name

-----------------------------------------------------------------------------
(* PlatformManager.  A line of platform.conf is [group, hosts, newline]:   *)
(* the last character of a line is taken for its newline, which cuts the   *)
(* last host of a file that does not end in one.  The buffer of a host is  *)
(* not cleared before the first one: clean when it happens to be zero.     *)
FirstHost(k, i) == i = 1 /\ \A j \in 1..(k - 1) : input.conf[j].hosts = <<>>
Addresses(k) ==
    LET l == input.conf[k]
    IN  {l.hosts[i] : i \in {j \in DOMAIN l.hosts : /\ j < Len(l.hosts) \/ l.newline
                                                   /\ FirstHost(k, j) => input.clean}}

InGroup(group) ==
    \E k \in DOMAIN input.conf :
        /\ input.conf[k].group = group
        /\ \A j \in DOMAIN input.conf :
              j > k /\ input.conf[j].hosts # <<>> => input.conf[j].group # group
        /\ input.here \in Addresses(k)

(* runnable of atsc.cpp: "^" excludes the machines of the group. *)
Runnable(c) ==
    /\ c.mark = "RUN"
    /\ c.plat # "" => (InGroup(c.plat) <=> c.flag = "OFF")
=============================================================================
