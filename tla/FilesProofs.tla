----------------------------- MODULE FilesProofs -----------------------------
(***************************************************************************)
(* Proofs about files, for all values of the constants that meet what the  *)
(* modules assume of them (ConstantsFit of MC_Files, MigrationAssumption). *)
(* One part per component: what its variables hold, the inductive          *)
(* invariant, the operators, a lemma for every action, and the theorems.   *)
(*   UploadStore       UploadInv: an upload has one owner, counted once    *)
(*   FileServing       ImageInv: one request at a time leads               *)
(*   DiskCache         DiskInv: who reads has seen what the file held;     *)
(*                     DiskAccounts: what is tracked is what is counted    *)
(*   TableWalks        DashInv: the figures are those of the bookmarks;    *)
(*                     WalkInv: where the rows not seen yet are            *)
(*   StorageMigration  MoveInv: which storage holds what a row names       *)
(* SuiteSpec runs one of them at a time; a theorem of the suite follows    *)
(* from the component's, since the others stand still.                     *)
(***************************************************************************)
EXTENDS MC_Files, FiniteSetTheorems, SequenceTheorems, WellFoundedInduction, TLAPS

(* Finite sets of numbers *)

\* A set of numbers has a least one, and a greatest if it is finite.
LEMMA LeastOf ==
  ASSUME NEW X, X \subseteq Nat, X # {}
  PROVE  \E x \in X : \A y \in X : x <= y
<1> DEFINE R == OpToRel(<, Nat)
<1>1. IsWellFoundedOn(R, Nat)
  BY NatLessThanWellFounded
<1>2. ASSUME NEW x \in Nat, NEW y \in Nat, y < x PROVE <<y, x>> \in R
  BY <1>2 DEF OpToRel
<1> HIDE DEF R
<1>3. PICK x \in X : \A y \in X : ~ (<<y, x>> \in R)
  BY <1>1, WFMin, Zenon
<1>4. ASSUME NEW y \in X PROVE x <= y
  <2>1. x \in Nat /\ y \in Nat
    OBVIOUS
  <2>2. ~ (y < x)
    BY <1>2, <1>3, <2>1, Zenon
  <2> QED BY <2>1, <2>2
<1> QED BY <1>4

LEMMA GreatestOf ==
  ASSUME NEW X, X \subseteq Nat, IsFiniteSet(X), X # {}
  PROVE  \E x \in X : \A y \in X : y <= x
<1> DEFINE Upto(x) == {y \in X : y <= x}
           left(x) == Cardinality(X) - Cardinality(Upto(x))
           Lefts == {left(x) : x \in X}
<1>1. \A x \in X : IsFiniteSet(Upto(x)) /\ Cardinality(Upto(x)) \in Nat /\ Cardinality(Upto(x)) <= Cardinality(X)
  <2>1. \A x \in X : Upto(x) \in SUBSET X
    OBVIOUS
  <2> HIDE DEF Upto
  <2> QED BY <2>1, FS_Subset, FS_CardinalityType
<1>2. Cardinality(X) \in Nat
  BY FS_CardinalityType
<1>3. ASSUME NEW x \in X, NEW y \in X, ~ (y <= x) PROVE left(y) < left(x)
  <2>1. Upto(x) \in SUBSET Upto(y)
    <3>1. \A z \in X : z <= x => z <= y
      BY <1>3
    <3> QED BY <3>1
  <2>2. y \in Upto(y) /\ y \notin Upto(x)
    BY <1>3
  <2> HIDE DEF Upto
  <2>3. Cardinality(Upto(x)) <= Cardinality(Upto(y)) /\ Cardinality(Upto(x)) # Cardinality(Upto(y))
    BY <1>1, <2>1, <2>2, FS_Subset
  <2> QED BY <1>1, <1>2, <2>3
<1>4. Lefts \subseteq Nat /\ Lefts # {}
  <2> HIDE DEF Upto
  <2>1. \A x \in X : left(x) \in Nat
    BY <1>1, <1>2
  <2> HIDE DEF left
  <2> QED BY <2>1
<1> HIDE DEF left
<1>5. PICK d \in Lefts : \A e \in Lefts : d <= e
  <2> HIDE DEF Lefts
  <2> QED BY <1>4, LeastOf
<1>6. PICK x \in X : d = left(x)
  OBVIOUS
<1>7. \A y \in X : left(y) \in Nat /\ left(x) <= left(y)
  BY <1>4, <1>5, <1>6
<1>8. ASSUME NEW y \in X, ~ (y <= x) PROVE FALSE
  <2>1. left(y) < left(x)
    BY <1>3, <1>8
  <2>2. left(x) \in Nat /\ left(y) \in Nat /\ left(x) <= left(y)
    BY <1>7
  <2> QED BY <2>1, <2>2
<1> QED BY <1>8

-----------------------------------------------------------------------------
(* Uploads *)

UploadSlot == [at : {"idle", "store", "persist", "failed", "remove"}, up : SUBSET Upload, path : SUBSET Upload]

UploadTyped ==
  /\ uRow \in [Upload -> [status : {"none", "used", "deleted"}, path : SUBSET Upload]]
  /\ uObject \in SUBSET Upload /\ uTaken \in SUBSET Upload
  /\ uStat \in [there : BOOLEAN, n : Int]
  /\ uCall \in [Caller -> UploadSlot]
  /\ uTwice \in BOOLEAN /\ uFaults \in Nat

UploadKnown == {u \in Upload : uRow[u].status # "none"}
UploadMaking == {"store", "persist", "failed"}

\* A call that makes an upload has one that no row and no other call has, and the
\* object it names is its own or that of an upload there has been.
UploadCallOK(c) ==
  /\ uCall[c].at \in UploadMaking => \E u \in Upload : uCall[c].up = {u} /\ u \notin UploadKnown
  /\ uCall[c].at \in UploadMaking => uCall[c].path = uCall[c].up \/ uCall[c].path \subseteq UploadKnown
  /\ uCall[c].at = "store" => uCall[c].path = uCall[c].up
  /\ uCall[c].at = "persist" => uCall[c].path \subseteq uObject \cup uTaken
  /\ uCall[c].at = "remove" => \E u \in UploadKnown : uCall[c].up = {u}

UploadApart ==
  \A c, d \in Caller : c # d /\ uCall[c].at \in UploadMaking /\ uCall[d].at \in UploadMaking
                         => uCall[c].up # uCall[d].up

UploadPathsOK == \A u \in UploadKnown : uRow[u].path \subseteq UploadKnown

\* A counter that is missing stands for no upload; one that was taken from the row of a
\* missing counter may be -1, and no lower.
UploadCountOK == /\ IsFiniteSet(U!Active) /\ uStat.n >= -1 /\ (~ uStat.there => uStat.n = 0)
           /\ U!StatsFollow

UploadInv == /\ UploadTyped /\ (\A c \in Caller : UploadCallOK(c)) /\ UploadApart /\ UploadPathsOK
        /\ UploadCountOK /\ U!UsedIsStored

-----------------------------------------------------------------------------
\* UploadStore counts with the Cardinality of its own FiniteSets.
LEMMA UploadCard == \A S : U!Cardinality(S) = Cardinality(S)
  BY Zenon DEF U!Cardinality, Cardinality

LEMMA UploadCallWrite ==
  ASSUME UploadTyped, NEW c \in Caller, NEW s \in UploadSlot, uCall' = [uCall EXCEPT ![c] = s]
  PROVE  /\ uCall' \in [Caller -> UploadSlot] /\ uCall'[c] = s
         /\ \A d \in Caller : d # c => uCall'[d] = uCall[d]
  BY DEF UploadTyped

LEMMA UploadIdleTyped == U!Idle \in UploadSlot /\ U!Idle.at = "idle"
  BY DEF U!Idle, UploadSlot

LEMMA UploadCallTyped ==
  ASSUME UploadTyped, NEW c \in Caller
  PROVE  /\ uCall[c] \in UploadSlot /\ uCall[c].up \in SUBSET Upload /\ uCall[c].path \in SUBSET Upload
<1>1. uCall[c] \in UploadSlot
  BY DEF UploadTyped
<1> QED BY <1>1 DEF UploadSlot

LEMMA UploadRowTyped ==
  ASSUME UploadTyped, NEW u \in Upload
  PROVE  /\ uRow[u] \in [status : {"none", "used", "deleted"}, path : SUBSET Upload]
         /\ uRow[u].path \in SUBSET Upload /\ uRow[u].status \in {"none", "used", "deleted"}
  BY DEF UploadTyped

\* A call begins, goes on or ends; rows and statistics stay.
LEMMA UploadCallStep ==
  ASSUME UploadInv, UploadTyped', NEW c \in Caller, \A d \in Caller : d # c => uCall'[d] = uCall[d],
         UNCHANGED <<uRow, uStat, uTwice>>, uObject \cup uTaken \subseteq uObject' \cup uTaken',
         UploadCallOK(c)',
         uCall'[c].at \in UploadMaking => \/ uCall[c].at \in UploadMaking /\ uCall'[c].up = uCall[c].up
                                   \/ \A d \in Caller : uCall[d].up # uCall'[c].up
  PROVE  UploadInv'
<1>1. UploadKnown' = UploadKnown /\ U!Active' = U!Active
  BY DEF UploadKnown, U!Active
<1>2. ASSUME NEW d \in Caller PROVE UploadCallOK(d)'
  <2>1. CASE d = c
    BY <2>1
  <2>2. CASE d # c
    <3>1. uCall'[d] = uCall[d] /\ UploadCallOK(d)
      BY <2>2 DEF UploadInv
    <3> QED BY <1>1, <3>1 DEF UploadCallOK
  <2> QED BY <2>1, <2>2
<1>3. UploadApart'
  BY DEF UploadInv, UploadApart
<1>4. UploadPathsOK' /\ UploadCountOK' /\ U!UsedIsStored'
  BY <1>1 DEF UploadInv, UploadPathsOK, UploadCountOK, U!StatsFollow, U!UsedIsStored
<1> QED BY <1>2, <1>3, <1>4 DEF UploadInv

LEMMA UploadIngestNewStep ==
  ASSUME UploadInv, NEW c \in Caller, NEW u \in Upload, U!IngestNew(c, u) PROVE UploadInv'
<1> DEFINE s == [at |-> "store", up |-> {u}, path |-> {u}]
<1>1. s \in UploadSlot
  BY DEF UploadSlot
<1>2. /\ uCall' = [uCall EXCEPT ![c] = s] /\ U!Fresh(u) /\ uCall[c] = U!Idle
      /\ UNCHANGED <<uRow, uObject, uStat, uTwice, uTaken, uFaults>>
  BY DEF U!IngestNew
<1>3. /\ uCall' \in [Caller -> UploadSlot] /\ uCall'[c] = s
      /\ \A d \in Caller : d # c => uCall'[d] = uCall[d]
  BY <1>1, <1>2, UploadCallWrite DEF UploadInv
<1>4. UploadTyped'
  BY <1>2, <1>3 DEF UploadInv, UploadTyped
<1>5. UploadCallOK(c)'
  BY <1>2, <1>3 DEF UploadCallOK, UploadKnown, U!Fresh, UploadMaking
<1>6. \A d \in Caller : uCall[d].up # uCall'[c].up
  BY <1>2, <1>3 DEF U!Fresh
<1> QED BY <1>2, <1>3, <1>4, <1>5, <1>6, UploadCallStep

LEMMA UploadIngestDedupStep ==
  ASSUME UploadInv, NEW c \in Caller, NEW u \in Upload, NEW found \in U!Active, U!IngestDedup(c, u, found)
  PROVE  UploadInv'
<1> DEFINE s == [at |-> "persist", up |-> {u}, path |-> uRow[found].path]
<1>0. found \in Upload /\ uRow[found].path \in SUBSET Upload /\ found \in UploadKnown
  BY UploadRowTyped DEF UploadInv, U!Active, UploadKnown
<1>1. s \in UploadSlot
  BY <1>0 DEF UploadSlot
<1>2. /\ uCall' = [uCall EXCEPT ![c] = s] /\ U!Fresh(u) /\ uCall[c] = U!Idle
      /\ UNCHANGED <<uRow, uObject, uStat, uTwice, uTaken, uFaults>>
  BY DEF U!IngestDedup
<1>3. /\ uCall' \in [Caller -> UploadSlot] /\ uCall'[c] = s
      /\ \A d \in Caller : d # c => uCall'[d] = uCall[d]
  BY <1>1, <1>2, UploadCallWrite DEF UploadInv
<1>4. UploadTyped'
  BY <1>2, <1>3 DEF UploadInv, UploadTyped
<1>5. uRow[found].path \subseteq UploadKnown /\ uRow[found].path \subseteq uObject \cup uTaken
  BY <1>0 DEF UploadInv, UploadPathsOK, U!UsedIsStored
<1>6. UploadCallOK(c)'
  BY <1>2, <1>3, <1>5 DEF UploadCallOK, UploadKnown, U!Fresh, UploadMaking
<1>7. \A d \in Caller : uCall[d].up # uCall'[c].up
  BY <1>2, <1>3 DEF U!Fresh
<1> QED BY <1>2, <1>3, <1>4, <1>6, <1>7, UploadCallStep

LEMMA UploadFileStep ==
  ASSUME UploadInv, NEW c \in Caller, NEW u \in Upload, U!UploadFile(c, u) \/ U!MirrorFile(c, u)
  PROVE  UploadInv'
  BY UploadIngestNewStep, UploadIngestDedupStep DEF U!UploadFile, U!MirrorFile

LEMMA UploadStoreObjectStep == ASSUME UploadInv, NEW c \in Caller, U!StoreObject(c) PROVE UploadInv'
<1>1. uCall[c] \in UploadSlot /\ uCall[c].at = "store" /\ UploadCallOK(c) /\ UNCHANGED <<uRow, uStat, uTwice, uTaken, uFaults>>
  BY UploadCallTyped DEF UploadInv, U!StoreObject
<1>2. CASE uObject' = uObject \cup uCall[c].path /\ uCall' = [uCall EXCEPT ![c].at = "persist"]
  <2> DEFINE s == [uCall[c] EXCEPT !.at = "persist"]
  <2>1. s \in UploadSlot /\ s.at = "persist" /\ s.up = uCall[c].up /\ s.path = uCall[c].path
    BY <1>1 DEF UploadSlot
  <2>2. uCall' = [uCall EXCEPT ![c] = s]
    BY <1>2
  <2> HIDE DEF s
  <2>3. /\ uCall' \in [Caller -> UploadSlot] /\ uCall'[c] = s
        /\ \A d \in Caller : d # c => uCall'[d] = uCall[d]
    BY <2>1, <2>2, UploadCallWrite DEF UploadInv
  <2>4. UploadTyped'
    BY <1>1, <1>2, <2>3, UploadCallTyped DEF UploadInv, UploadTyped
  <2>5. UploadCallOK(c)'
    BY <1>1, <1>2, <2>1, <2>3 DEF UploadCallOK, UploadKnown, UploadMaking
  <2> QED BY <1>1, <1>2, <2>1, <2>3, <2>4, <2>5, UploadCallStep DEF UploadMaking
<1>3. CASE uCall' = [uCall EXCEPT ![c] = U!Idle] /\ UNCHANGED uObject
  <2>1. /\ uCall' \in [Caller -> UploadSlot] /\ uCall'[c] = U!Idle
        /\ \A d \in Caller : d # c => uCall'[d] = uCall[d]
    BY <1>3, UploadIdleTyped, UploadCallWrite DEF UploadInv
  <2>2. UploadTyped'
    BY <1>1, <1>3, <2>1 DEF UploadInv, UploadTyped
  <2>3. UploadCallOK(c)'
    BY <2>1, UploadIdleTyped DEF UploadCallOK, UploadMaking
  <2> QED BY <1>1, <1>3, <2>1, <2>2, <2>3, UploadIdleTyped, UploadCallStep DEF UploadMaking
<1> QED BY <1>2, <1>3 DEF U!StoreObject

LEMMA UploadPersistFailsStep == ASSUME UploadInv, NEW c \in Caller, U!PersistFails(c) PROVE UploadInv'
<1>1. /\ uCall[c] \in UploadSlot /\ uCall[c].at = "persist" /\ UploadCallOK(c) /\ uFaults' = uFaults + 1
      /\ UNCHANGED <<uRow, uObject, uStat, uTwice, uTaken>> /\ uCall' = [uCall EXCEPT ![c].at = "failed"]
  BY UploadCallTyped DEF UploadInv, U!PersistFails
<1> DEFINE s == [uCall[c] EXCEPT !.at = "failed"]
<1>2. s \in UploadSlot /\ s.at = "failed" /\ s.up = uCall[c].up /\ s.path = uCall[c].path
  BY <1>1 DEF UploadSlot
<1>3. uCall' = [uCall EXCEPT ![c] = s]
  BY <1>1
<1> HIDE DEF s
<1>4. /\ uCall' \in [Caller -> UploadSlot] /\ uCall'[c] = s
      /\ \A d \in Caller : d # c => uCall'[d] = uCall[d]
  BY <1>2, <1>3, UploadCallWrite DEF UploadInv
<1>5. UploadTyped'
  BY <1>1, <1>4 DEF UploadInv, UploadTyped
<1>6. UploadCallOK(c)'
  BY <1>1, <1>2, <1>4 DEF UploadCallOK, UploadKnown, UploadMaking
<1> QED BY <1>1, <1>2, <1>4, <1>5, <1>6, UploadCallStep DEF UploadMaking

\* What a failed call deletes is its own, or is noted as taken from another.
LEMMA UploadDeleteObjectStep == ASSUME UploadInv, NEW c \in Caller, U!DeleteObject(c) PROVE UploadInv'
<1>1. /\ uCall[c] \in UploadSlot /\ uCall[c].at = "failed" /\ UploadCallOK(c) /\ UploadTyped
      /\ UNCHANGED <<uRow, uStat, uTwice, uFaults>>
      /\ uObject' = uObject \ uCall[c].path
      /\ uTaken' = IF uCall[c].path = uCall[c].up THEN uTaken ELSE uTaken \cup uCall[c].path
      /\ uCall' = [uCall EXCEPT ![c] = U!Idle]
  BY UploadCallTyped DEF UploadInv, U!DeleteObject
<1>2. /\ uCall' \in [Caller -> UploadSlot] /\ uCall'[c] = U!Idle
      /\ \A d \in Caller : d # c => uCall'[d] = uCall[d]
  BY <1>1, UploadIdleTyped, UploadCallWrite DEF UploadInv
<1>3. uCall[c].path \in SUBSET Upload
  BY <1>1, UploadCallTyped
<1>4. UploadTyped'
  BY <1>1, <1>2, <1>3 DEF UploadTyped
<1>5. PICK u \in Upload : uCall[c].up = {u} /\ u \notin UploadKnown
  BY <1>1 DEF UploadCallOK, UploadMaking
<1>6. uObject \cup uTaken \subseteq uObject' \cup uTaken' \cup {u}
  BY <1>1, <1>5
<1>7. UploadKnown' = UploadKnown /\ U!Active' = U!Active /\ U!Active \subseteq UploadKnown
  BY <1>1 DEF UploadKnown, U!Active
<1>8. U!UsedIsStored'
  BY <1>1, <1>5, <1>6, <1>7 DEF UploadInv, U!UsedIsStored, UploadPathsOK
<1>9. ASSUME NEW d \in Caller PROVE UploadCallOK(d)'
  <2>1. CASE d = c
    BY <1>2, <2>1, UploadIdleTyped DEF UploadCallOK, UploadMaking
  <2>2. CASE d # c
    <3>1. uCall'[d] = uCall[d] /\ UploadCallOK(d)
      BY <1>2, <2>2 DEF UploadInv
    <3>2. uCall[d].at = "persist" => uCall[d].path \subseteq uObject' \cup uTaken'
      <4> SUFFICES ASSUME uCall[d].at = "persist" PROVE uCall[d].path \subseteq uObject' \cup uTaken'
        OBVIOUS
      <4>1. PICK v \in Upload : uCall[d].up = {v}
        BY <3>1 DEF UploadCallOK, UploadMaking
      <4>2. v # u
        BY <1>1, <1>5, <2>2, <4>1 DEF UploadInv, UploadApart, UploadMaking
      <4>3. u \notin uCall[d].path
        BY <1>5, <3>1, <4>1, <4>2 DEF UploadCallOK, UploadMaking
      <4> QED BY <1>6, <3>1, <4>3 DEF UploadCallOK
    <3> QED BY <1>7, <3>1, <3>2 DEF UploadCallOK
  <2> QED BY <2>1, <2>2
<1>10. UploadApart'
  BY <1>2, UploadIdleTyped DEF UploadInv, UploadApart, UploadMaking
<1>11. UploadPathsOK' /\ UploadCountOK'
  BY <1>1, <1>7 DEF UploadInv, UploadPathsOK, UploadCountOK, U!StatsFollow
<1> QED BY <1>4, <1>8, <1>9, <1>10, <1>11 DEF UploadInv

LEMMA UploadFindRemovedStep ==
  ASSUME UploadInv, NEW c \in Caller, NEW u \in Upload, U!DeleteFile(c, u) \/ U!DeleteMyFile(c, u)
  PROVE  UploadInv'
<1> DEFINE s == [at |-> "remove", up |-> {u}, path |-> {}]
<1>1. s \in UploadSlot
  BY DEF UploadSlot
<1>2. /\ uCall' = [uCall EXCEPT ![c] = s] /\ u \in U!Active
      /\ UNCHANGED <<uRow, uObject, uStat, uTwice, uTaken, uFaults>>
  BY DEF U!DeleteFile, U!DeleteMyFile, U!FindRemoved
<1>3. /\ uCall' \in [Caller -> UploadSlot] /\ uCall'[c] = s
      /\ \A d \in Caller : d # c => uCall'[d] = uCall[d]
  BY <1>1, <1>2, UploadCallWrite DEF UploadInv
<1>4. UploadTyped'
  BY <1>2, <1>3 DEF UploadInv, UploadTyped
<1>5. UploadCallOK(c)'
  BY <1>2, <1>3 DEF UploadCallOK, UploadKnown, U!Active, UploadMaking
<1>6. uCall'[c].at \notin UploadMaking
  BY <1>3 DEF UploadMaking
<1> QED BY <1>2, <1>3, <1>4, <1>5, <1>6, UploadCallStep

\* The row of a new upload and its count.
LEMMA UploadPersistStep == ASSUME UploadInv, NEW c \in Caller, U!Persist(c) PROVE UploadInv'
<1>1. /\ uCall[c] \in UploadSlot /\ uCall[c].at = "persist" /\ UploadCallOK(c) /\ UploadTyped
      /\ UNCHANGED <<uObject, uTwice, uTaken, uFaults>>
      /\ uRow' = [u \in Upload |-> IF u \in uCall[c].up
                                  THEN [status |-> "used", path |-> uCall[c].path] ELSE uRow[u]]
      /\ uStat' = U!Counted(uStat, 1)
      /\ uCall' = [uCall EXCEPT ![c] = U!Idle]
  BY UploadCallTyped DEF UploadInv, U!Persist
<1>2. /\ uCall' \in [Caller -> UploadSlot] /\ uCall'[c] = U!Idle
      /\ \A d \in Caller : d # c => uCall'[d] = uCall[d]
  BY <1>1, UploadIdleTyped, UploadCallWrite DEF UploadInv
<1>3. PICK u \in Upload : uCall[c].up = {u} /\ u \notin UploadKnown
  BY <1>1 DEF UploadCallOK, UploadMaking
<1>4. PICK p \in SUBSET Upload : p = uCall[c].path
  BY <1>1, UploadCallTyped
<1>5. /\ uRow'[u] = [status |-> "used", path |-> p]
      /\ \A v \in Upload : v # u => uRow'[v] = uRow[v]
  BY <1>1, <1>3, <1>4
<1>6. uRow' \in [Upload -> [status : {"none", "used", "deleted"}, path : SUBSET Upload]]
  BY <1>1, <1>4 DEF UploadTyped
<1>7. U!Active' = U!Active \cup {u} /\ UploadKnown' = UploadKnown \cup {u} /\ u \notin U!Active
  BY <1>3, <1>5 DEF U!Active, UploadKnown
<1>8. /\ IsFiniteSet(U!Active') /\ Cardinality(U!Active') = Cardinality(U!Active) + 1
      /\ Cardinality(U!Active) \in Nat
  BY <1>7, FS_AddElement, FS_CardinalityType DEF UploadInv, UploadCountOK
<1>9. uStat.n \in Int /\ uStat'.there /\ uStat'.n = uStat.n + 1 /\ uStat' \in [there : BOOLEAN, n : Int]
  BY <1>1 DEF UploadInv, UploadTyped, UploadCountOK, U!Counted
<1>10. UploadTyped'
  BY <1>1, <1>2, <1>6, <1>9 DEF UploadTyped
<1>11. UploadCountOK'
  BY UploadCard, <1>1, <1>8, <1>9 DEF UploadInv, UploadCountOK, U!StatsFollow
<1>12. p \subseteq uObject \cup uTaken /\ (p = {u} \/ p \subseteq UploadKnown)
  BY <1>1, <1>3, <1>4 DEF UploadCallOK, UploadMaking
<1>13. U!UsedIsStored' /\ UploadPathsOK'
  <2>1. ASSUME NEW v \in U!Active' PROVE uRow'[v].path \subseteq uObject' \cup uTaken'
    BY <1>1, <1>5, <1>7, <1>12, <2>1 DEF UploadInv, U!UsedIsStored, U!Active
  <2>2. ASSUME NEW v \in UploadKnown' PROVE uRow'[v].path \subseteq UploadKnown'
    BY <1>5, <1>7, <1>12, <2>2 DEF UploadInv, UploadPathsOK, UploadKnown
  <2> QED BY <2>1, <2>2 DEF U!UsedIsStored, UploadPathsOK
<1>14. ASSUME NEW d \in Caller PROVE UploadCallOK(d)'
  <2>1. CASE d = c
    BY <1>2, <2>1, UploadIdleTyped DEF UploadCallOK, UploadMaking
  <2>2. CASE d # c
    <3>1. uCall'[d] = uCall[d] /\ UploadCallOK(d)
      BY <1>2, <2>2 DEF UploadInv
    <3>2. uCall[d].at \in UploadMaking => uCall[d].up # {u}
      BY <1>1, <1>3, <2>2 DEF UploadInv, UploadApart, UploadMaking
    <3> QED BY <1>1, <1>7, <3>1, <3>2 DEF UploadCallOK, UploadMaking
  <2> QED BY <2>1, <2>2
<1>15. UploadApart'
  BY <1>2, UploadIdleTyped DEF UploadInv, UploadApart, UploadMaking
<1> QED BY <1>10, <1>11, <1>13, <1>14, <1>15 DEF UploadInv

\* A removal counts its upload off; when another call removed it first, the statistics
\* are low from then on.
LEMMA UploadRemoveStep == ASSUME UploadInv, NEW c \in Caller, U!Remove(c) PROVE UploadInv'
<1>1. /\ uCall[c] \in UploadSlot /\ uCall[c].at = "remove" /\ UploadCallOK(c) /\ UploadTyped
      /\ UNCHANGED <<uObject, uTaken, uFaults>>
      /\ uRow' = [u \in Upload |-> IF u \in uCall[c].up
                                  THEN [uRow[u] EXCEPT !.status = "deleted"] ELSE uRow[u]]
      /\ uStat' = U!Counted(uStat, -1)
      /\ uTwice' = (uTwice \/ ~ (uCall[c].up \subseteq U!Active))
      /\ uCall' = [uCall EXCEPT ![c] = U!Idle]
  BY UploadCallTyped DEF UploadInv, U!Remove
<1>2. /\ uCall' \in [Caller -> UploadSlot] /\ uCall'[c] = U!Idle
      /\ \A d \in Caller : d # c => uCall'[d] = uCall[d]
  BY <1>1, UploadIdleTyped, UploadCallWrite DEF UploadInv
<1>3. PICK u \in Upload : uCall[c].up = {u} /\ u \in UploadKnown
  BY <1>1 DEF UploadCallOK, UploadKnown
<1>4. /\ uRow'[u] \in [status : {"none", "used", "deleted"}, path : SUBSET Upload]
      /\ uRow'[u].status = "deleted" /\ uRow'[u].path = uRow[u].path
      /\ \A v \in Upload : v # u => uRow'[v] = uRow[v]
  <2>1. uRow'[u] = [uRow[u] EXCEPT !.status = "deleted"] /\ \A v \in Upload : v # u => uRow'[v] = uRow[v]
    BY <1>1, <1>3
  <2>2. uRow[u] \in [status : {"none", "used", "deleted"}, path : SUBSET Upload]
    BY <1>1, UploadRowTyped
  <2> QED BY <2>1, <2>2
<1>5. uRow' \in [Upload -> [status : {"none", "used", "deleted"}, path : SUBSET Upload]]
  BY <1>1, <1>4 DEF UploadTyped
<1>6. U!Active' = U!Active \ {u} /\ UploadKnown' = UploadKnown
  BY <1>3, <1>4 DEF U!Active, UploadKnown
<1>7. uStat.n \in Int /\ uStat' \in [there : BOOLEAN, n : Int] /\ uStat'.there
      /\ uStat'.n = IF uStat.there /\ uStat.n - 1 < 0 THEN 0 ELSE uStat.n - 1
  BY <1>1 DEF UploadTyped, U!Counted
<1>8. uTwice' \in BOOLEAN /\ uTwice' = (uTwice \/ u \notin U!Active)
  BY <1>1, <1>3 DEF UploadTyped
<1>9. UploadTyped'
  BY <1>1, <1>2, <1>5, <1>7, <1>8 DEF UploadTyped
<1>10. UploadCountOK'
  <2>1. IsFiniteSet(U!Active) /\ Cardinality(U!Active) \in Nat
    BY FS_CardinalityType DEF UploadInv, UploadCountOK
  <2>2. CASE u \in U!Active
    <3>1. /\ IsFiniteSet(U!Active') /\ Cardinality(U!Active') = Cardinality(U!Active) - 1
          /\ Cardinality(U!Active') \in Nat
      BY <1>6, <2>1, <2>2, FS_RemoveElement, FS_CardinalityType
    <3> QED BY UploadCard, <1>7, <1>8, <2>1, <2>2, <3>1 DEF UploadInv, UploadCountOK, U!StatsFollow
  <2>3. CASE u \notin U!Active
    <3>1. U!Active' = U!Active
      BY <1>6, <2>3
    <3> QED BY UploadCard, <1>7, <1>8, <2>1, <2>3, <3>1 DEF UploadInv, UploadCountOK, U!StatsFollow
  <2> QED BY <2>2, <2>3
<1>11. \A v \in Upload : uRow'[v].path = uRow[v].path
  BY <1>4
<1>12. U!UsedIsStored' /\ UploadPathsOK'
  BY <1>1, <1>6, <1>11 DEF UploadInv, U!UsedIsStored, UploadPathsOK, U!Active, UploadKnown
<1>13. ASSUME NEW d \in Caller PROVE UploadCallOK(d)'
  <2>1. CASE d = c
    BY <1>2, <2>1, UploadIdleTyped DEF UploadCallOK, UploadMaking
  <2>2. CASE d # c
    <3>1. uCall'[d] = uCall[d] /\ UploadCallOK(d)
      BY <1>2, <2>2 DEF UploadInv
    <3> QED BY <1>1, <1>6, <3>1 DEF UploadCallOK, UploadMaking
  <2> QED BY <2>1, <2>2
<1>14. UploadApart'
  BY <1>2, UploadIdleTyped DEF UploadInv, UploadApart, UploadMaking
<1> QED BY <1>9, <1>10, <1>12, <1>13, <1>14 DEF UploadInv

\* The rebuild counts the rows there are.
LEMMA UploadRebuildStep == ASSUME UploadInv, U!RebuildUploadStats PROVE UploadInv'
<1>1. /\ uStat' = [there |-> U!Active # {}, n |-> Cardinality(U!Active)] /\ uTwice' = FALSE
      /\ UNCHANGED <<uRow, uObject, uCall, uTaken, uFaults>>
  BY UploadCard DEF U!RebuildUploadStats
<1>2. U!Active' = U!Active /\ UploadKnown' = UploadKnown
  BY <1>1 DEF U!Active, UploadKnown
<1>3. IsFiniteSet(U!Active) /\ Cardinality(U!Active) \in Nat
      /\ (U!Active = {} => Cardinality(U!Active) = 0)
  BY FS_CardinalityType, FS_EmptySet DEF UploadInv, UploadCountOK
<1>4. PICK n \in Nat, there \in BOOLEAN :
        n = Cardinality(U!Active) /\ there = (U!Active # {}) /\ (~ there => n = 0)
  BY <1>3, (U!Active # {}) \in BOOLEAN
<1>5. uStat' = [there |-> there, n |-> n] /\ uStat'.n = n /\ uStat'.there = there
  BY <1>1, <1>4
<1>8. UploadTyped'
  <2>0. n \in Int
    OBVIOUS
  <2>3. uTwice' = FALSE
    BY Zenon DEF U!RebuildUploadStats
  <2>1. uStat' \in [there : BOOLEAN, n : Int]
    BY <1>5, <2>0, there \in BOOLEAN, Zenon
  <2>2. UploadTyped
    BY DEF UploadInv
  <2> QED BY <1>1, <2>1, <2>2, <2>3 DEF UploadTyped
<1>9. UploadCountOK'
  <2>1. Cardinality(U!Active)' = n /\ IsFiniteSet(U!Active')
    BY <1>2, <1>3, <1>4
  <2> QED BY UploadCard, <1>4, <1>5, <2>1 DEF UploadCountOK, U!StatsFollow
<1>6. \A c \in Caller : UploadCallOK(c)'
  BY <1>1, <1>2 DEF UploadInv, UploadCallOK
<1>7. UploadApart' /\ UploadPathsOK' /\ U!UsedIsStored'
  BY <1>1, <1>2 DEF UploadInv, UploadApart, UploadPathsOK, U!UsedIsStored
<1> QED BY <1>6, <1>7, <1>8, <1>9 DEF UploadInv

LEMMA UploadInitHolds == U!Init => UploadInv
<1> SUFFICES ASSUME U!Init PROVE UploadInv
  OBVIOUS
<1>1. U!Active = {} /\ UploadKnown = {}
  BY DEF U!Init, U!Active, UploadKnown
<1>2. UploadTyped
  <2>1. uRow \in [Upload -> [status : {"none", "used", "deleted"}, path : SUBSET Upload]]
    BY DEF U!Init
  <2>2. uCall \in [Caller -> UploadSlot]
    BY UploadIdleTyped DEF U!Init
  <2>3. uStat \in [there : BOOLEAN, n : Int] /\ uObject \in SUBSET Upload /\ uTaken \in SUBSET Upload
    BY DEF U!Init
  <2> QED BY <2>1, <2>2, <2>3 DEF U!Init, UploadTyped
<1>3. UploadCountOK
  BY UploadCard, <1>1, FS_EmptySet DEF U!Init, UploadCountOK, U!StatsFollow
<1>4. ASSUME NEW c \in Caller PROVE UploadCallOK(c) /\ uCall[c].at \notin UploadMaking
  BY UploadIdleTyped DEF U!Init, UploadCallOK, UploadMaking
<1> QED BY <1>1, <1>2, <1>3, <1>4 DEF UploadInv, UploadApart, UploadPathsOK, U!UsedIsStored

LEMMA UploadNextKeeps == UploadInv /\ [U!Next]_(U!vars) => UploadInv'
<1> SUFFICES ASSUME UploadInv, [U!Next]_(U!vars) PROVE UploadInv'
  OBVIOUS
<1>1. ASSUME NEW c \in Caller,
             \/ U!StoreObject(c) \/ U!Persist(c) \/ U!PersistFails(c) \/ U!DeleteObject(c) \/ U!Remove(c)
      PROVE  UploadInv'
  BY <1>1, UploadStoreObjectStep, UploadPersistStep, UploadPersistFailsStep, UploadDeleteObjectStep, UploadRemoveStep
<1>2. ASSUME NEW c \in Caller, NEW u \in Upload,
             \/ U!UploadFile(c, u) \/ U!MirrorFile(c, u) \/ U!DeleteFile(c, u) \/ U!DeleteMyFile(c, u)
      PROVE  UploadInv'
  BY <1>2, UploadFileStep, UploadFindRemovedStep
<1>3. CASE UNCHANGED U!vars
  BY <1>3 DEF U!vars, UploadInv, UploadTyped, UploadCallOK, UploadApart, UploadPathsOK, UploadCountOK, U!StatsFollow, U!UsedIsStored,
              U!Active, UploadKnown
<1> QED BY <1>1, <1>2, <1>3, UploadRebuildStep DEF U!Next

\* The inductive invariant: a call that makes an upload has an identifier of its own
\* and names its own object or one of an upload there has been, and the counter is
\* below the rows by no more than the removals counted twice.
THEOREM UploadInvariant == U!Spec => []UploadInv
<1>1. U!Init => UploadInv
  BY UploadInitHolds
<1>2. UploadInv /\ [U!Next]_(U!vars) => UploadInv'
  BY UploadNextKeeps
<1> QED BY <1>1, <1>2, PTL DEF U!Spec

LEMMA UploadRuns == SuiteSpec => U!Spec
<1>1. SuiteInit => U!Init
  BY DEF SuiteInit
<1>2. [SuiteNext]_allVars => [U!Next]_(U!vars)
  BY DEF SuiteNext, allVars, uploadVars, U!vars
<1> QED BY <1>1, <1>2, PTL DEF SuiteSpec, U!Spec

\* The faults that are counted stay within their bound.
UploadFaults == uFaults \in 0 .. MaxFaults

LEMMA UploadFaultsBounded == U!Spec => []UploadFaults
<1>0. MaxFaults \in Nat
  BY ConstantsFit DEF U!UploadAssumption
<1>1. U!Init => UploadFaults
  BY <1>0 DEF U!Init, UploadFaults
<1>2. UploadFaults /\ [U!Next]_(U!vars) => UploadFaults'
  <2> SUFFICES ASSUME UploadFaults, [U!Next]_(U!vars) PROVE UploadFaults'
    OBVIOUS
  <2>1. ASSUME NEW c \in Caller, U!PersistFails(c) PROVE UploadFaults'
    BY <1>0, <2>1 DEF U!PersistFails, UploadFaults
  <2>2. CASE UNCHANGED U!vars
    BY <2>2 DEF U!vars, UploadFaults
  <2>3. CASE uFaults' = uFaults
    BY <2>3 DEF UploadFaults
  <2>4. U!RebuildUploadStats => uFaults' = uFaults
    BY DEF U!RebuildUploadStats
  <2>5. ASSUME NEW c \in Caller,
               \/ U!StoreObject(c) \/ U!Persist(c) \/ U!DeleteObject(c) \/ U!Remove(c)
               \/ \E u \in Upload : \/ U!UploadFile(c, u) \/ U!MirrorFile(c, u)
                                    \/ U!DeleteFile(c, u) \/ U!DeleteMyFile(c, u)
        PROVE  uFaults' = uFaults
    BY <2>5 DEF U!StoreObject, U!Persist, U!DeleteObject, U!Remove, U!UploadFile, U!MirrorFile,
       U!DeleteFile, U!DeleteMyFile, U!IngestNew, U!IngestDedup, U!FindRemoved
  <2> QED BY <2>1, <2>2, <2>3, <2>4, <2>5 DEF U!Next
<1> QED BY <1>1, <1>2, PTL DEF U!Spec

\* In the typed states of the proof the counter is no more than the rows there are.
LEMMA UploadTypeCorrect == ASSUME UploadInv, UploadFaults PROVE U!TypeOK
<1>1. IsFiniteSet(Upload)
  BY ConstantsFit, Zenon DEF U!UploadAssumption, U!IsFiniteSet, IsFiniteSet
<1>2. U!Active \subseteq Upload
  BY DEF U!Active
<1>3. Cardinality(U!Active) <= Cardinality(Upload) /\ Cardinality(Upload) \in Nat
      /\ Cardinality(U!Active) \in Nat
  BY <1>1, <1>2, FS_Subset, FS_CardinalityType
<1>4. /\ uStat.n >= -1 /\ uStat.n <= Cardinality(U!Active)
      /\ uStat \in [there : BOOLEAN, n : Int]
  BY UploadCard DEF UploadInv, UploadTyped, UploadCountOK, U!StatsFollow
<1>5. uStat.n \in -1 .. Cardinality(Upload)
  <2>1. uStat.n \in Int /\ uStat.n <= Cardinality(Upload)
    BY <1>3, <1>4
  <2> QED BY <2>1, <1>3, <1>4
<1>6. uStat.n \in -1 .. U!Cardinality(Upload)
  BY <1>5, UploadCard
<1>7. uStat \in [there : BOOLEAN, n : -1 .. U!Cardinality(Upload)]
  <2> DEFINE N == -1 .. U!Cardinality(Upload)
  <2>1. uStat.n \in N
    BY <1>6
  <2> HIDE DEF N
  <2>2. uStat \in [there : BOOLEAN, n : N]
    BY <1>4, <2>1
  <2> QED BY <2>2 DEF N
<1> QED BY <1>7 DEF UploadInv, UploadTyped, UploadSlot, UploadFaults, U!TypeOK

\* For any number of uploads, calls and failures the statistics of
\* src/internal/apps/upload/stats count every upload in use once, but for uploads that
\* two removals took at a time, and never more than there are.
THEOREM CountsFollow == SuiteSpec => []StatsFollow
<1>1. UploadInv => StatsFollow
  BY DEF UploadInv, UploadCountOK, StatsFollow
<1> QED BY <1>1, UploadRuns, UploadInvariant, PTL

\* For any number of uploads, calls and failures, the object of an upload in use is
\* there unless a failed upload that shared it took it away
\* (src/internal/apps/upload/ingest/helpers.go).
THEOREM UsedStaysStored == SuiteSpec => []UsedIsStored
<1>1. UploadInv /\ UploadFaults => UsedIsStored
  BY UploadTypeCorrect DEF UploadInv, UsedIsStored
<1> QED BY <1>1, UploadRuns, UploadInvariant, UploadFaultsBounded, PTL

-----------------------------------------------------------------------------
(* Images in the cache *)

\* Who looks, reads or keeps is the one that leads, and has found nothing kept.
ImageLed ==
  \A r \in Request :
    /\ iReq[r] \in {"look", "read", "store"} => iFlight = {r}
    /\ iReq[r] \in {"read", "store"} => ~iEntry

\* None waits when nobody leads.
ImageAwaited == iFlight = {} => \A r \in Request : iReq[r] # "wait"

ImageInv == I!TypeOK /\ ImageLed /\ ImageAwaited

\* A request that only moves on.
LEMMA ImageGoto ==
  ASSUME I!TypeOK, NEW r \in Request,
         NEW here \in {"idle", "cache", "flight", "wait", "look", "read", "store", "original"},
         I!Goto(r, here)
  PROVE  /\ iReq' \in [Request -> {"idle", "cache", "flight", "wait", "look", "read", "store", "original"}]
         /\ iReq'[r] = here
         /\ \A q \in Request : q # r => iReq'[q] = iReq[q]
  BY DEF I!TypeOK, I!Goto

\* Requests that end, and those that go on with the original.
LEMMA ImageAnswer ==
  ASSUME I!TypeOK, NEW rs \in SUBSET Request,
         NEW a \in {"none", "webp", "original", "not modified", "error"}, I!Answer(rs, a)
  PROVE  /\ iReq' \in [Request -> {"idle", "cache", "flight", "wait", "look", "read", "store", "original"}]
         /\ iAnswer' \in [Request -> {"none", "webp", "original", "not modified", "error"}]
         /\ \A q \in Request : iReq'[q] = IF q \in rs THEN "idle" ELSE iReq[q]
  BY DEF I!TypeOK, I!Answer

\* The one that leads ends, with what it made or with an error.
LEMMA ImageReturn ==
  ASSUME ImageInv, NEW r \in Request, iReq[r] \in {"look", "read", "store"},
         I!ReturnWebP(r) \/ I!ReturnError(r), iLeft' = iLeft, iEntry' \in BOOLEAN
  PROVE  ImageInv'
<1>1. /\ iFlight = {r} /\ iFlight' = {} /\ I!TypeOK
      /\ I!Waiting(r) \in SUBSET Request
  BY DEF ImageInv, ImageLed, I!ReturnWebP, I!ReturnError, I!Waiting
<1>2. /\ iReq' \in [Request -> {"idle", "cache", "flight", "wait", "look", "read", "store", "original"}]
      /\ iAnswer' \in [Request -> {"none", "webp", "original", "not modified", "error"}]
      /\ \A q \in Request : q \in I!Waiting(r) => iReq'[q] \in {"idle", "original"}
      /\ \A q \in Request : q \notin I!Waiting(r) => iReq'[q] = iReq[q]
  <2>1. CASE I!ReturnWebP(r)
    BY <1>1, <2>1, ImageAnswer DEF I!ReturnWebP
  <2>2. CASE I!ReturnError(r)
    BY <1>1, <2>2 DEF I!ReturnError, I!TypeOK
  <2> QED BY <2>1, <2>2
<1>3. \A q \in Request : iReq'[q] \notin {"wait", "look", "read", "store"}
  <2> SUFFICES ASSUME NEW q \in Request, q \notin I!Waiting(r)
               PROVE  iReq[q] \notin {"wait", "look", "read", "store"}
    BY <1>2
  <2> QED BY <1>1 DEF I!Waiting, ImageInv, ImageLed
<1> QED BY <1>1, <1>2, <1>3 DEF ImageInv, ImageLed, ImageAwaited, I!TypeOK

\* One step of one request.
LEMMA ImageServe == ASSUME ImageInv, NEW r \in Request, I!Serve(r) PROVE ImageInv'
<1>0. I!TypeOK /\ ImageLed /\ ImageAwaited
  BY DEF ImageInv
<1>1. CASE I!NotModified(r)
  BY <1>0, <1>1, ImageAnswer DEF I!NotModified, ImageInv, ImageLed, ImageAwaited, I!TypeOK
<1>2. CASE I!EnsureCompressedImageCache(r)
  <2>1. CASE I!Answer({r}, "webp")
    BY <1>0, <1>2, <2>1, ImageAnswer
       DEF I!EnsureCompressedImageCache, ImageInv, ImageLed, ImageAwaited, I!TypeOK
  <2>2. CASE I!Goto(r, "flight") /\ UNCHANGED iAnswer
    BY <1>0, <1>2, <2>2, ImageGoto
       DEF I!EnsureCompressedImageCache, ImageInv, ImageLed, ImageAwaited, I!TypeOK
  <2>3. CASE I!Goto(r, "original") /\ UNCHANGED iAnswer
    BY <1>0, <1>2, <2>3, ImageGoto
       DEF I!EnsureCompressedImageCache, ImageInv, ImageLed, ImageAwaited, I!TypeOK
  <2> QED BY <1>2, <2>1, <2>2, <2>3 DEF I!EnsureCompressedImageCache
<1>3. CASE I!Join(r)
  BY <1>0, <1>3, ImageGoto DEF I!Join, ImageInv, ImageLed, ImageAwaited, I!TypeOK
<1>4. CASE I!Lead(r)
  BY <1>0, <1>4, ImageGoto DEF I!Lead, ImageInv, ImageLed, ImageAwaited, I!TypeOK
<1>5. CASE I!LookAgain(r)
  <2>1. CASE ~iEntry /\ I!Goto(r, "read") /\ UNCHANGED <<iFlight, iAnswer>>
    BY <1>0, <1>5, <2>1, ImageGoto DEF I!LookAgain, ImageInv, ImageLed, ImageAwaited, I!TypeOK
  <2>2. CASE I!ReturnWebP(r) \/ I!ReturnError(r)
    BY <1>0, <1>5, <2>2, ImageReturn DEF I!LookAgain, I!TypeOK
  <2> QED BY <1>5, <2>1, <2>2 DEF I!LookAgain
<1>6. CASE I!GenerateCompressedImage(r)
  <2>1. CASE I!Goto(r, "store") /\ UNCHANGED <<iFlight, iAnswer>>
    BY <1>0, <1>6, <2>1, ImageGoto
       DEF I!GenerateCompressedImage, ImageInv, ImageLed, ImageAwaited, I!TypeOK
  <2>2. CASE I!ReturnError(r)
    BY <1>0, <1>6, <2>2, ImageReturn DEF I!GenerateCompressedImage, I!TypeOK
  <2> QED BY <1>6, <2>1, <2>2 DEF I!GenerateCompressedImage
<1>7. CASE I!StoreCompressedImage(r)
  BY <1>0, <1>7, ImageReturn DEF I!StoreCompressedImage, I!TypeOK
<1>8. CASE I!ServeOriginal(r)
  <2>1. PICK a \in {"original", "error"} : I!Answer({r}, a)
    BY <1>8 DEF I!ServeOriginal
  <2> QED BY <1>0, <1>8, <2>1, ImageAnswer
             DEF I!ServeOriginal, ImageInv, ImageLed, ImageAwaited, I!TypeOK
<1> QED BY <1>1, <1>2, <1>3, <1>4, <1>5, <1>6, <1>7, <1>8 DEF I!Serve

LEMMA ImageStep == ASSUME ImageInv, [I!Next]_(I!vars) PROVE ImageInv'
<1>0. I!TypeOK /\ ImageLed /\ ImageAwaited
  BY DEF ImageInv
<1>1. CASE UNCHANGED I!vars
  BY <1>0, <1>1 DEF I!vars, ImageInv, ImageLed, ImageAwaited, I!TypeOK
<1>2. CASE I!Evict
  BY <1>0, <1>2 DEF I!Evict, ImageInv, ImageLed, ImageAwaited, I!TypeOK
<1>3. ASSUME NEW r \in Request, I!ServeFileByID(r) PROVE ImageInv'
  <2>1. iReq[r] = "idle" /\ iLeft' \in SUBSET Request /\ UNCHANGED <<iEntry, iFlight>>
    BY <1>0, <1>3 DEF I!ServeFileByID, I!TypeOK
  <2>2. CASE I!Answer({r}, "error")
    BY <1>0, <2>1, <2>2, ImageAnswer DEF ImageInv, ImageLed, ImageAwaited, I!TypeOK
  <2>3. ASSUME NEW here \in {"cache", "original"},
               I!Goto(r, here), iAnswer' = [iAnswer EXCEPT ![r] = "none"]
        PROVE ImageInv'
    BY <1>0, <2>1, <2>3, ImageGoto DEF ImageInv, ImageLed, ImageAwaited, I!TypeOK
  <2> QED BY <1>3, <2>2, <2>3 DEF I!ServeFileByID
<1>4. ASSUME NEW r \in Request, I!Leave(r) PROVE ImageInv'
  BY <1>0, <1>4 DEF I!Leave, ImageInv, ImageLed, ImageAwaited, I!TypeOK
<1> QED BY <1>1, <1>2, <1>3, <1>4, ImageServe DEF I!Next

\* The inductive invariant: the one that leads is the only one to make the image.
THEOREM ImageInvariant == I!Spec => []ImageInv
<1>1. I!Init => ImageInv
  BY DEF I!Init, ImageInv, ImageLed, ImageAwaited, I!TypeOK
<1>2. ImageInv /\ [I!Next]_(I!vars) => ImageInv'
  BY ImageStep
<1> QED BY <1>1, <1>2, PTL DEF I!Spec

LEMMA ImageRuns == SuiteSpec => I!Spec
<1>1. SuiteInit => I!Init
  BY DEF SuiteInit
<1>2. [SuiteNext]_allVars => [I!Next]_(I!vars)
  BY DEF SuiteNext, allVars, imageVars, I!vars
<1> QED BY <1>1, <1>2, PTL DEF SuiteSpec, I!Spec

\* However many requests for an image come, are answered and leave, what is in the
\* cache is not made again, and none waits for nobody (file_server.go:220).
THEOREM ImageMadeOnce == SuiteSpec => []MadeOnce
<1>1. ImageInv => MadeOnce
  BY DEF ImageInv, ImageLed, ImageAwaited, MadeOnce, I!MadeOnce
<1> QED BY <1>1, ImageRuns, ImageInvariant, PTL
-----------------------------------------------------------------------------
(* What the disk cache serves *)

DiskCall == [at   : {"idle", "read", "bump", "drop", "check", "done"},
             key  : {{}} \cup {{k} : k \in Cached},
             data : {{}} \cup {{v} : v \in Value \cup {0}}]

DiskTyped ==
  /\ dFile \in [Cached -> D!Entry] /\ dItem \in [Cached -> D!Entry]
  /\ dGet \in [Reader -> DiskCall] /\ dSeen \in [Reader -> SUBSET (Value \cup {0})]

\* Whoever began to read a key has seen all that its file held since.
DiskReads(r) ==
  /\ dGet[r].at # "idle" => \A k \in Cached : dGet[r].key = {k} => dFile[k].value \subseteq dSeen[r]
  /\ dGet[r].data \subseteq dSeen[r]

\* The file of a key that is tracked is gone or is the one that is tracked.
DiskTracks(k) == dItem[k].value # {} => dFile[k].value \subseteq dItem[k].value

DiskInv == DiskTyped /\ (\A r \in Reader : DiskReads(r)) /\ (\A k \in Cached : DiskTracks(k))

LEMMA DiskNone == D!None \in D!Entry /\ D!None.value = {}
  BY DEF D!None, D!Entry

\* Files and items change, the calls do not: the calls have seen the new files.
LEMMA DiskWritten ==
  ASSUME DiskInv, dFile' \in [Cached -> D!Entry], dItem' \in [Cached -> D!Entry],
         \A k \in Cached : dItem'[k].value # {} => dFile'[k].value \subseteq dItem'[k].value,
         dSeen' \in [Reader -> SUBSET (Value \cup {0})], \A r \in Reader : dSeen[r] \subseteq dSeen'[r],
         \A r \in Reader, k \in Cached :
           dGet[r].key = {k} => dFile'[k].value \subseteq dFile[k].value \cup dSeen'[r],
         UNCHANGED dGet
  PROVE  DiskInv'
  BY DEF DiskInv, DiskTyped, DiskReads, DiskTracks

\* Keys are erased and forgotten, perhaps not all of their files.
LEMMA DiskErases ==
  ASSUME NEW f \in [Cached -> D!Entry], NEW i \in [Cached -> D!Entry], NEW S, NEW l, NEW t, NEW o, NEW n,
         \A k \in Cached : i[k].value # {} => f[k].value \subseteq i[k].value,
         D!Erase(f, S, l, t), D!Forget(i, S, o, n)
  PROVE  /\ dFile' \in [Cached -> D!Entry] /\ dItem' \in [Cached -> D!Entry]
         /\ \A k \in Cached : dItem'[k].value # {} => dFile'[k].value \subseteq dItem'[k].value
         /\ \A k \in Cached : dFile'[k].value \subseteq f[k].value
<1>1. PICK left : dFile' = [k \in Cached |-> IF k \in S \ left THEN D!None ELSE f[k]]
  BY DEF D!Erase
<1>2. dItem' = [k \in Cached |-> IF k \in S THEN D!None ELSE i[k]]
  BY DEF D!Forget
<1> QED BY <1>1, <1>2, DiskNone

LEMMA DiskForgets ==
  ASSUME DiskInv, NEW S, D!Erase(dFile, S, dLeaked, dTorn), D!Forget(dItem, S, dOrder, dSize), UNCHANGED dSeen
  PROVE  /\ dFile' \in [Cached -> D!Entry] /\ dItem' \in [Cached -> D!Entry]
         /\ \A k \in Cached : DiskTracks(k)' /\ dFile'[k].value \subseteq dFile[k].value
<1>1. PICK f \in [Cached -> D!Entry], i \in [Cached -> D!Entry],
           l \in {dLeaked}, t \in {dTorn}, o \in {dOrder}, n \in {dSize} :
        f = dFile /\ i = dItem /\ l = dLeaked /\ t = dTorn /\ o = dOrder /\ n = dSize
  BY DEF DiskInv, DiskTyped
<1>2. \A k \in Cached : i[k].value # {} => f[k].value \subseteq i[k].value
  BY <1>1 DEF DiskInv, DiskTracks
<1> QED BY <1>1, <1>2, DiskErases DEF DiskTracks

\* A call goes on with files that are as they were, or smaller.
LEMMA DiskOnGet ==
  ASSUME DiskInv, NEW r \in Reader, NEW x \in DiskCall, dGet' = [dGet EXCEPT ![r] = x],
         dFile' \in [Cached -> D!Entry], dItem' \in [Cached -> D!Entry],
         \A k \in Cached : DiskTracks(k)' /\ dFile'[k].value \subseteq dFile[k].value,
         NEW s \in SUBSET (Value \cup {0}), dSeen' = [dSeen EXCEPT ![r] = s],
         x.at # "idle" => \A k \in Cached : x.key = {k} => dFile'[k].value \subseteq s,
         x.data \subseteq s
  PROVE  DiskInv'
<1>1. /\ dGet' \in [Reader -> DiskCall] /\ dGet'[r] = x /\ dSeen'[r] = s
      /\ dSeen' \in [Reader -> SUBSET (Value \cup {0})]
      /\ \A q \in Reader : q # r => dGet'[q] = dGet[q] /\ dSeen'[q] = dSeen[q]
  BY DEF DiskInv, DiskTyped
<1>2. ASSUME NEW q \in Reader PROVE DiskReads(q)'
  <2>1. CASE q = r
    BY <1>1, <2>1 DEF DiskReads
  <2>2. CASE q # r
    BY <1>1, <2>2 DEF DiskReads, DiskInv
  <2> QED BY <2>1, <2>2
<1> QED BY <1>1, <1>2 DEF DiskInv, DiskTyped

LEMMA DiskStep == ASSUME DiskInv, [D!Next]_(D!vars) PROVE DiskInv'
<1>0. /\ DiskTyped /\ (\A r \in Reader : DiskReads(r)) /\ (\A k \in Cached : DiskTracks(k))
      /\ dFile \in [Cached -> D!Entry] /\ dItem \in [Cached -> D!Entry]
      /\ \A r \in Reader : dGet[r] \in DiskCall /\ dSeen[r] \in SUBSET (Value \cup {0})
  BY DEF DiskInv, DiskTyped
<1>00. /\ D!Idle \in DiskCall /\ D!Idle.at = "idle" /\ D!Idle.data = {}
       /\ dSeen = [r \in Reader |-> dSeen[r]]
  BY <1>0 DEF D!Idle, DiskCall, DiskTyped
<1>1. CASE UNCHANGED D!vars
  BY <1>0, <1>1 DEF D!vars, DiskInv, DiskTyped, DiskReads, DiskTracks
<1>2. ASSUME NEW S, D!Erase(dFile, S, dLeaked, dTorn), D!Forget(dItem, S, dOrder, dSize),
             UNCHANGED <<dGet, dSeen>>
      PROVE  DiskInv'
  <2>1. /\ dFile' \in [Cached -> D!Entry] /\ dItem' \in [Cached -> D!Entry]
        /\ \A k \in Cached : DiskTracks(k)' /\ dFile'[k].value \subseteq dFile[k].value
    BY <1>2, DiskForgets
  <2> QED BY <1>0, <1>2, <2>1, DiskWritten DEF DiskTracks, DiskTyped
<1>3. ASSUME NEW k \in Cached, NEW v \in Value, D!Set(k, v) PROVE DiskInv'
  <2> DEFINE e == [value |-> {v}, past |-> FALSE]
  <2>1. e \in D!Entry /\ e.value = {v}
    BY DEF D!Entry
  <2> HIDE DEF e
  <2>2. PICK S, n : /\ D!Erase([dFile EXCEPT ![k] = e], S, dLeaked \ {k}, dTorn \ {k})
                    /\ D!Forget([dItem EXCEPT ![k] = e], S, D!Front(k), n)
    BY <1>3 DEF D!Set, e
  <2>3. PICK f \in [Cached -> D!Entry], i \in [Cached -> D!Entry],
             l \in {dLeaked \ {k}}, t \in {dTorn \ {k}}, o \in {D!Front(k)} :
          /\ f = [dFile EXCEPT ![k] = e] /\ i = [dItem EXCEPT ![k] = e]
          /\ l = dLeaked \ {k} /\ t = dTorn \ {k} /\ o = D!Front(k)
    BY <1>0, <2>1
  <2>4. D!Erase(f, S, l, t) /\ D!Forget(i, S, o, n)
    BY <2>2, <2>3
  <2>5. \A x \in Cached : /\ i[x].value # {} => f[x].value \subseteq i[x].value
                          /\ x # k => f[x] = dFile[x]
                          /\ f[k].value = {v}
    BY <1>0, <2>1, <2>3 DEF DiskTracks
  <2>6. /\ dFile' \in [Cached -> D!Entry] /\ dItem' \in [Cached -> D!Entry]
        /\ \A x \in Cached : dItem'[x].value # {} => dFile'[x].value \subseteq dItem'[x].value
        /\ \A x \in Cached : dFile'[x].value \subseteq f[x].value
    BY <2>4, <2>5, DiskErases
  <2>7. UNCHANGED dGet /\ dSeen' = [r \in Reader |-> IF dGet[r].key = {k} THEN dSeen[r] \cup {v} ELSE dSeen[r]]
    BY <1>3 DEF D!Set, D!Saw
  <2>8. /\ dSeen' \in [Reader -> SUBSET (Value \cup {0})] /\ \A r \in Reader : dSeen[r] \subseteq dSeen'[r]
        /\ \A r \in Reader : dGet[r].key = {k} => v \in dSeen'[r]
    BY <1>0, <2>7
  <2>9. \A r \in Reader, x \in Cached :
           dGet[r].key = {x} => dFile'[x].value \subseteq dFile[x].value \cup dSeen'[r]
    BY <2>5, <2>6, <2>8
  <2> QED BY <2>6, <2>7, <2>8, <2>9, DiskWritten
<1>4. ASSUME NEW k \in Cached, D!SetFails(k) PROVE DiskInv'
  <2>1. dFile' = [dFile EXCEPT ![k] = D!None] /\ UNCHANGED <<dItem, dGet, dSeen>>
    BY <1>4 DEF D!SetFails
  <2>2. /\ dFile' \in [Cached -> D!Entry] /\ \A x \in Cached : dFile'[x].value \subseteq dFile[x].value
    BY <1>0, <2>1, DiskNone
  <2> QED BY <1>0, <2>1, <2>2, DiskWritten DEF DiskTracks, DiskTyped
<1>5. ASSUME NEW k \in Cached, D!Expire(k) PROVE DiskInv'
  <2>1. /\ dItem' = [dItem EXCEPT ![k] = [dItem[k] EXCEPT !.past = TRUE]] /\ UNCHANGED <<dGet, dSeen>>
        /\ dFile' = [dFile EXCEPT ![k] = [dFile[k] EXCEPT !.past = (k \in D!OnDisk)]]
    BY <1>0, <1>5 DEF D!Expire
  <2>2. \A b \in BOOLEAN, e \in D!Entry : [e EXCEPT !.past = b] \in D!Entry /\ [e EXCEPT !.past = b].value = e.value
    BY DEF D!Entry
  <2>3. /\ [dFile[k] EXCEPT !.past = (k \in D!OnDisk)] \in D!Entry
        /\ [dFile[k] EXCEPT !.past = (k \in D!OnDisk)].value = dFile[k].value
    <3>1. CASE k \in D!OnDisk
      <4>1. (k \in D!OnDisk) = TRUE
        BY <3>1, Zenon
      <4> QED BY <1>0, <2>2, <4>1
    <3>2. CASE k \notin D!OnDisk
      <4>1. (k \in D!OnDisk) = FALSE
        BY <3>2, SMT
      <4> QED BY <1>0, <2>2, <4>1
    <3> QED BY <3>1, <3>2
  <2>4. /\ dItem' \in [Cached -> D!Entry] /\ dFile' \in [Cached -> D!Entry]
        /\ \A x \in Cached : dItem'[x].value = dItem[x].value /\ dFile'[x].value = dFile[x].value
    BY <1>0, <2>1, <2>2, <2>3
  <2> QED BY <1>0, <2>1, <2>4, DiskWritten DEF DiskTracks, DiskTyped
<1>6. ASSUME NEW k \in Cached, D!Delete(k) PROVE DiskInv'
  BY <1>2, <1>6 DEF D!Delete, D!DeleteUnlocked
<1>7. CASE D!Clear
  <2>1. PICK left : dFile' = [k \in Cached |-> IF k \in D!OnDisk \ left THEN D!None ELSE dFile[k]]
    BY <1>7 DEF D!Clear, D!Erase
  <2>2. dItem' = [k \in Cached |-> D!None] /\ UNCHANGED <<dGet, dSeen>>
    BY <1>7 DEF D!Clear
  <2>3. /\ dFile' \in [Cached -> D!Entry] /\ dItem' \in [Cached -> D!Entry]
        /\ \A k \in Cached : dItem'[k].value = {} /\ dFile'[k].value \subseteq dFile[k].value
    BY <1>0, <2>1, <2>2, DiskNone
  <2> QED BY <1>0, <2>2, <2>3, DiskWritten DEF DiskTyped
<1>8. CASE D!CleanExpired
  BY <1>2, <1>8 DEF D!CleanExpired
<1>9. ASSUME NEW max \in Limit, NEW lru \in BOOLEAN, D!UpdatePolicy(max, lru) PROVE DiskInv'
  BY <1>2, <1>9 DEF D!UpdatePolicy
<1>10. ASSUME NEW r \in Reader, NEW k \in Cached, D!GetLook(r, k) PROVE DiskInv'
  <2> DEFINE x == [at |-> IF dItem[k].past THEN "check" ELSE "read", key |-> {k}, data |-> {}]
  <2>1. /\ dGet' = [dGet EXCEPT ![r] = x] /\ dSeen' = [dSeen EXCEPT ![r] = dItem[k].value]
        /\ UNCHANGED <<dFile, dItem>> /\ dItem[k].value # {}
    BY <1>10 DEF D!GetLook, D!Tracked
  <2>2. x \in DiskCall /\ x.key = {k} /\ x.data = {}
    BY DEF DiskCall
  <2> HIDE DEF x
  <2>3. PICK y \in DiskCall : y = x
    BY <2>2
  <2>4. PICK s \in SUBSET (Value \cup {0}) : s = dItem[k].value
    BY <1>0 DEF D!Entry
  <2>5. \A j \in Cached : {k} = {j} => dFile'[j].value \subseteq s
    BY <1>0, <2>1, <2>4 DEF DiskTracks
  <2> QED BY <1>0, <2>1, <2>2, <2>3, <2>4, <2>5, DiskOnGet DEF DiskTracks
<1>11. ASSUME NEW r \in Reader, NEW x \in DiskCall, dGet' = [dGet EXCEPT ![r] = x],
              dFile' \in [Cached -> D!Entry], dItem' \in [Cached -> D!Entry],
              \A k \in Cached : DiskTracks(k)' /\ dFile'[k].value \subseteq dFile[k].value, UNCHANGED dSeen,
              x.at # "idle" => x.key = dGet[r].key /\ dGet[r].at # "idle", x.data \subseteq dSeen[r]
       PROVE  DiskInv'
  <2>1. PICK s \in SUBSET (Value \cup {0}) : s = dSeen[r]
    BY <1>0
  <2>2. dSeen' = [dSeen EXCEPT ![r] = s]
    BY <1>00, <1>11, <2>1
  <2>3. x.at # "idle" => \A k \in Cached : x.key = {k} => dFile'[k].value \subseteq s
    BY <1>0, <1>11, <2>1 DEF DiskReads
  <2> QED BY <1>11, <2>1, <2>2, <2>3, DiskOnGet
<1>12. ASSUME NEW r \in Reader, NEW k \in Cached, D!GetRead(r, k) PROVE DiskInv'
  <2> DEFINE x == [dGet[r] EXCEPT !.at = IF k \in D!OnDisk THEN "bump" ELSE "drop", !.data = dFile[k].value]
  <2>1. /\ dGet' = [dGet EXCEPT ![r] = x] /\ dGet[r].at = "read" /\ dGet[r].key = {k}
        /\ UNCHANGED <<dFile, dItem, dSeen>>
    BY <1>0, <1>12 DEF D!GetRead, DiskTyped
  <2>2. dFile[k].value \in {{}} \cup {{v} : v \in Value \cup {0}}
    BY <1>0 DEF D!Entry
  <2>3. x \in DiskCall /\ x.key = dGet[r].key /\ x.data = dFile[k].value
    BY <1>0, <2>2 DEF DiskCall
  <2> HIDE DEF x
  <2>4. x.data \subseteq dSeen[r]
    BY <1>0, <2>1, <2>3 DEF DiskReads
  <2>5. PICK y \in DiskCall : y = x
    BY <2>3
  <2> QED BY <1>0, <1>11, <2>1, <2>3, <2>4, <2>5 DEF DiskTracks
<1>13. ASSUME NEW r \in Reader, NEW x \in DiskCall, dGet' = [dGet EXCEPT ![r] = x],
              UNCHANGED <<dFile, dItem, dSeen>>,
              \/ x = D!Idle
              \/ x.key = dGet[r].key /\ x.data \subseteq dSeen[r] /\ dGet[r].at # "idle"
       PROVE  DiskInv'
  BY <1>0, <1>00, <1>11, <1>13 DEF DiskTracks
<1>14. ASSUME NEW r \in Reader, NEW k \in Cached, D!GetBump(r, k) PROVE DiskInv'
  <2>1. dGet[r].at = "bump" /\ UNCHANGED <<dFile, dItem, dSeen>>
    BY <1>14 DEF D!GetBump
  <2> DEFINE x == [dGet[r] EXCEPT !.at = "done"]
  <2>2. x \in DiskCall /\ x.key = dGet[r].key /\ x.data = dGet[r].data
    BY <1>0 DEF DiskCall
  <2>3. dGet' = [dGet EXCEPT ![r] = x] \/ dGet' = [dGet EXCEPT ![r] = D!Idle]
    BY <1>0, <1>14 DEF D!GetBump, DiskTyped
  <2> HIDE DEF x
  <2>4. PICK y \in DiskCall : dGet' = [dGet EXCEPT ![r] = y] /\ (y = x \/ y = D!Idle)
    BY <1>00, <2>2, <2>3
  <2> QED BY <1>0, <1>13, <2>1, <2>2, <2>4 DEF DiskReads
<1>15. ASSUME NEW r \in Reader, NEW k \in Cached, D!DeleteUnlocked(k), dGet' = [dGet EXCEPT ![r] = D!Idle],
              UNCHANGED dSeen
       PROVE  DiskInv'
  <2>1. /\ dFile' \in [Cached -> D!Entry] /\ dItem' \in [Cached -> D!Entry]
        /\ \A j \in Cached : DiskTracks(j)' /\ dFile'[j].value \subseteq dFile[j].value
    BY <1>15, DiskForgets DEF D!DeleteUnlocked
  <2> QED BY <1>00, <1>11, <1>15, <2>1
<1>16. ASSUME NEW r \in Reader, NEW k \in Cached, D!GetDrop(r, k) PROVE DiskInv'
  BY <1>00, <1>13, <1>15, <1>16 DEF D!GetDrop
<1>17. ASSUME NEW r \in Reader, NEW k \in Cached, D!GetCheck(r, k) PROVE DiskInv'
  <2>1. dGet[r].at = "check" /\ dGet[r].key = {k} /\ UNCHANGED dSeen
    BY <1>17 DEF D!GetCheck
  <2> DEFINE x == [dGet[r] EXCEPT !.at = "done", !.data = dFile[k].value]
  <2>2. dFile[k].value \in {{}} \cup {{v} : v \in Value \cup {0}}
    BY <1>0 DEF D!Entry
  <2>3. x \in DiskCall /\ x.key = dGet[r].key /\ x.data = dFile[k].value
    BY <1>0, <2>2 DEF DiskCall
  <2>4. \/ D!DeleteUnlocked(k) /\ dGet' = [dGet EXCEPT ![r] = D!Idle]
        \/ UNCHANGED <<dFile, dItem>> /\ (dGet' = [dGet EXCEPT ![r] = x] \/ dGet' = [dGet EXCEPT ![r] = D!Idle])
    BY <1>0, <1>17 DEF D!GetCheck, DiskTyped
  <2> HIDE DEF x
  <2>5. CASE UNCHANGED <<dFile, dItem>> /\ (dGet' = [dGet EXCEPT ![r] = x] \/ dGet' = [dGet EXCEPT ![r] = D!Idle])
    <3>1. PICK y \in DiskCall : dGet' = [dGet EXCEPT ![r] = y] /\ (y = x \/ y = D!Idle)
      BY <1>00, <2>3, <2>5
    <3>2. x.data \subseteq dSeen[r]
      BY <1>0, <2>1, <2>3 DEF DiskReads
    <3> QED BY <1>13, <2>1, <2>3, <2>5, <3>1, <3>2
  <2> QED BY <1>15, <2>1, <2>4, <2>5
<1>18. ASSUME NEW r \in Reader, D!GetReturn(r) PROVE DiskInv'
  BY <1>00, <1>13, <1>18 DEF D!GetReturn
<1>19. ASSUME NEW cut \in SUBSET Cached, D!Restart(cut) PROVE DiskInv'
  <2>1. PICK rest \in {D!None, [value |-> {0}, past |-> FALSE]} :
          dFile' = [k \in Cached |-> IF k \in cut THEN rest ELSE dFile[k]]
    BY <1>19 DEF D!Restart
  <2>2. dItem' = dFile' /\ dGet' = [r \in Reader |-> D!Idle] /\ dSeen' = [r \in Reader |-> {}]
    BY <1>19 DEF D!Restart
  <2>3. rest \in D!Entry
    <3>1. {0} \in {{}} \cup {{v} : v \in Value \cup {0}}
      OBVIOUS
    <3>2. [value |-> {0}, past |-> FALSE] \in D!Entry
      <4> DEFINE W == {{}} \cup {{v} : v \in Value \cup {0}}
      <4>1. D!Entry = [value : W, past : BOOLEAN]
        BY DEF D!Entry
      <4>2. {0} \in W
        BY <3>1
      <4> HIDE DEF W
      <4> QED BY <4>1, <4>2
    <3> QED BY <2>1, <3>2, DiskNone
  <2>4. dFile' \in [Cached -> D!Entry]
    BY <1>0, <2>1, <2>3
  <2> QED BY <1>00, <2>2, <2>4 DEF DiskInv, DiskTyped, DiskReads, DiskTracks
<1> QED BY <1>1, <1>3, <1>4, <1>5, <1>6, <1>7, <1>8, <1>9, <1>10, <1>12, <1>14, <1>16, <1>17, <1>18, <1>19 DEF D!Next

LEMMA DiskInvariant == D!Spec => []DiskInv
<1>1. D!Init => DiskInv
  <2>1. D!Idle \in DiskCall /\ D!Idle.at = "idle" /\ D!Idle.data = {}
    BY DEF D!Idle, DiskCall
  <2> QED BY <2>1, DiskNone DEF D!Init, DiskInv, DiskTyped, DiskReads, DiskTracks
<1>2. DiskInv /\ [D!Next]_(D!vars) => DiskInv'
  BY DiskStep
<1> QED BY <1>1, <1>2, PTL DEF D!Spec

LEMMA DiskRuns == SuiteSpec => D!Spec
<1>1. SuiteInit => D!Init
  BY DEF SuiteInit
<1>2. [SuiteNext]_allVars => [D!Next]_(D!vars)
  BY DEF SuiteNext, allVars, diskVars, D!vars
<1> QED BY <1>1, <1>2, PTL DEF SuiteSpec, D!Spec

\* Get returns a value that was kept for its key while it ran, though it reads the file
\* after it has let go of the lock (src/pkg/cache/disk/cache.go:164).
THEOREM ServedIsKept == SuiteSpec => []ServedWasThere
<1>1. DiskInv => ServedWasThere
  BY DEF DiskInv, DiskReads, ServedWasThere, D!ServedWasThere
<1> QED BY <1>1, DiskRuns, DiskInvariant, PTL
-----------------------------------------------------------------------------
(* The accounts of the disk cache *)

Held(e) == {k \in Cached : e[k].value # {}}
Took(e, S) == UNION {D!Bytes(e, k) : k \in S}

DiskLined(o, K) == o \subseteq K \X K /\ D!Lined(o, K)

\* What is counted, listed and left on the disk is what is tracked, and fits.
DiskAccounts ==
  /\ DiskLined(dOrder, Held(dItem))
  /\ dSize = D!SumSizes(dItem, Cached)
  /\ Held(dFile) \subseteq Held(dItem) \cup dLeaked
  /\ dPolicy \in [max : Limit, lru : BOOLEAN, set : BOOLEAN]
  /\ dPolicy.lru /\ dPolicy.set => dSize <= dPolicy.max
  /\ dLeaked \in SUBSET Cached /\ dTorn \in SUBSET Cached /\ dFaults \in 0 .. MaxFaults

LEMMA DiskConstants ==
  /\ IsFiniteSet(Cached) /\ Value \subseteq Nat /\ MaxFaults \in Nat
  /\ IsFiniteSet(Limit) /\ Limit \subseteq Nat /\ Limit # {}
  /\ \A S : D!Cardinality(S) = Cardinality(S)
<1>1. D!DiskAssumption
  BY ConstantsFit
<1>2. \A S : D!Cardinality(S) = Cardinality(S)
  BY Zenon DEF D!Cardinality, Cardinality
<1>3. \A S : D!IsFiniteSet(S) <=> IsFiniteSet(S)
  BY Zenon DEF D!IsFiniteSet, IsFiniteSet
<1> QED BY <1>1, <1>2, <1>3 DEF D!DiskAssumption

\* An entry takes as many bytes as its value has.
LEMMA DiskBytes ==
  ASSUME NEW e \in [Cached -> D!Entry], NEW k \in Cached
  PROVE  /\ IsFiniteSet(D!Bytes(e, k))
         /\ e[k].value = {} => D!Bytes(e, k) = {}
         /\ \A v : e[k].value = {v} => v \in Nat /\ Cardinality(D!Bytes(e, k)) = v
<1>1. e[k].value = {} \/ \E v \in Value \cup {0} : e[k].value = {v}
  BY DEF D!Entry
<1>2. ASSUME e[k].value = {} PROVE D!Bytes(e, k) = {}
  BY <1>2 DEF D!Bytes
<1>3. ASSUME NEW v, e[k].value = {v} PROVE v \in Nat /\ IsFiniteSet(D!Bytes(e, k)) /\ Cardinality(D!Bytes(e, k)) = v
  <2>1. v \in Nat
    <3>1. v \in Value \cup {0}
      BY <1>1, <1>3
    <3> QED BY <3>1, DiskConstants
  <2>2. D!Bytes(e, k) = {k} \X (1 .. v)
    BY <1>3 DEF D!Bytes
  <2>3. IsFiniteSet({k}) /\ Cardinality({k}) = 1
    BY FS_Singleton
  <2>4. IsFiniteSet(1 .. v) /\ Cardinality(1 .. v) = v
    BY <2>1, FS_Interval
  <2>5. IsFiniteSet({k} \X (1 .. v)) /\ Cardinality({k} \X (1 .. v)) = v
    <3> DEFINE A == {k}
               B == 1 .. v
    <3>1. IsFiniteSet(A) /\ Cardinality(A) = 1 /\ IsFiniteSet(B) /\ Cardinality(B) = v
      BY <2>3, <2>4
    <3> HIDE DEF A, B
    <3>2. IsFiniteSet(A \X B) /\ Cardinality(A \X B) = Cardinality(A) * Cardinality(B)
      BY <3>1, FS_Product
    <3>3. Cardinality(A \X B) = v
      BY <2>1, <3>1, <3>2
    <3> QED BY <3>2, <3>3 DEF A, B
  <2> QED BY <2>1, <2>2, <2>5
<1>4. IsFiniteSet({})
  BY FS_EmptySet
<1> QED BY <1>1, <1>2, <1>3, <1>4

LEMMA DiskSums ==
  ASSUME NEW e \in [Cached -> D!Entry], NEW S \in SUBSET Cached
  PROVE  /\ IsFiniteSet(Took(e, S)) /\ D!SumSizes(e, S) = Cardinality(Took(e, S))
         /\ D!SumSizes(e, S) \in Nat
<1> DEFINE Blocks == {D!Bytes(e, k) : k \in S}
           F == [k \in S |-> D!Bytes(e, k)]
<1>1. IsFiniteSet(S)
  BY DiskConstants, FS_Subset
<1>2. F \in Surjection(S, Blocks)
  BY DEF Surjection
<1>3. IsFiniteSet(Blocks)
  <2> HIDE DEF F, Blocks
  <2> QED BY <1>1, <1>2, FS_Surjection
<1>4. \A R \in Blocks : IsFiniteSet(R)
  BY DiskBytes
<1>5. IsFiniteSet(UNION Blocks)
  <2> HIDE DEF Blocks
  <2> QED BY <1>3, <1>4, FS_UNION
<1>6. Took(e, S) = UNION Blocks /\ D!SumSizes(e, S) = Cardinality(UNION Blocks)
  BY DiskConstants, Zenon DEF Took, D!SumSizes
<1>7. Cardinality(UNION Blocks) \in Nat
  BY <1>5, FS_CardinalityType
<1> QED BY <1>5, <1>6, <1>7

LEMMA DiskSumSplit ==
  ASSUME NEW e \in [Cached -> D!Entry], NEW S \in SUBSET Cached, NEW R \in SUBSET S
  PROVE  D!SumSizes(e, S) = D!SumSizes(e, R) + D!SumSizes(e, S \ R)
<1>1. Took(e, S) = Took(e, R) \cup Took(e, S \ R)
  BY DEF Took
<1>2. Took(e, R) \cap Took(e, S \ R) = {}
  BY DEF Took, D!Bytes
<1>3. R \in SUBSET Cached /\ S \ R \in SUBSET Cached
  OBVIOUS
<1>4. /\ IsFiniteSet(Took(e, R)) /\ D!SumSizes(e, R) = Cardinality(Took(e, R)) /\ D!SumSizes(e, R) \in Nat
      /\ IsFiniteSet(Took(e, S \ R)) /\ D!SumSizes(e, S \ R) = Cardinality(Took(e, S \ R))
      /\ D!SumSizes(e, S \ R) \in Nat /\ D!SumSizes(e, S) = Cardinality(Took(e, S))
  BY <1>3, DiskSums
<1>5. Cardinality(Took(e, S)) = Cardinality(Took(e, R)) + Cardinality(Took(e, S \ R)) - Cardinality({})
  <2> DEFINE A == Took(e, R)
             B == Took(e, S \ R)
  <2>1. Cardinality(A \cup B) = Cardinality(A) + Cardinality(B) - Cardinality(A \cap B)
    <3>1. IsFiniteSet(A) /\ IsFiniteSet(B)
      BY <1>4
    <3> HIDE DEF A, B
    <3> QED BY <3>1, FS_Union
  <2> QED BY <2>1, <1>1, <1>2
<1>6. Cardinality({}) = 0
  BY FS_EmptySet
<1> QED BY <1>4, <1>5, <1>6

LEMMA DiskSumWithout ==
  ASSUME NEW e \in [Cached -> D!Entry], NEW k \in Cached
  PROVE  /\ D!SumSizes(e, Cached) = D!SumSizes(e, {k}) + D!SumSizes(e, Cached \ {k})
         /\ D!SumSizes(e, {k}) \in Nat /\ D!SumSizes(e, Cached \ {k}) \in Nat
<1>1. {k} \in SUBSET Cached /\ Cached \in SUBSET Cached /\ Cached \ {k} \in SUBSET Cached
  OBVIOUS
<1> QED BY <1>1, DiskSumSplit, DiskSums

LEMMA DiskSumSame ==
  ASSUME NEW e, NEW f, NEW S, \A k \in S : e[k].value = f[k].value
  PROVE  D!SumSizes(e, S) = D!SumSizes(f, S)
<1>1. \A k \in S : D!Bytes(e, k) = D!Bytes(f, k)
  BY DEF D!Bytes
<1>2. {D!Bytes(e, k) : k \in S} = {D!Bytes(f, k) : k \in S}
  BY <1>1
<1> QED BY <1>2 DEF D!SumSizes

LEMMA DiskSumNone ==
  ASSUME NEW e \in [Cached -> D!Entry], NEW S \in SUBSET Cached, \A k \in S : e[k].value = {}
  PROVE  D!SumSizes(e, S) = 0
<1>1. Took(e, S) = {}
  BY DiskBytes DEF Took
<1> QED BY <1>1, DiskSums, FS_EmptySet

\* All there is to count is what is held.
LEMMA DiskSumHeld ==
  ASSUME NEW e \in [Cached -> D!Entry]
  PROVE  D!SumSizes(e, Cached) = D!SumSizes(e, Held(e))
<1>1. Held(e) \in SUBSET Cached /\ Cached \ Held(e) \in SUBSET Cached /\ \A k \in Cached \ Held(e) : e[k].value = {}
  BY DEF Held
<1>2. D!SumSizes(e, Cached) = D!SumSizes(e, Held(e)) + D!SumSizes(e, Cached \ Held(e))
  BY <1>1, DiskSumSplit
<1>3. D!SumSizes(e, Cached \ Held(e)) = 0 /\ D!SumSizes(e, Held(e)) \in Nat
  BY <1>1, DiskSumNone, DiskSums
<1> QED BY <1>2, <1>3

-----------------------------------------------------------------------------
LEMMA DiskForgotten ==
  ASSUME NEW i \in [Cached -> D!Entry], NEW S \in SUBSET Cached, NEW o, NEW n, n = D!SumSizes(i, Cached),
         DiskLined(o, Held(i)), D!Forget(i, S, o, n)
  PROVE  /\ Held(dItem') = Held(i) \ S /\ DiskLined(dOrder', Held(dItem'))
         /\ dSize' = D!SumSizes(dItem', Cached) /\ dSize' = n - D!SumSizes(i, S) /\ dSize' \in Nat /\ dSize' <= n
<1>1. /\ dItem' = [k \in Cached |-> IF k \in S THEN D!None ELSE i[k]]
      /\ dOrder' = {p \in o : p[1] \notin S /\ p[2] \notin S} /\ dSize' = n - D!SumSizes(i, S)
  BY DEF D!Forget
<1>2. dItem' \in [Cached -> D!Entry] /\ \A k \in Cached : dItem'[k] = IF k \in S THEN D!None ELSE i[k]
  BY <1>1, DiskNone
<1>3. Held(dItem') = Held(i) \ S
  BY <1>2, DiskNone DEF Held
<1>4. DiskLined(dOrder', Held(dItem'))
  <2>1. dOrder' \subseteq Held(dItem') \X Held(dItem')
    BY <1>1, <1>3 DEF DiskLined
  <2>2. \A k, l \in Held(dItem') : <<k, l>> \in dOrder' <=> <<k, l>> \in o
    BY <1>1, <1>3
  <2>3. Held(dItem') \subseteq Held(i)
    BY <1>3
  <2> HIDE DEF Held
  <2> QED BY <2>1, <2>2, <2>3 DEF DiskLined, D!Lined
<1>5. n = D!SumSizes(i, S) + D!SumSizes(i, Cached \ S)
  BY DiskSumSplit
<1>6. D!SumSizes(i, S) \in Nat /\ D!SumSizes(i, Cached \ S) \in Nat
  BY DiskSums
<1>7. D!SumSizes(dItem', Cached) = D!SumSizes(i, Cached \ S)
  <2>1. D!SumSizes(dItem', Cached) = D!SumSizes(dItem', S) + D!SumSizes(dItem', Cached \ S)
    BY <1>2, DiskSumSplit
  <2>2. D!SumSizes(dItem', S) = 0
    BY <1>2, DiskNone, DiskSumNone
  <2>3. D!SumSizes(dItem', Cached \ S) = D!SumSizes(i, Cached \ S)
    BY <1>2, DiskSumSame
  <2> QED BY <1>6, <2>1, <2>2, <2>3
<1> QED BY <1>1, <1>3, <1>4, <1>5, <1>6, <1>7

LEMMA DiskErased ==
  ASSUME NEW f \in [Cached -> D!Entry], NEW i \in [Cached -> D!Entry], NEW S \in SUBSET Cached,
         NEW l \in SUBSET Cached, NEW t \in SUBSET Cached, dFaults \in 0 .. MaxFaults,
         Held(f) \subseteq Held(i) \cup l, D!Erase(f, S, l, t), Held(i) \ S \subseteq Held(dItem')
  PROVE  /\ Held(dFile') \subseteq Held(dItem') \cup dLeaked'
         /\ dLeaked' \in SUBSET Cached /\ dTorn' \in SUBSET Cached /\ dFaults' \in 0 .. MaxFaults
<1>1. PICK left \in SUBSET {k \in S : f[k].value # {}} :
        /\ dFaults + D!Cardinality(left) <= MaxFaults /\ dFaults' = dFaults + D!Cardinality(left)
        /\ dFile' = [k \in Cached |-> IF k \in S \ left THEN D!None ELSE f[k]]
        /\ dLeaked' = (l \ S) \cup left /\ dTorn' = t \ (S \ left)
  BY DEF D!Erase
<1>2. dFaults' \in 0 .. MaxFaults
  <2>1. left \in SUBSET Cached
    BY <1>1
  <2>2. IsFiniteSet(left)
    BY <2>1, DiskConstants, FS_Subset
  <2>3. Cardinality(left) \in Nat /\ D!Cardinality(left) = Cardinality(left) /\ MaxFaults \in Nat
    BY <2>2, DiskConstants, FS_CardinalityType
  <2> QED BY <1>1, <2>3
<1>3. \A k \in Cached : dFile'[k] = IF k \in S \ left THEN D!None ELSE f[k]
  BY <1>1
<1>4. Held(dFile') \subseteq Held(f) \ (S \ left)
  BY <1>3, DiskNone DEF Held
<1> HIDE DEF Held
<1> QED BY <1>1, <1>2, <1>4

\* Files and items as they were, or with one more, without the keys of S.
DiskTakenOut(f, i, S, l, t, o, n) ==
  /\ f \in [Cached -> D!Entry] /\ i \in [Cached -> D!Entry]
  /\ S \in SUBSET Cached /\ l \in SUBSET Cached /\ t \in SUBSET Cached
  /\ n = D!SumSizes(i, Cached) /\ DiskLined(o, Held(i)) /\ Held(f) \subseteq Held(i) \cup l
  /\ dFaults \in 0 .. MaxFaults /\ D!Erase(f, S, l, t) /\ D!Forget(i, S, o, n)

LEMMA DiskTaken ==
  ASSUME NEW f, NEW i, NEW S, NEW l, NEW t, NEW o, NEW n, DiskTakenOut(f, i, S, l, t, o, n)
  PROVE  /\ DiskLined(dOrder', Held(dItem')) /\ dSize' = D!SumSizes(dItem', Cached)
         /\ dSize' = n - D!SumSizes(i, S) /\ dSize' \in Nat /\ dSize' <= n
         /\ Held(dFile') \subseteq Held(dItem') \cup dLeaked'
         /\ dLeaked' \in SUBSET Cached /\ dTorn' \in SUBSET Cached /\ dFaults' \in 0 .. MaxFaults
<1>1. /\ Held(dItem') = Held(i) \ S /\ DiskLined(dOrder', Held(dItem'))
      /\ dSize' = D!SumSizes(dItem', Cached) /\ dSize' = n - D!SumSizes(i, S) /\ dSize' \in Nat /\ dSize' <= n
  BY DiskForgotten DEF DiskTakenOut
<1>2. /\ Held(dFile') \subseteq Held(dItem') \cup dLeaked'
      /\ dLeaked' \in SUBSET Cached /\ dTorn' \in SUBSET Cached /\ dFaults' \in 0 .. MaxFaults
  <2>1. Held(i) \ S \subseteq Held(dItem')
    BY <1>1
  <2> QED BY <2>1, DiskErased DEF DiskTakenOut
<1> QED BY <1>1, <1>2

\* What is behind the last key kept is evicted, and without it the rest fits.
LEMMA DiskEvictsSome ==
  ASSUME NEW i, NEW o, NEW n, NEW p
  PROVE  D!Evicted(i, o, n, p) \in SUBSET Cached
  BY DEF D!Evicted

LEMMA DiskEvicted ==
  ASSUME NEW i \in [Cached -> D!Entry], NEW o, NEW n, n = D!SumSizes(i, Cached), DiskLined(o, Held(i)),
         NEW p \in [max : Limit, lru : BOOLEAN, set : BOOLEAN], NEW S, S = D!Evicted(i, o, n, p)
  PROVE  S \in SUBSET Held(i) /\ (p.lru => n - D!SumSizes(i, S) <= p.max)
<1> DEFINE Behind(k) == {l \in Cached : <<k, l>> \in o}
           R == Held(i) \ S
<1>0. Held(i) \in SUBSET Cached /\ IsFiniteSet(Held(i)) /\ p.max \in Nat /\ p.lru \in BOOLEAN
  BY DiskConstants, FS_Subset DEF Held
<1>1. S \in SUBSET Held(i)
  <2>1. S \subseteq Held(i)
    BY DEF D!Evicted, Held
  <2> QED BY <2>1
<1>2. SUFFICES ASSUME p.lru PROVE n - D!SumSizes(i, S) <= p.max
  BY <1>1
<1>3. \A k \in R : ~ (n - D!SumSizes(i, Behind(k)) > p.max)
  BY <1>0, <1>2 DEF D!Evicted, Held
<1>4. n \in Nat /\ S \in SUBSET Cached /\ D!SumSizes(i, S) \in Nat
  BY <1>0, <1>1, DiskSums
<1>5. CASE R = {}
  <2>1. S = Held(i)
    BY <1>1, <1>5
  <2> QED BY <1>0, <1>4, <2>1, DiskSumHeld
<1>6. CASE R # {}
  <2> DEFINE N == {Cardinality(Behind(k)) : k \in R}
  <2>1. \A k \in R : Behind(k) \in SUBSET Held(i) /\ Behind(k) \in SUBSET Cached
    BY DEF DiskLined
  <2>2. \A k \in R : IsFiniteSet(Behind(k)) /\ Cardinality(Behind(k)) \in Nat
    <3> HIDE DEF Behind, R
    <3> QED BY <1>0, <2>1, FS_Subset, FS_CardinalityType
  <2>3. N \subseteq Nat /\ N # {}
    <3> HIDE DEF Behind, R
    <3> QED BY <1>6, <2>2
  <2>4. PICK m \in R : \A k \in R : Cardinality(Behind(m)) <= Cardinality(Behind(k))
    <3>1. \E x \in N : \A y \in N : x <= y
      <4> HIDE DEF N
      <4> QED BY <2>3, LeastOf
    <3> HIDE DEF Behind, R
    <3> QED BY <3>1
  <2>5. ASSUME NEW x \in R, <<m, x>> \in o PROVE FALSE
    <3>1. m \in Held(i) /\ x \in Held(i) /\ x \in Behind(m) /\ ~ (x \in Behind(x))
      BY <1>0, <2>5 DEF DiskLined, D!Lined
    <3>2. Behind(x) \in SUBSET Behind(m)
      <4> SUFFICES ASSUME NEW y \in Cached, <<x, y>> \in o PROVE <<m, y>> \in o
        OBVIOUS
      <4>1. y \in Held(i)
        BY DEF DiskLined
      <4> QED BY <2>5, <3>1, <4>1 DEF DiskLined, D!Lined
    <3>3. /\ Cardinality(Behind(x)) <= Cardinality(Behind(m))
          /\ Cardinality(Behind(x)) = Cardinality(Behind(m)) => Behind(x) = Behind(m)
      <4>1. IsFiniteSet(Behind(m))
        BY <2>2, <2>4
      <4> HIDE DEF Behind
      <4> QED BY <3>2, <4>1, FS_Subset
    <3>4. Cardinality(Behind(x)) = Cardinality(Behind(m))
      <4>1. Cardinality(Behind(x)) \in Nat /\ Cardinality(Behind(m)) \in Nat
        BY <2>2, <2>4, <2>5
      <4>2. Cardinality(Behind(m)) <= Cardinality(Behind(x))
        BY <2>4, <2>5
      <4> HIDE DEF Behind
      <4> QED BY <3>3, <4>1, <4>2
    <3> HIDE DEF Behind
    <3> QED BY <3>1, <3>3, <3>4
  <2>6. Behind(m) \in SUBSET S
    BY <2>1, <2>5
  <2>7. D!SumSizes(i, S) = D!SumSizes(i, Behind(m)) + D!SumSizes(i, S \ Behind(m))
    <3> DEFINE B == Behind(m)
    <3>1. B \in SUBSET S /\ S \in SUBSET Cached
      BY <1>4, <2>6
    <3> HIDE DEF B, R
    <3>2. D!SumSizes(i, S) = D!SumSizes(i, B) + D!SumSizes(i, S \ B)
      BY ONLY <3>1, DiskSumSplit, i \in [Cached -> D!Entry], Zenon
    <3> QED BY <3>2 DEF B
  <2>8. D!SumSizes(i, Behind(m)) \in Nat /\ D!SumSizes(i, S \ Behind(m)) \in Nat
    <3>1. Behind(m) \in SUBSET Cached /\ S \ Behind(m) \in SUBSET Cached
      BY <1>4, <2>1, <2>4
    <3> HIDE DEF Behind
    <3> QED BY <3>1, DiskSums
  <2>9. ~ (n - D!SumSizes(i, Behind(m)) > p.max)
    BY <1>3, <2>4
  <2> HIDE DEF Behind
  <2> QED BY <1>0, <1>4, <2>7, <2>8, <2>9
<1> QED BY <1>5, <1>6

LEMMA DiskFronted ==
  ASSUME DiskLined(dOrder, Held(dItem)), NEW k \in Cached
  PROVE  DiskLined(D!Front(k), Held(dItem) \cup {k})
<1> DEFINE H == Held(dItem)
<1>1. D!Front(k) = {p \in dOrder : p[2] # k} \cup {<<k, l>> : l \in H \ {k}}
  BY DEF D!Front, D!Tracked, Held
<1>2. dOrder \subseteq H \X H /\ D!Lined(dOrder, H)
  BY DEF DiskLined
<1> HIDE DEF H
<1>3. \A a, b \in H \cup {k} :
         <<a, b>> \in D!Front(k) <=> b # k /\ (a = k \/ <<a, b>> \in dOrder)
  BY <1>1, <1>2
<1>4. D!Front(k) \subseteq (H \cup {k}) \X (H \cup {k})
  BY <1>1, <1>2
<1>5. D!Lined(D!Front(k), H \cup {k})
  <2>1. ASSUME NEW a \in H \cup {k}, NEW b \in H \cup {k}
        PROVE  <<a, b>> \in D!Front(k) <=> a # b /\ <<b, a>> \notin D!Front(k)
    BY <1>2, <1>3 DEF D!Lined
  <2>2. ASSUME NEW a \in H \cup {k}, NEW b \in H \cup {k}, NEW c \in H \cup {k},
               <<a, b>> \in D!Front(k), <<b, c>> \in D!Front(k)
        PROVE  <<a, c>> \in D!Front(k)
    BY <1>2, <1>3, <2>2 DEF D!Lined
  <2> QED BY <2>1, <2>2 DEF D!Lined
<1> QED BY <1>4, <1>5 DEF DiskLined, H

-----------------------------------------------------------------------------
\* Keys are deleted, or swept.
LEMMA DiskRemoves ==
  ASSUME DiskInv, DiskAccounts, NEW S \in SUBSET Cached,
         D!Erase(dFile, S, dLeaked, dTorn), D!Forget(dItem, S, dOrder, dSize),
         dPolicy' \in [max : Limit, lru : BOOLEAN, set : BOOLEAN],
         dPolicy'.lru /\ dPolicy'.set => \/ dPolicy' = dPolicy
                                         \/ dSize - D!SumSizes(dItem, S) <= dPolicy'.max
  PROVE  DiskAccounts'
<1>1. PICK f \in [Cached -> D!Entry], i \in [Cached -> D!Entry],
           l \in SUBSET Cached, t \in SUBSET Cached, o \in {dOrder}, n \in {dSize} :
        f = dFile /\ i = dItem /\ o = dOrder /\ n = dSize /\ l = dLeaked /\ t = dTorn
  <2>1. dFile \in [Cached -> D!Entry] /\ dItem \in [Cached -> D!Entry] /\ dLeaked \in SUBSET Cached /\ dTorn \in SUBSET Cached
    BY DEF DiskInv, DiskTyped, DiskAccounts
  <2> QED BY <2>1, Zenon
<1>2. /\ D!Erase(f, S, l, t) /\ D!Forget(i, S, o, n) /\ n = D!SumSizes(i, Cached) /\ DiskLined(o, Held(i))
      /\ Held(f) \subseteq Held(i) \cup l /\ dFaults \in 0 .. MaxFaults
  BY <1>1 DEF DiskAccounts
<1>3. /\ DiskLined(dOrder', Held(dItem')) /\ dSize' = D!SumSizes(dItem', Cached)
      /\ dSize' = n - D!SumSizes(i, S) /\ dSize' \in Nat /\ dSize' <= n
      /\ Held(dFile') \subseteq Held(dItem') \cup dLeaked'
      /\ dLeaked' \in SUBSET Cached /\ dTorn' \in SUBSET Cached /\ dFaults' \in 0 .. MaxFaults
  <2>1. DiskTakenOut(f, i, S, l, t, o, n)
    BY <1>2 DEF DiskTakenOut
  <2> QED BY <2>1, DiskTaken, Zenon
<1>5. ASSUME dPolicy'.lru, dPolicy'.set PROVE dSize' <= dPolicy'.max
  <2>1. CASE dPolicy' = dPolicy
    <3>1. n <= dPolicy'.max /\ dPolicy'.max \in Nat /\ n \in Nat
      BY <1>1, <1>2, <1>5, <2>1, DiskConstants, DiskSums DEF DiskAccounts
    <3> QED BY <1>3, <3>1
  <2>2. CASE dSize - D!SumSizes(dItem, S) <= dPolicy'.max
    BY <1>1, <1>3, <2>2
  <2> QED BY <1>5, <2>1, <2>2
<1> QED BY <1>3, <1>5 DEF DiskAccounts

LEMMA DiskSets == ASSUME DiskInv, DiskAccounts, NEW k \in Cached, NEW v \in Value, D!Set(k, v) PROVE DiskAccounts'
<1> DEFINE e == [value |-> {v}, past |-> FALSE]
<1>1. e \in D!Entry /\ e.value = {v} /\ v \in Nat
  BY DiskConstants DEF D!Entry
<1>2. /\ D!SumSizes(dItem, {k}) \in Nat /\ dItem \in [Cached -> D!Entry] /\ dFile \in [Cached -> D!Entry]
      /\ dSize + v - D!SumSizes(dItem, {k}) \in Int
  <2>1. /\ D!SumSizes(dItem, {k}) \in Nat /\ dItem \in [Cached -> D!Entry] /\ dFile \in [Cached -> D!Entry]
        /\ D!SumSizes(dItem, Cached) \in Nat
    BY DiskSums DEF DiskInv, DiskTyped
  <2>2. dSize \in Nat
    BY <2>1 DEF DiskAccounts
  <2> QED BY <1>1, <2>1, <2>2
<1>3. PICK i \in [Cached -> D!Entry], f \in [Cached -> D!Entry], n \in Int, S \in SUBSET Cached :
        /\ i = [dItem EXCEPT ![k] = e] /\ f = [dFile EXCEPT ![k] = e]
        /\ n = dSize + v - D!SumSizes(dItem, {k})
        /\ S = D!Evicted(i, D!Front(k), n, dPolicy)
        /\ D!Erase(f, S, dLeaked \ {k}, dTorn \ {k}) /\ D!Forget(i, S, D!Front(k), n) /\ UNCHANGED dPolicy
  <2>1. [dItem EXCEPT ![k] = e] \in [Cached -> D!Entry] /\ [dFile EXCEPT ![k] = e] \in [Cached -> D!Entry]
    BY <1>1, <1>2
  <2> QED BY <1>2, <2>1, DiskEvictsSome DEF D!Set
<1> HIDE DEF e
<1>4. Held(i) = Held(dItem) \cup {k} /\ Held(f) = Held(dFile) \cup {k}
  BY <1>1, <1>2, <1>3 DEF Held
<1>5. n = D!SumSizes(i, Cached)
  <2>1. /\ D!SumSizes(dItem, Cached) = D!SumSizes(dItem, {k}) + D!SumSizes(dItem, Cached \ {k})
        /\ D!SumSizes(i, Cached) = D!SumSizes(i, {k}) + D!SumSizes(i, Cached \ {k})
        /\ D!SumSizes(i, Cached \ {k}) \in Nat
    BY <1>2, DiskSumWithout
  <2>2. D!SumSizes(i, Cached \ {k}) = D!SumSizes(dItem, Cached \ {k})
    BY <1>2, <1>3, DiskSumSame
  <2>3. D!SumSizes(i, {k}) = v
    <3>1. Took(i, {k}) = D!Bytes(i, k)
      BY DEF Took
    <3>2. i[k].value = {v}
      BY <1>1, <1>2, <1>3
    <3>3. D!SumSizes(i, {k}) = Cardinality(Took(i, {k}))
      BY DiskSums
    <3> QED BY <3>1, <3>2, <3>3, DiskBytes
  <2>4. dSize = D!SumSizes(dItem, Cached)
    BY DEF DiskAccounts
  <2>5. \A a, b, c \in Nat : (a + c) + b - a = b + c
    OBVIOUS
  <2>6. n = (D!SumSizes(dItem, {k}) + D!SumSizes(i, Cached \ {k})) + v - D!SumSizes(dItem, {k})
    BY <1>3, <2>1, <2>2, <2>4, Zenon
  <2>7. D!SumSizes(i, Cached) = v + D!SumSizes(i, Cached \ {k})
    BY <2>1, <2>3, Zenon
  <2> QED BY <1>1, <1>2, <2>1, <2>5, <2>6, <2>7, Zenon
<1>6. DiskLined(D!Front(k), Held(i))
  BY <1>4, DiskFronted DEF DiskAccounts
<1>7. PICK p \in [max : Limit, lru : BOOLEAN, set : BOOLEAN],
           l \in SUBSET Cached, t \in SUBSET Cached, o \in SUBSET (Cached \X Cached) :
        o = D!Front(k) /\ p = dPolicy /\ l = dLeaked \ {k} /\ t = dTorn \ {k}
  <2>1. /\ dPolicy \in [max : Limit, lru : BOOLEAN, set : BOOLEAN]
        /\ dLeaked \ {k} \in SUBSET Cached /\ dTorn \ {k} \in SUBSET Cached
    BY DEF DiskAccounts
  <2>2. D!Front(k) \in SUBSET (Cached \X Cached)
    BY <1>6 DEF DiskLined, Held
  <2> QED BY <2>1, <2>2, Zenon
<1>8. /\ S = D!Evicted(i, o, n, p) /\ D!Erase(f, S, l, t) /\ D!Forget(i, S, o, n) /\ DiskLined(o, Held(i))
      /\ dFaults \in 0 .. MaxFaults /\ Held(f) \subseteq Held(i) \cup l
  BY <1>3, <1>4, <1>6, <1>7 DEF DiskAccounts
<1>9. S \in SUBSET Held(i) /\ (p.lru => n - D!SumSizes(i, S) <= p.max)
  BY <1>5, <1>8, DiskEvicted
<1>10. /\ DiskLined(dOrder', Held(dItem')) /\ dSize' = D!SumSizes(dItem', Cached)
       /\ dSize' = n - D!SumSizes(i, S) /\ Held(dFile') \subseteq Held(dItem') \cup dLeaked'
       /\ dLeaked' \in SUBSET Cached /\ dTorn' \in SUBSET Cached /\ dFaults' \in 0 .. MaxFaults
  <2>1. DiskTakenOut(f, i, S, l, t, o, n)
    BY <1>5, <1>8 DEF DiskTakenOut
  <2> QED BY <2>1, DiskTaken, Zenon
<1> QED BY <1>3, <1>7, <1>9, <1>10 DEF DiskAccounts

LEMMA DiskRestarts ==
  ASSUME DiskInv, DiskInv', DiskAccounts, NEW cut \in SUBSET Cached, D!Restart(cut) PROVE DiskAccounts'
<1>1. dFile' \in [Cached -> D!Entry] /\ dItem' = dFile'
  BY DEF D!Restart, DiskInv, DiskTyped
<1> DEFINE K == {k \in Cached : dFile'[k].value # {}}
<1>2. /\ \E o \in SUBSET (K \X K) : D!Lined(o, K) /\ dOrder' = o
      /\ dSize' = D!SumSizes(dFile', K) /\ dPolicy' = D!Default /\ dLeaked' = {}
      /\ dTorn' \in SUBSET K /\ dFaults < MaxFaults /\ dFaults' = dFaults + 1
  <2>1. PICK rest \in {D!None, [value |-> {0}, past |-> FALSE]} :
          LET f == [k \in Cached |-> IF k \in cut THEN rest ELSE dFile[k]]
              H == {k \in Cached : f[k].value # {}}
          IN  /\ dFile' = f /\ dFaults < MaxFaults /\ dFaults' = dFaults + 1
              /\ \E o \in SUBSET (H \X H) : D!Lined(o, H) /\ dOrder' = o
              /\ dSize' = D!SumSizes(f, H) /\ dPolicy' = D!Default
              /\ dLeaked' = {} /\ dTorn' = (dTorn \cup cut) \cap H
    BY DEF D!Restart
  <2> DEFINE f == [k \in Cached |-> IF k \in cut THEN rest ELSE dFile[k]]
             H == {k \in Cached : f[k].value # {}}
  <2>2. /\ dFile' = f /\ dFaults < MaxFaults /\ dFaults' = dFaults + 1
        /\ \E o \in SUBSET (H \X H) : D!Lined(o, H) /\ dOrder' = o
        /\ dSize' = D!SumSizes(f, H) /\ dPolicy' = D!Default
        /\ dLeaked' = {} /\ dTorn' = (dTorn \cup cut) \cap H
    BY <2>1
  <2>3. K = H
    BY <2>2
  <2> HIDE DEF f, H, K
  <2> QED BY <2>2, <2>3
<1>3. K = Held(dItem') /\ K = Held(dFile') /\ K \in SUBSET Cached
  BY <1>1 DEF Held
<1>4. dSize' = D!SumSizes(dItem', Cached)
  <2>1. D!SumSizes(dFile', Cached) = D!SumSizes(dFile', Held(dFile'))
    BY <1>1, DiskSumHeld
  <2> QED BY <1>1, <1>2, <1>3, <2>1
<1>5. DiskLined(dOrder', Held(dItem'))
  <2> HIDE DEF K
  <2> QED BY <1>2, <1>3 DEF DiskLined
<1>6. dPolicy' \in [max : Limit, lru : BOOLEAN, set : BOOLEAN] /\ ~ dPolicy'.set
  <2>1. \E m \in Limit : \A q \in Limit : q <= m
    BY DiskConstants, GreatestOf
  <2>2. D!Default.max \in Limit
    BY <2>1 DEF D!Default
  <2> QED BY <1>2, <2>2 DEF D!Default
<1>7. dFaults' \in 0 .. MaxFaults /\ dTorn' \in SUBSET Cached /\ dLeaked' \in SUBSET Cached
  BY <1>2, <1>3, DiskConstants DEF DiskAccounts
<1>8. Held(dFile') \subseteq Held(dItem') \cup dLeaked'
  BY <1>3
<1> HIDE DEF K
<1> QED BY <1>4, <1>5, <1>6, <1>7, <1>8 DEF DiskAccounts

LEMMA DiskAccountsStep == ASSUME DiskInv, DiskInv', DiskAccounts, [D!Next]_(D!vars) PROVE DiskAccounts'
<1>0. dFile \in [Cached -> D!Entry] /\ dItem \in [Cached -> D!Entry]
  BY DEF DiskInv, DiskTyped
<1>1. ASSUME UNCHANGED <<dFile, dItem, dOrder, dSize, dPolicy, dLeaked, dTorn, dFaults>> PROVE DiskAccounts'
  BY <1>1 DEF DiskAccounts
<1>2. ASSUME NEW k \in Cached, D!DeleteUnlocked(k), UNCHANGED dPolicy PROVE DiskAccounts'
  <2>1. D!Erase(dFile, {k}, dLeaked, dTorn) /\ D!Forget(dItem, {k}, dOrder, dSize)
    BY <1>2 DEF D!DeleteUnlocked
  <2> QED BY <1>2, <2>1, DiskRemoves DEF DiskAccounts
<1>3. ASSUME NEW k \in Cached, k \in D!Tracked, dOrder' = D!Front(k),
             UNCHANGED <<dFile, dItem, dSize, dPolicy, dLeaked, dTorn, dFaults>>
      PROVE  DiskAccounts'
  <2>1. Held(dItem) \cup {k} = Held(dItem)
    BY <1>3 DEF D!Tracked, Held
  <2>2. DiskLined(dOrder', Held(dItem))
    BY <1>3, <2>1, DiskFronted DEF DiskAccounts
  <2> QED BY <1>3, <2>2 DEF DiskAccounts
<1>4. ASSUME NEW k \in Cached, D!SetFails(k) PROVE DiskAccounts'
  <2>1. /\ dFile' = [dFile EXCEPT ![k] = D!None] /\ dLeaked' = dLeaked \ {k} /\ dTorn' = dTorn \ {k}
        /\ dFaults < MaxFaults /\ dFaults' = dFaults + 1 /\ UNCHANGED <<dItem, dOrder, dSize, dPolicy>>
    BY <1>4 DEF D!SetFails
  <2>2. Held(dFile') = Held(dFile) \ {k}
    BY <1>0, <2>1, DiskNone DEF Held
  <2>3. dFaults' \in 0 .. MaxFaults
    BY <2>1, DiskConstants DEF DiskAccounts
  <2> HIDE DEF Held
  <2> QED BY <2>1, <2>2, <2>3 DEF DiskAccounts
<1>5. ASSUME NEW k \in Cached, D!Expire(k) PROVE DiskAccounts'
  <2>1. /\ dItem' = [dItem EXCEPT ![k].past = TRUE] /\ dFile' = [dFile EXCEPT ![k].past = (k \in D!OnDisk)]
        /\ UNCHANGED <<dOrder, dSize, dPolicy, dLeaked, dTorn, dFaults>>
    BY <1>5 DEF D!Expire
  <2>2. \A j \in Cached : dItem'[j].value = dItem[j].value /\ dFile'[j].value = dFile[j].value
    <3>1. \A e \in D!Entry, b \in BOOLEAN : [e EXCEPT !.past = b].value = e.value
      BY DEF D!Entry
    <3> QED BY <1>0, <2>1, <3>1
  <2>3. Held(dItem') = Held(dItem) /\ Held(dFile') = Held(dFile)
    BY <2>2 DEF Held
  <2>4. D!SumSizes(dItem', Cached) = D!SumSizes(dItem, Cached)
    BY <2>2, DiskSumSame
  <2> HIDE DEF Held
  <2> QED BY <2>1, <2>3, <2>4 DEF DiskAccounts
<1>6. CASE D!Clear
  <2>1. /\ D!Erase(dFile, D!OnDisk, dLeaked, dTorn) /\ dItem' = [k \in Cached |-> D!None]
        /\ dOrder' = {} /\ dSize' = 0 /\ UNCHANGED dPolicy
    BY <1>6 DEF D!Clear
  <2>2. D!OnDisk = Held(dFile) /\ Held(dFile) \in SUBSET Cached
    BY DEF D!OnDisk, Held
  <2>3. dItem' \in [Cached -> D!Entry] /\ (\A k \in Cached : dItem'[k].value = {}) /\ Held(dItem') = {}
    BY <2>1, DiskNone DEF Held
  <2>4. dSize' = D!SumSizes(dItem', Cached)
    BY <2>1, <2>3, DiskSumNone
  <2>5. PICK f \in [Cached -> D!Entry], S \in SUBSET Cached, l \in SUBSET Cached, t \in SUBSET Cached :
          f = dFile /\ S = Held(dFile) /\ l = dLeaked /\ t = dTorn
    BY <1>0, <2>2 DEF DiskAccounts
  <2>6. /\ Held(dFile') \subseteq Held(dItem') \cup dLeaked'
        /\ dLeaked' \in SUBSET Cached /\ dTorn' \in SUBSET Cached /\ dFaults' \in 0 .. MaxFaults
    <3>1. Held(f) \subseteq Held(f) \cup l /\ Held(f) \ S \subseteq Held(dItem') /\ D!Erase(f, S, l, t)
      BY <2>1, <2>2, <2>5
    <3>2. dFaults \in 0 .. MaxFaults
      BY DEF DiskAccounts
    <3> QED BY <3>1, <3>2, DiskErased
  <2>7. DiskLined(dOrder', Held(dItem'))
    BY <2>1, <2>3 DEF DiskLined, D!Lined
  <2>8. dPolicy'.lru /\ dPolicy'.set => dSize' <= dPolicy'.max
    <3>1. dPolicy.max \in Nat
      BY DiskConstants DEF DiskAccounts
    <3> QED BY <2>1, <3>1
  <2>9. dPolicy' \in [max : Limit, lru : BOOLEAN, set : BOOLEAN]
    BY <2>1 DEF DiskAccounts
  <2> HIDE DEF Held
  <2> QED BY <2>4, <2>6, <2>7, <2>8, <2>9 DEF DiskAccounts
<1>7. CASE D!CleanExpired
  <2>1. PICK S \in SUBSET Cached : /\ D!Erase(dFile, S, dLeaked, dTorn) /\ D!Forget(dItem, S, dOrder, dSize)
                                   /\ UNCHANGED dPolicy
    BY <1>7 DEF D!CleanExpired, D!Tracked
  <2> QED BY <2>1, DiskRemoves DEF DiskAccounts
<1>8. ASSUME NEW max \in Limit, NEW lru \in BOOLEAN, D!UpdatePolicy(max, lru) PROVE DiskAccounts'
  <2>1. PICK p \in [max : Limit, lru : BOOLEAN, set : BOOLEAN], S \in SUBSET Cached :
          /\ dPolicy' = p /\ S = D!Evicted(dItem, dOrder, dSize, p)
          /\ D!Erase(dFile, S, dLeaked, dTorn) /\ D!Forget(dItem, S, dOrder, dSize)
    BY <1>8, DiskEvictsSome DEF D!UpdatePolicy
  <2>2. PICK i \in [Cached -> D!Entry], o \in {dOrder}, n \in {dSize} : i = dItem /\ o = dOrder /\ n = dSize
    BY <1>0
  <2>3. S = D!Evicted(i, o, n, p) /\ n = D!SumSizes(i, Cached) /\ DiskLined(o, Held(i))
    BY <2>1, <2>2 DEF DiskAccounts
  <2>4. S \in SUBSET Held(i) /\ (p.lru => n - D!SumSizes(i, S) <= p.max)
    BY <2>3, DiskEvicted
  <2>5. S \in SUBSET Cached
    BY <2>4 DEF Held
  <2> QED BY <2>1, <2>2, <2>4, <2>5, DiskRemoves
<1>9. ASSUME NEW r \in Reader, NEW k \in Cached, D!GetLook(r, k) \/ D!GetRead(r, k) PROVE DiskAccounts'
  BY <1>1, <1>9 DEF D!GetLook, D!GetRead
<1>10. ASSUME NEW r \in Reader, NEW k \in Cached, D!GetBump(r, k) PROVE DiskAccounts'
  BY <1>1, <1>3, <1>10 DEF D!GetBump
<1>11. ASSUME NEW r \in Reader, NEW k \in Cached, D!GetDrop(r, k) PROVE DiskAccounts'
  BY <1>1, <1>2, <1>11 DEF D!GetDrop
<1>12. ASSUME NEW r \in Reader, NEW k \in Cached, D!GetCheck(r, k) PROVE DiskAccounts'
  BY <1>1, <1>2, <1>3, <1>12 DEF D!GetCheck
<1>13. ASSUME NEW r \in Reader, D!GetReturn(r) PROVE DiskAccounts'
  BY <1>1, <1>13 DEF D!GetReturn
<1>14. CASE UNCHANGED D!vars
  BY <1>1, <1>14 DEF D!vars
<1>15. ASSUME NEW k \in Cached, D!Delete(k) PROVE DiskAccounts'
  BY <1>2, <1>15 DEF D!Delete
<1>16. ASSUME D!Next PROVE DiskAccounts'
  BY <1>16, DiskSets, DiskRestarts, <1>4, <1>5, <1>6, <1>7, <1>8, <1>9, <1>10, <1>11, <1>12, <1>13, <1>15 DEF D!Next
<1> QED BY <1>14, <1>16

LEMMA DiskStart == D!Init => DiskAccounts
<1> SUFFICES ASSUME D!Init PROVE DiskAccounts
  OBVIOUS
<1>1. /\ dFile = [k \in Cached |-> D!None] /\ dItem = [k \in Cached |-> D!None] /\ dOrder = {} /\ dSize = 0
      /\ dPolicy = D!Default /\ dLeaked = {} /\ dTorn = {} /\ dFaults = 0
  BY DEF D!Init
<1>2. Held(dItem) = {} /\ Held(dFile) = {} /\ dItem \in [Cached -> D!Entry] /\ \A k \in Cached : dItem[k].value = {}
  BY <1>1, DiskNone DEF Held
<1>3. D!SumSizes(dItem, Cached) = 0
  BY <1>2, DiskSumNone
<1>4. DiskLined(dOrder, Held(dItem))
  BY <1>1, <1>2 DEF DiskLined, D!Lined
<1>5. dPolicy \in [max : Limit, lru : BOOLEAN, set : BOOLEAN] /\ ~ dPolicy.set
  <2>1. \E m \in Limit : \A q \in Limit : q <= m
    BY DiskConstants, GreatestOf
  <2>2. D!Default.max \in Limit
    BY <2>1 DEF D!Default
  <2> QED BY <1>1, <2>2 DEF D!Default
<1>6. dFaults \in 0 .. MaxFaults
  BY <1>1, DiskConstants
<1> HIDE DEF Held
<1> QED BY <1>1, <1>2, <1>3, <1>4, <1>5, <1>6 DEF DiskAccounts

\* The accounts of the cache are those of the disk (src/pkg/cache/disk/cache.go:284).
THEOREM DiskStaysAccounted == SuiteSpec => []DiskIsAccounted
<1> DEFINE Inv == focus = "disk" => DiskInv /\ DiskAccounts
<1>1. SuiteInit => Inv
  <2>1. D!Init => DiskInv
    <3>1. D!Idle \in DiskCall /\ D!Idle.at = "idle" /\ D!Idle.data = {}
      BY DEF D!Idle, DiskCall
    <3> QED BY <3>1, DiskNone DEF D!Init, DiskInv, DiskTyped, DiskReads, DiskTracks
  <2> QED BY <2>1, DiskStart DEF SuiteInit
<1>2. Inv /\ [SuiteNext]_allVars => Inv'
  <2> SUFFICES ASSUME Inv, [SuiteNext]_allVars, focus' = "disk" PROVE DiskInv' /\ DiskAccounts'
    OBVIOUS
  <2>1. focus = "disk" /\ [D!Next]_(D!vars)
    BY DEF SuiteNext, allVars, diskVars, D!vars
  <2> QED BY <2>1, DiskStep, DiskAccountsStep
<1>3. Inv => DiskIsAccounted
  <2> SUFFICES ASSUME DiskInv, DiskAccounts PROVE D!TypeOK /\ D!DiskIsAccounted
    BY DEF DiskIsAccounted
  <2>1. D!Tracked = Held(dItem) /\ D!OnDisk = Held(dFile) /\ Held(dItem) \subseteq Cached
    BY DEF D!Tracked, D!OnDisk, Held
  <2>2. D!DiskIsAccounted
    BY <2>1 DEF DiskAccounts, DiskLined, D!DiskIsAccounted
  <2>3. dSize \in Nat
    BY DiskSums DEF DiskInv, DiskTyped, DiskAccounts
  <2>4. dOrder \in SUBSET (Cached \X Cached)
    BY <2>1 DEF DiskAccounts, DiskLined
  <2>5. dGet \in [Reader -> DiskCall] /\ dSeen \in [Reader -> SUBSET (Value \cup {0})]
        /\ dFile \in [Cached -> D!Entry] /\ dItem \in [Cached -> D!Entry]
    BY DEF DiskInv, DiskTyped
  <2>6. D!TypeOK
    BY <2>3, <2>4, <2>5 DEF DiskAccounts, D!TypeOK, DiskCall
  <2> QED BY <2>2, <2>6
<1> QED BY <1>1, <1>2, <1>3, PTL DEF SuiteSpec
-----------------------------------------------------------------------------
(* The figures of the dashboard *)

DashLive == {r \in Bookmark : tStatus[r] \in {"none", "processing", "done", "failed"}}

DashTyped ==
  /\ tList \in C!List /\ tFilter \in BOOLEAN /\ tOrder = <<>>
  /\ tWalk.at \in {"count", "find", "done"} /\ tWalk.seen = {}
  /\ tGone = {} /\ tUnsteady \in BOOLEAN /\ tWrites = 0
  /\ tStatus \in [Bookmark -> C!Status] /\ tCame \in BOOLEAN
  /\ tFigures \in Seq(0 .. Cardinality(Bookmark)) /\ Len(tFigures) <= 5

\* While none came, no more bookmarks are left than were counted first.
DashInv ==
  /\ DashTyped
  /\ Len(tFigures) > 0 => tCame \/ Cardinality(DashLive) <= tFigures[1]
  /\ Len(tFigures) > 1 => tCame \/ tFigures[2] <= tFigures[1]

LEMMA DashConstants ==
  /\ IsFiniteSet(Bookmark) /\ Cardinality(Bookmark) \in Nat
  /\ \A S : C!Cardinality(S) = Cardinality(S)
  /\ \A S \in SUBSET Bookmark : IsFiniteSet(S) /\ Cardinality(S) \in 0 .. Cardinality(Bookmark)
  /\ \A S \in SUBSET Bookmark : \A X \in SUBSET S : Cardinality(X) <= Cardinality(S)
<1>1. \A S : C!Cardinality(S) = Cardinality(S)
  BY Zenon DEF C!Cardinality, Cardinality
<1>2. \A S : C!IsFiniteSet(S) = IsFiniteSet(S)
  BY Zenon DEF C!IsFiniteSet, IsFiniteSet
<1>3. IsFiniteSet(Bookmark)
  BY <1>2, ConstantsFit DEF C!WalksAssumption
<1>4. Cardinality(Bookmark) \in Nat
  BY <1>3, FS_CardinalityType
<1>5. ASSUME NEW S \in SUBSET Bookmark PROVE IsFiniteSet(S) /\ Cardinality(S) \in 0 .. Cardinality(Bookmark)
  <2>1. IsFiniteSet(S) /\ Cardinality(S) <= Cardinality(Bookmark)
    BY <1>3, FS_Subset
  <2>2. Cardinality(S) \in Nat
    BY <2>1, FS_CardinalityType
  <2> QED BY <1>4, <2>1, <2>2
<1>6. ASSUME NEW S \in SUBSET Bookmark, NEW X \in SUBSET S PROVE Cardinality(X) <= Cardinality(S)
  BY <1>5, FS_Subset
<1> QED BY <1>1, <1>3, <1>4, <1>5, <1>6

\* One more figure.
LEMMA DashCounts ==
  ASSUME DashInv, NEW n \in 0 .. Cardinality(Bookmark), tFigures' = Append(tFigures, n), Len(tFigures) \in 1 .. 4,
         Len(tFigures) = 1 => n <= Cardinality(DashLive),
         UNCHANGED <<tList, tFilter, tOrder, tWalk, tGone, tUnsteady, tWrites, tStatus, tCame>>
  PROVE  DashInv'
<1>0. /\ DashTyped /\ tFigures \in Seq(0 .. Cardinality(Bookmark)) /\ Cardinality(Bookmark) \in Nat
      /\ Cardinality(DashLive) \in Nat
  BY DashConstants DEF DashInv, DashTyped, DashLive
<1>1. /\ tFigures' \in Seq(0 .. Cardinality(Bookmark)) /\ Len(tFigures') = Len(tFigures) + 1
      /\ tFigures'[Len(tFigures) + 1] = n /\ \A j \in 1 .. Len(tFigures) : tFigures'[j] = tFigures[j]
  BY <1>0
<1>2. DashTyped' /\ Cardinality(DashLive)' = Cardinality(DashLive)
  <2>1. DashLive' = DashLive
    BY DEF DashLive
  <2>2. Len(tFigures') <= 5
    <3>1. \A l \in 1 .. 4 : l + 1 <= 5
      OBVIOUS
    <3>2. Len(tFigures) + 1 <= 5
      BY <3>1, Zenon
    <3> QED BY <1>1, <3>2, Zenon
  <2> QED BY <1>0, <1>1, <2>1, <2>2 DEF DashTyped
<1>3. tFigures'[1] = tFigures[1] /\ tFigures[1] \in Nat
  BY <1>0, <1>1
<1>4. CASE Len(tFigures) = 1
  BY <1>0, <1>1, <1>2, <1>3, <1>4 DEF DashInv
<1>5. CASE Len(tFigures) # 1
  <2>1. tFigures'[2] = tFigures[2]
    BY <1>1, <1>5
  <2> QED BY <1>1, <1>2, <1>3, <1>5, <2>1 DEF DashInv
<1> QED BY <1>4, <1>5

LEMMA DashStep == ASSUME DashInv, C!Counting \/ UNCHANGED tableVars PROVE DashInv'
<1>0. /\ DashTyped /\ DashLive \in SUBSET Bookmark
  BY DEF DashInv, DashLive
<1>1. CASE UNCHANGED tableVars
  BY <1>0, <1>1 DEF tableVars, DashInv, DashTyped, DashLive
<1>2. ASSUME NEW r \in Bookmark, C!Move(r) PROVE DashInv'
  <2>1. PICK s \in C!Status \ {"absent", tStatus[r]} :
          /\ tStatus' = [tStatus EXCEPT ![r] = s]
          /\ tCame' = (tCame \/ (tStatus[r] \in {"absent", "removed"} /\ s # "removed"))
    BY <1>2 DEF C!Move
  <2>2. UNCHANGED <<tList, tFilter, tOrder, tWalk, tGone, tUnsteady, tWrites, tFigures>>
    BY <1>2 DEF C!Move, C!listVars
  <2>3. tCame' \in BOOLEAN /\ (tCame => tCame')
    BY <1>0, <2>1 DEF DashTyped
  <2>4. DashTyped'
    BY <1>0, <2>1, <2>2, <2>3 DEF DashTyped
  <2>5. CASE tCame'
    BY <2>4, <2>5 DEF DashInv
  <2>6. CASE ~tCame'
    <3>1. DashLive' \in SUBSET DashLive
      BY <1>0, <2>1, <2>6 DEF DashLive, DashTyped, C!Status
    <3>2. Cardinality(DashLive') <= Cardinality(DashLive) /\ Cardinality(DashLive) \in Nat /\ Cardinality(DashLive') \in Nat
      BY <1>0, <3>1, DashConstants
    <3>3. Len(tFigures) > 0 => tFigures[1] \in Nat
      BY <1>0, DashConstants DEF DashTyped
    <3> QED BY <2>2, <2>3, <2>4, <2>6, <3>2, <3>3 DEF DashInv
  <2> QED BY <2>5, <2>6
<1>3. CASE C!CountTotal
  <2>1. /\ tFigures' = <<Cardinality(DashLive)>> /\ tCame' = FALSE
        /\ UNCHANGED <<tList, tFilter, tOrder, tWalk, tGone, tUnsteady, tWrites, tStatus>>
    BY <1>3, DashConstants DEF C!CountTotal, C!Having, C!listVars, DashLive
  <2>2. Cardinality(DashLive) \in 0 .. Cardinality(Bookmark) /\ DashLive' = DashLive
    BY <1>0, <2>1, DashConstants DEF DashLive
  <2>3. DashTyped'
    <3>1. PICK n \in 0 .. Cardinality(Bookmark) : n = Cardinality(DashLive)
      BY <2>2
    <3>2. tFigures' = <<n>> /\ <<n>> \in Seq(0 .. Cardinality(Bookmark)) /\ Len(<<n>>) <= 5
      BY <2>1, <3>1
    <3> QED BY <1>0, <2>1, <3>2 DEF DashTyped
  <2> QED BY <2>1, <2>2, <2>3, DashConstants DEF DashInv
<1>4. CASE C!CountStatus
  <2>1. Len(tFigures) \in 1 .. 4 /\ UNCHANGED <<tList, tFilter, tOrder, tWalk, tGone, tUnsteady, tWrites, tStatus, tCame>>
    BY <1>4 DEF C!CountStatus, C!listVars, C!Counted
  <2> DEFINE S == {r \in Bookmark : tStatus[r] \in C!StatesOf(C!Counted[Len(tFigures)])}
  <2>2. tFigures' = Append(tFigures, Cardinality(S))
    BY <1>4, DashConstants DEF C!CountStatus, C!Having
  <2>3. PICK n \in 0 .. Cardinality(Bookmark) : n = Cardinality(S)
    BY DashConstants
  <2>4. Len(tFigures) = 1 => S \in SUBSET DashLive
    BY DEF C!StatesOf, C!Counted, DashLive
  <2>5. Len(tFigures) = 1 => n <= Cardinality(DashLive)
    BY <1>0, <2>3, <2>4, DashConstants
  <2> QED BY <2>1, <2>2, <2>3, <2>5, DashCounts
<1>5. CASE C!Answer
  <2>1. tFigures' = <<>> /\ UNCHANGED <<tList, tFilter, tOrder, tWalk, tGone, tUnsteady, tWrites, tStatus, tCame>>
    BY <1>5 DEF C!Answer, C!listVars
  <2> QED BY <1>0, <2>1 DEF DashInv, DashTyped
<1> QED BY <1>1, <1>2, <1>3, <1>4, <1>5 DEF C!Counting

\* What a share is taken of is never less than the share, unless bookmarks came while
\* they were counted (src/internal/apps/pixez/management.go:369).
THEOREM SharesAreShares == SuiteSpec => []ShareIsAShare
<1> DEFINE Inv == focus = "dashboard" => DashInv
<1>1. SuiteInit => Inv
  <2> SUFFICES ASSUME SuiteInit, focus = "dashboard" PROVE DashInv
    OBVIOUS
  <2>1. C!Init /\ tOrder = <<>>
    BY DEF SuiteInit
  <2>2. C!ToSet(<<>>) = {}
    BY DEF C!ToSet
  <2>3. tWalk.at \in {"count", "find"} /\ tWalk.seen = {}
    BY <2>1, <2>2 DEF C!Init, C!Begun
  <2>4. /\ tList \in C!List /\ tFilter \in (IF tList.sorted = "cursor" THEN {FALSE} ELSE BOOLEAN)
        /\ tGone = {} /\ tUnsteady = FALSE /\ tWrites = 0
        /\ tStatus \in [Bookmark -> C!Status] /\ tFigures = <<>> /\ tCame = FALSE
    BY <2>1, Zenon DEF C!Init
  <2>5. tFigures \in Seq(0 .. Cardinality(Bookmark)) /\ Len(tFigures) = 0 /\ tFilter \in BOOLEAN
        /\ Len(tFigures) <= 5 /\ tUnsteady \in BOOLEAN /\ tCame \in BOOLEAN
    <3>1. tFigures \in Seq(0 .. Cardinality(Bookmark)) /\ Len(tFigures) = 0 /\ Len(tFigures) <= 5
      BY <2>4
    <3>2. tFilter \in BOOLEAN
      BY <2>4, Zenon
    <3>3. tUnsteady \in BOOLEAN /\ tCame \in BOOLEAN
      BY <2>4
    <3> QED BY <3>1, <3>2, <3>3
  <2>6. DashTyped
    BY <2>1, <2>3, <2>4, <2>5, Zenon DEF DashTyped
  <2> QED BY <2>4, <2>5, <2>6 DEF DashInv
<1>2. Inv /\ [SuiteNext]_allVars => Inv'
  <2> SUFFICES ASSUME Inv, [SuiteNext]_allVars, focus' = "dashboard" PROVE DashInv'
    OBVIOUS
  <2>1. focus = "dashboard" /\ (C!Counting \/ UNCHANGED tableVars)
    BY DEF SuiteNext, allVars
  <2> QED BY <2>1, DashStep
<1>3. Inv => ShareIsAShare
  <2> SUFFICES ASSUME DashInv PROVE C!TypeOK /\ C!ShareIsAShare
    BY DEF ShareIsAShare
  <2>1. C!IsInjective(tOrder) /\ C!ToSet(tOrder) = {}
    BY DEF DashInv, DashTyped, C!IsInjective, C!ToSet
  <2>2. Len(C!Counted) = 4
    BY DEF C!Counted
  <2>3. MaxWrites \in Nat
    BY ConstantsFit DEF C!WalksAssumption
  <2>4. C!TypeOK
    BY <2>1, <2>2, <2>3, DashConstants DEF DashInv, DashTyped, C!TypeOK
  <2> QED BY <2>4 DEF DashInv, DashTyped, C!ShareIsAShare
<1> QED BY <1>1, <1>2, <1>3, PTL DEF SuiteSpec
-----------------------------------------------------------------------------
(* The migration of files *)

MoveWorker == [at : {"idle", "locked", "scan", "switched"}, source : Backend, cursor : 0 .. Count,
               page : SUBSET Object, copied : SUBSET Object, failed : BOOLEAN]

\* What holds of an upload under way: its row is not there yet; and if nothing ran beside
\* it, the storage is settled, and the file goes to the backend that is active.
MoveCallOK(o) ==
  call[o].at # "idle" =>
    /\ row[o].status = "none"
    /\ o \notin crossed /\ ~ waived =>
         /\ Settled /\ admin = {}
         /\ call[o].at # "allowed" => call[o].backend = active
         /\ call[o].at = "stored" => Has(active, o, "plain")

\* What holds of the migrating worker: its record is running, and what it copied is there.
MoveWorkerOK ==
  /\ worker.at # "idle" => task.status = "running"
  /\ worker.at # "scan" => worker.page = {} /\ worker.copied = {}
  /\ \A o \in worker.page \cup worker.copied : row[o].status # "none"
  /\ \A o \in worker.copied : Live(o) => Has(task.target, o, row[o].key)

\* What holds of a stored file: until the migration is over it is in one of the two
\* backends, and what the scan has passed is in the target.
MoveFileOK(o) ==
  /\ admin = {}
  /\ Has(active, o, row[o].key) \/ (~ Settled /\ Has(task.target, o, row[o].key))
  /\ worker.at = "switched" => Has(active, o, row[o].key)
  /\ worker.at = "scan" => worker.source = active
  /\ worker.at = "scan" /\ ~ worker.failed /\ o <= worker.cursor
       => o \in worker.page \cup worker.copied \/ Has(task.target, o, row[o].key)

MoveInv ==
  /\ TypeOK /\ view.backend \subseteq {active}
  /\ \A o \in Object : MoveCallOK(o)
  /\ MoveWorkerOK
  /\ ~ waived => \A o \in Object \ crossed : Live(o) => MoveFileOK(o)

-----------------------------------------------------------------------------
\* A backend finds a file under the key it answered with.
LEMMA MoveKeys ==
  ASSUME NEW b, NEW k \in Key
  PROVE  KeyAt(b, k) \in Key /\ KeyAt(b, KeyAt(b, k)) = KeyAt(b, k)
  BY DEF KeyAt, Key

LEMMA MoveAsk == ASSUME MoveInv, NEW o \in Object, AskReadOnly(o) PROVE MoveInv'
<1>1. TypeOK'
  BY SMTT(30) DEF MoveInv, TypeOK, AskReadOnly
<1>2. view'.backend = view.backend
  BY DEF MoveInv, TypeOK, AskReadOnly
<1>3. \A p \in Object : MoveCallOK(p)'
  BY DEF MoveInv, TypeOK, AskReadOnly, MoveCallOK, Has, KeyAt, Settled, ReadOnly
<1>4. MoveWorkerOK'
  BY DEF MoveInv, AskReadOnly, MoveWorkerOK, Live, Has, KeyAt
<1>5. ~ waived' => \A p \in Object \ crossed' : Live(p)' => MoveFileOK(p)'
  BY DEF MoveInv, AskReadOnly, MoveFileOK, Live, Has, KeyAt, Settled
<1> QED BY <1>1, <1>2, <1>3, <1>4, <1>5 DEF MoveInv, AskReadOnly

LEMMA MoveChoose == ASSUME MoveInv, NEW o \in Object, ChooseBackend(o) PROVE MoveInv'
<1>1. view'.backend = {active} /\ call' = [call EXCEPT ![o] = [at |-> "chosen", backend |-> active]]
  <2>1. view'.backend = IF view.backend = {} THEN {active} ELSE view.backend
    BY DEF MoveInv, TypeOK, ChooseBackend
  <2>2. view'.backend = {active}
    BY <2>1 DEF MoveInv
  <2> QED BY <2>2 DEF ChooseBackend
<1>2. TypeOK'
  BY <1>1 DEF MoveInv, TypeOK, ChooseBackend
<1>3. \A p \in Object : MoveCallOK(p)'
  BY <1>1 DEF MoveInv, TypeOK, ChooseBackend, MoveCallOK, Has, KeyAt, Settled
<1>4. MoveWorkerOK'
  BY DEF MoveInv, ChooseBackend, MoveWorkerOK, Live, Has, KeyAt
<1>5. ~ waived' => \A p \in Object \ crossed' : Live(p)' => MoveFileOK(p)'
  BY DEF MoveInv, ChooseBackend, MoveFileOK, Live, Has, KeyAt, Settled
<1> QED BY <1>1, <1>2, <1>3, <1>4, <1>5 DEF MoveInv, ChooseBackend

LEMMA MovePut == ASSUME MoveInv, NEW o \in Object, PutObject(o) PROVE MoveInv'
<1> DEFINE b == call[o].backend
<1>0. /\ b \in Backend /\ call[o].at = "chosen" /\ KeyAt(b, "plain") \in Key
      /\ UNCHANGED <<active, row, task, worker, locked, view, admin, crossed, waived, turns, faults>>
      /\ at' = [at EXCEPT ![b] = @ \cup {<<o, KeyAt(b, "plain")>>}]
      /\ call' = [call EXCEPT ![o].at = "stored"]
  BY DEF MoveInv, TypeOK, PutObject, KeyAt, Key
<1> HIDE DEF b
<1>1. TypeOK'
  BY <1>0 DEF MoveInv, TypeOK
<1>2. \A c \in Backend, p \in Object, k \in Key : Has(c, p, k) => Has(c, p, k)'
  BY <1>0 DEF MoveInv, TypeOK, Has
<1>3. \A c \in Backend : c = b => Has(c, o, "plain")'
  BY <1>0 DEF MoveInv, TypeOK, Has
<1>4. \A p \in Object : MoveCallOK(p)'
  BY <1>0, <1>2, <1>3 DEF MoveInv, TypeOK, MoveCallOK, Settled, Key, b
<1>5. MoveWorkerOK'
  BY <1>0, <1>2 DEF MoveInv, TypeOK, MoveWorkerOK, Live
<1>6. ~ waived' => \A p \in Object \ crossed' : Live(p)' => MoveFileOK(p)'
  BY <1>0, <1>2 DEF MoveInv, TypeOK, MoveFileOK, Live, Settled
<1> QED BY <1>0, <1>1, <1>4, <1>5, <1>6 DEF MoveInv

LEMMA MoveInsert == ASSUME MoveInv, NEW o \in Object, InsertRow(o) PROVE MoveInv'
<1> DEFINE b == call[o].backend
           k == KeyAt(b, "plain")
<1>0. /\ b \in Backend /\ call[o].at = "stored" /\ k \in Key /\ KeyAt(b, k) = k /\ row[o].status = "none"
      /\ UNCHANGED <<active, at, task, worker, locked, view, admin, crossed, waived, turns, faults>>
      /\ row' = [row EXCEPT ![o] = [status |-> "live", key |-> k]]
      /\ call' = [call EXCEPT ![o].at = "idle"]
  BY DEF MoveInv, TypeOK, InsertRow, KeyAt, Key, MoveCallOK
<1>1. o \notin crossed /\ ~ waived => Settled /\ admin = {} /\ b = active /\ Has(active, o, "plain")
  BY <1>0 DEF MoveInv, MoveCallOK
<1> HIDE DEF b
<1>2. TypeOK'
  BY <1>0 DEF MoveInv, TypeOK
<1>3. \A p \in Object : MoveCallOK(p)'
  BY <1>0 DEF MoveInv, TypeOK, MoveCallOK, Settled, Has
<1>4. MoveWorkerOK'
  <2>1. o \notin worker.page \cup worker.copied
    BY <1>0 DEF MoveInv, MoveWorkerOK
  <2>2. \A p \in worker.page \cup worker.copied : row'[p] = row[p]
    BY <1>0, <2>1 DEF MoveInv, TypeOK
  <2> QED BY <1>0, <2>2 DEF MoveInv, MoveWorkerOK, Live, Has
<1>5. ASSUME ~ waived', NEW p \in Object \ crossed', Live(p)' PROVE MoveFileOK(p)'
  <2>1. CASE p = o
    <3>1. Settled /\ admin = {} /\ worker.at = "idle" /\ Has(active, o, "plain") /\ b = active
      BY <1>0, <1>1, <1>5, <2>1 DEF MoveInv, MoveWorkerOK, Settled, TypeOK
    <3>2. row'[o].key = k
      BY <1>0 DEF MoveInv, TypeOK
    <3>3. Has(active, o, k)
      BY <1>0, <3>1 DEF Has
    <3> QED BY <1>0, <2>1, <3>1, <3>2, <3>3 DEF MoveFileOK, Has
  <2>2. CASE p # o
    BY <1>0, <1>5, <2>2 DEF MoveInv, TypeOK, MoveFileOK, Live, Settled, Has
  <2> QED BY <2>1, <2>2
<1> QED BY <1>0, <1>2, <1>3, <1>4, <1>5 DEF MoveInv

LEMMA MoveInsertFails == ASSUME MoveInv, NEW o \in Object, InsertFails(o) PROVE MoveInv'
<1>0. PICK b \in Backend, k \in Key :
        /\ call[o].at = "stored" /\ row[o].status = "none"
        /\ UNCHANGED <<active, row, task, worker, locked, view, admin, crossed, waived, turns>>
        /\ at' = [at EXCEPT ![b] = @ \ {<<o, k>>}]
        /\ call' = [call EXCEPT ![o].at = "idle"]
        /\ faults < MaxFaults /\ faults' = faults + 1
  <2> DEFINE b == IF view.backend = {} THEN active ELSE CHOOSE c \in view.backend : TRUE
  <2>1. b \in Backend
    BY DEF MoveInv, TypeOK
  <2>2. KeyAt(b, KeyAt(call[o].backend, "plain")) \in Key
    BY DEF KeyAt, Key
  <2> QED BY <2>1, <2>2, Zenon DEF InsertFails, Fault, MoveInv, MoveCallOK
<1>1. TypeOK'
  BY <1>0, MigrationAssumption DEF MoveInv, TypeOK
<1>2. \A c \in Backend, p \in Object \ {o}, j \in Key : Has(c, p, j) => Has(c, p, j)'
  BY <1>0 DEF MoveInv, TypeOK, Has
<1>3. \A p \in Object : MoveCallOK(p)'
  BY <1>0, <1>2 DEF MoveInv, TypeOK, MoveCallOK, Settled, Key
<1>4. MoveWorkerOK'
  BY <1>0, <1>2 DEF MoveInv, TypeOK, MoveWorkerOK, Live
<1>5. ~ waived' => \A p \in Object \ crossed' : Live(p)' => MoveFileOK(p)'
  BY <1>0, <1>2 DEF MoveInv, TypeOK, MoveFileOK, Live, Settled
<1> QED BY <1>0, <1>1, <1>3, <1>4, <1>5 DEF MoveInv

LEMMA MoveExpire == ASSUME MoveInv, Expire PROVE MoveInv'
<1>1. TypeOK' /\ view'.backend \subseteq {active}
  BY DEF MoveInv, TypeOK, Expire
<1> QED BY <1>1 DEF MoveInv, Expire, MoveCallOK, MoveWorkerOK, MoveFileOK, Live, Has, Settled

-----------------------------------------------------------------------------
\* What administrators do.

LEMMA MoveDispatch == ASSUME MoveInv, NEW b \in Backend, Dispatch(b) PROVE MoveInv'
<1>1. worker.at = "idle"
  BY DEF MoveInv, MoveWorkerOK, Dispatch
<1>2. TypeOK'
  BY MigrationAssumption DEF MoveInv, TypeOK, Dispatch, InFlight
<1>3. \A o \in Object : MoveCallOK(o)'
  BY DEF MoveInv, TypeOK, Dispatch, InFlight, MoveCallOK
<1>4. MoveWorkerOK'
  BY <1>1 DEF MoveInv, Dispatch, MoveWorkerOK
<1>5. ASSUME ~ waived', NEW o \in Object \ crossed', Live(o)' PROVE MoveFileOK(o)'
  <2>1. MoveFileOK(o) /\ ~ waived /\ (task.status = "failed" => b = task.target)
    BY <1>5 DEF MoveInv, Dispatch, Live
  <2>2. task.status \in {"none", "failed", "succeeded"} /\ task'.target = b /\ task'.status = "pending"
    BY DEF MoveInv, TypeOK, Dispatch
  <2>3. CASE task.status = "failed"
    BY <1>1, <2>1, <2>2, <2>3 DEF Dispatch, MoveFileOK, Settled, Has
  <2>4. CASE task.status # "failed"
    BY <1>1, <2>1, <2>2, <2>4 DEF Dispatch, MoveFileOK, Settled, Has
  <2> QED BY <2>3, <2>4
<1> QED BY <1>2, <1>3, <1>4, <1>5 DEF MoveInv, Dispatch

LEMMA MoveUpdate == ASSUME MoveInv, UpdateConfig PROVE MoveInv'
<1>1. TypeOK' /\ view'.backend = {} /\ waived'
  BY DEF MoveInv, TypeOK, UpdateConfig
<1>2. \A o \in Object : MoveCallOK(o)'
  BY <1>1 DEF MoveInv, UpdateConfig, MoveCallOK
<1>3. MoveWorkerOK'
  BY DEF MoveInv, TypeOK, UpdateConfig, MoveWorkerOK, Live, Has
<1> QED BY <1>1, <1>2, <1>3 DEF MoveInv

LEMMA MoveCheck == ASSUME MoveInv, NEW b \in Backend, CheckNoUploads(b) PROVE MoveInv'
<1>1. TypeOK'
  BY MigrationAssumption DEF MoveInv, TypeOK, CheckNoUploads, InFlight
<1>2. \A o \in Object : MoveCallOK(o)'
  BY DEF MoveInv, TypeOK, CheckNoUploads, InFlight, MoveCallOK
<1>3. MoveWorkerOK'
  BY DEF MoveInv, CheckNoUploads, MoveWorkerOK, Live, Has
<1>4. \A o \in Object : ~ Live(o)'
  BY DEF CheckNoUploads, Live
<1> QED BY <1>1, <1>2, <1>3, <1>4 DEF MoveInv, CheckNoUploads

LEMMA MoveChange == ASSUME MoveInv, ChangeDriver PROVE MoveInv'
<1>1. TypeOK' /\ view'.backend = {} /\ admin # {}
  BY DEF MoveInv, TypeOK, ChangeDriver
<1>2. ~ waived' => \A o \in Object \ crossed' : call[o].at = "idle" /\ ~ Live(o)'
  BY <1>1 DEF MoveInv, TypeOK, ChangeDriver, MoveCallOK, MoveFileOK, Live
<1>3. \A o \in Object : MoveCallOK(o)'
  BY <1>2 DEF MoveInv, ChangeDriver, MoveCallOK
<1>4. MoveWorkerOK'
  BY DEF MoveInv, ChangeDriver, MoveWorkerOK, Live, Has
<1> QED BY <1>1, <1>2, <1>3, <1>4 DEF MoveInv

-----------------------------------------------------------------------------
\* What the migration does.

\* While the worker is under way, no upload that nothing ran beside is.
LEMMA MoveAlone ==
  ASSUME MoveInv, worker.at # "idle" \/ ~ Settled, ~ waived, NEW o \in Object \ crossed
  PROVE  call[o].at = "idle"
  BY DEF MoveInv, MoveWorkerOK, MoveCallOK, Settled

LEMMA MoveIdle ==
  ASSUME NEW b \in Backend
  PROVE  {Idle, [Idle EXCEPT !.at = "locked"], [Idle EXCEPT !.at = "scan", !.source = b]} \subseteq MoveWorker
<1>1. 0 \in 0 .. Count /\ First \in Backend
  BY MigrationAssumption
<1>2. Idle \in MoveWorker
  BY <1>1 DEF Idle, MoveWorker
<1>3. [Idle EXCEPT !.at = "locked"] \in MoveWorker
  BY <1>1 DEF Idle, MoveWorker
<1>4. [Idle EXCEPT !.at = "scan", !.source = b] \in MoveWorker
  BY <1>1 DEF Idle, MoveWorker
<1> QED BY <1>2, <1>3, <1>4

LEMMA MoveLock == ASSUME MoveInv, Lock PROVE MoveInv'
<1>1. TypeOK'
  <2>1. CASE locked
    BY <2>1 DEF MoveInv, TypeOK, Lock
  <2>2. CASE ~ locked
    <3>1. worker' \in MoveWorker
      BY <2>2, MoveIdle, MigrationAssumption DEF Lock
    <3> QED BY <2>2, <3>1 DEF MoveInv, TypeOK, Lock, MoveWorker
  <2> QED BY <2>1, <2>2
<1>2. /\ task'.status \in {"failed", "running"} /\ task'.target = task.target
      /\ worker'.at \in {"idle", "locked"} /\ worker'.page = {} /\ worker'.copied = {}
      /\ worker'.at # "idle" => task'.status = "running"
      /\ UNCHANGED <<active, at, row, view, call, admin, crossed, waived>>
  BY DEF MoveInv, TypeOK, Lock, Idle, MoveWorkerOK
<1>3. ~ waived => ~ Settled
  BY DEF Lock, Settled
<1>4. \A o \in Object : MoveCallOK(o)'
  BY <1>2, <1>3, MoveAlone DEF MoveInv, MoveCallOK
<1>5. MoveWorkerOK'
  BY <1>2 DEF MoveWorkerOK
<1>6. ~ waived' => \A o \in Object \ crossed' : Live(o)' => MoveFileOK(o)'
  BY <1>2, <1>3 DEF MoveInv, MoveFileOK, Settled, Live, Has
<1> QED BY <1>1, <1>2, <1>4, <1>5, <1>6 DEF MoveInv

\* The target becomes active once every file is there.
LEMMA MoveActivate ==
  ASSUME MoveInv, worker.at # "idle", worker.page = {}, worker.copied = {}, Activate,
         UNCHANGED <<at, row, task, call, admin, crossed, waived, turns, faults, locked>>,
         ~ waived => \A o \in Object \ crossed : Live(o) => Has(task.target, o, row[o].key)
  PROVE  MoveInv'
<1>1. TypeOK' /\ view'.backend = {} /\ worker' = [worker EXCEPT !.at = "switched"]
  BY DEF MoveInv, TypeOK, Activate
<1>2. /\ worker'.at = "switched" /\ worker'.page = {} /\ worker'.copied = {} /\ active' = task.target
      /\ task.status = "running"
  BY <1>1 DEF MoveInv, TypeOK, Activate, MoveWorkerOK
<1>3. \A o \in Object : MoveCallOK(o)'
  BY MoveAlone DEF MoveInv, MoveCallOK
<1>4. MoveWorkerOK'
  BY <1>2 DEF MoveWorkerOK
<1>5. ~ waived' => \A o \in Object \ crossed' : Live(o)' => MoveFileOK(o)'
  BY <1>2 DEF MoveInv, MoveFileOK, Live, Has
<1> QED BY <1>1, <1>3, <1>4, <1>5 DEF MoveInv

LEMMA MoveSwitchAtOnce == ASSUME MoveInv, SwitchAtOnce PROVE MoveInv'
<1>1. worker.at = "locked" /\ worker.page = {} /\ worker.copied = {} /\ task.status = "running"
  BY DEF MoveInv, SwitchAtOnce, MoveWorkerOK
<1>2. ~ waived => \A o \in Object \ crossed : Live(o) => Has(task.target, o, row[o].key)
  BY <1>1 DEF MoveInv, SwitchAtOnce, MoveFileOK, Live
<1> QED BY <1>1, <1>2, MoveActivate DEF SwitchAtOnce

LEMMA MoveScan == ASSUME MoveInv, Scan PROVE MoveInv'
<1>1. TypeOK'
  <2>1. worker' \in MoveWorker
    BY MoveIdle DEF MoveInv, TypeOK, Scan
  <2> QED BY <2>1 DEF MoveInv, TypeOK, Scan, MoveWorker
<1>2. /\ worker'.at = "scan" /\ worker'.source = active /\ worker'.cursor = 0
      /\ worker'.page = {} /\ worker'.copied = {} /\ task.status = "running"
  BY DEF MoveInv, Scan, Idle, MoveWorkerOK
<1>3. \A o \in Object : MoveCallOK(o)'
  BY DEF MoveInv, Scan, MoveCallOK, Settled, Has
<1>4. MoveWorkerOK'
  BY <1>2 DEF Scan, MoveWorkerOK
<1>5. ~ waived' => \A o \in Object \ crossed' : Live(o)' => MoveFileOK(o)'
  BY <1>2 DEF MoveInv, Scan, MoveFileOK, Live, Has, Settled, Object
<1> QED BY <1>1, <1>3, <1>4, <1>5 DEF MoveInv, Scan

LEMMA MoveOver ==
  ASSUME MoveInv, NEW o \in Object, Over(o)
  PROVE  /\ worker' \in MoveWorker
         /\ worker'.at = worker.at /\ worker'.source = worker.source /\ worker'.cursor = worker.cursor
         /\ worker'.failed = worker.failed
         /\ worker'.page = worker.page \ {o} /\ worker'.copied = worker.copied \ {o}
  BY DEF MoveInv, TypeOK, Over, MoveWorker

LEMMA MoveSkip == ASSUME MoveInv, NEW o \in Object, Skip(o) PROVE MoveInv'
<1>0. Over(o) /\ Has(task.target, o, row[o].key)
      /\ UNCHANGED <<active, at, row, task, locked, view, call, admin, crossed, waived, turns, faults>>
  BY DEF Skip
<1>1. TypeOK'
  BY <1>0, MoveOver DEF MoveInv, TypeOK, MoveWorker
<1>2. \A p \in Object : MoveCallOK(p)'
  BY <1>0 DEF MoveInv, MoveCallOK, Settled, Has
<1>3. MoveWorkerOK'
  BY <1>0, MoveOver DEF MoveInv, MoveWorkerOK, Live, Has
<1>4. ~ waived' => \A p \in Object \ crossed' : Live(p)' => MoveFileOK(p)'
  BY <1>0, MoveOver DEF MoveInv, MoveFileOK, Live, Has, Settled
<1> QED BY <1>0, <1>1, <1>2, <1>3, <1>4 DEF MoveInv

LEMMA MoveCopy == ASSUME MoveInv, NEW o \in Object, Copy(o) PROVE MoveInv'
<1> DEFINE k == KeyAt(task.target, row[o].key)
<1>0. /\ o \in worker.page /\ task.target \in Backend /\ k \in Key
      /\ UNCHANGED <<active, row, task, locked, view, call, admin, crossed, waived, turns, faults>>
      /\ at' = [at EXCEPT ![task.target] = @ \cup {<<o, k>>}]
      /\ worker' = [worker EXCEPT !.page = @ \ {o}, !.copied = @ \cup {o}]
  BY MoveKeys DEF MoveInv, TypeOK, Copy
<1>1. /\ worker' \in MoveWorker
      /\ worker'.at = worker.at /\ worker'.source = worker.source /\ worker'.cursor = worker.cursor
      /\ worker'.failed = worker.failed
      /\ worker'.page = worker.page \ {o} /\ worker'.copied = worker.copied \cup {o}
  BY <1>0 DEF MoveInv, TypeOK, MoveWorker
<1> HIDE DEF k
<1>2. TypeOK'
  <2>1. at' \in [Backend -> SUBSET (Object \X Key)]
    BY <1>0 DEF MoveInv, TypeOK
  <2> QED BY <1>0, <1>1, <2>1 DEF MoveInv, TypeOK, MoveWorker
<1>3. \A c \in Backend, p \in Object, j \in Key : Has(c, p, j) => Has(c, p, j)'
  BY <1>0 DEF MoveInv, TypeOK, Has
<1>4. Has(task.target, o, row[o].key)'
  BY <1>0 DEF MoveInv, TypeOK, Has, k
<1>5. \A p \in Object : MoveCallOK(p)'
  BY <1>0, <1>3 DEF MoveInv, TypeOK, MoveCallOK, Settled, Key
<1>6. MoveWorkerOK'
  <2>1. \A p \in worker.copied : row[p].key \in Key /\ task.target \in Backend /\ p \in Object
    BY DEF MoveInv, TypeOK
  <2>2. \A p \in worker'.copied : Live(p)' => Has(task.target, p, row[p].key)'
    BY <1>0, <1>1, <1>3, <1>4, <2>1 DEF MoveInv, MoveWorkerOK, Live
  <2>3. worker.at = "scan"
    BY <1>0 DEF MoveInv, MoveWorkerOK
  <2> QED BY <1>0, <1>1, <2>2, <2>3 DEF MoveInv, MoveWorkerOK
<1>7. ~ waived' => \A p \in Object \ crossed' : Live(p)' => MoveFileOK(p)'
  <2>1. \A p \in Object : row[p].key \in Key /\ task.target \in Backend /\ active \in Backend
    BY DEF MoveInv, TypeOK
  <2> QED BY <1>0, <1>1, <1>3, <2>1 DEF MoveInv, MoveFileOK, Live, Settled
<1> QED BY <1>0, <1>2, <1>5, <1>6, <1>7 DEF MoveInv

LEMMA MoveRekey == ASSUME MoveInv, NEW o \in Object, Rekey(o) PROVE MoveInv'
<1>0. /\ o \in worker.copied /\ Over(o)
      /\ UNCHANGED <<active, at, task, locked, view, call, admin, crossed, waived, turns, faults>>
      /\ row' = IF Live(o) THEN [row EXCEPT ![o].key = KeyAt(task.target, @)] ELSE row
  BY DEF Rekey
<1>1. row'  \in [Object -> [status : {"none", "live", "deleted"}, key : Key]]
  BY <1>0, MoveKeys DEF MoveInv, TypeOK
<1>2. \A p \in Object : row'[p].status = row[p].status
  BY <1>0 DEF MoveInv, TypeOK
<1>3. \A p \in Object \ {o} : row'[p] = row[p]
  BY <1>0 DEF MoveInv, TypeOK
<1>4. Live(o) => Has(task.target, o, row[o].key) /\ Has(task.target, o, row'[o].key)
  <2>1. Live(o) => row'[o].key = KeyAt(task.target, row[o].key) /\ row[o].key \in Key
    BY <1>0 DEF MoveInv, TypeOK
  <2>2. Live(o) => Has(task.target, o, row[o].key)
    BY <1>0 DEF MoveInv, MoveWorkerOK
  <2> QED BY <2>1, <2>2, MoveKeys DEF Has
<1>5. worker.at = "scan" /\ task.status = "running"
  BY <1>0 DEF MoveInv, MoveWorkerOK
<1>6. TypeOK'
  BY <1>0, <1>1, MoveOver DEF MoveInv, TypeOK, MoveWorker
<1>7. \A p \in Object : MoveCallOK(p)'
  BY <1>0, <1>2 DEF MoveInv, MoveCallOK, Settled, Has
<1>8. MoveWorkerOK'
  BY <1>0, <1>2, <1>3, <1>5, MoveOver DEF MoveInv, TypeOK, MoveWorkerOK, Live, Has
<1>9. ASSUME ~ waived', NEW p \in Object \ crossed', Live(p)' PROVE MoveFileOK(p)'
  <2>1. MoveFileOK(p) /\ Live(p)
    BY <1>0, <1>2, <1>9 DEF MoveInv, Live
  <2>2. CASE p = o
    BY <1>0, <1>4, <1>5, <2>1, <2>2, MoveOver DEF MoveFileOK, Settled, Has
  <2>3. CASE p # o
    BY <1>0, <1>3, <1>9, <2>1, <2>3, MoveOver DEF MoveFileOK, Settled, Has
  <2> QED BY <2>2, <2>3
<1> QED BY <1>0, <1>6, <1>7, <1>8, <1>9 DEF MoveInv

\* A file that nothing ran beside is not given up.
LEMMA MoveNotMissing ==
  ASSUME MoveInv, NEW o \in Object \ crossed, MarkMissing(o), Live(o), ~ waived
  PROVE  FALSE
<1>1. worker.at = "scan" /\ MoveFileOK(o)
  BY DEF MoveInv, MoveWorkerOK, MarkMissing
<1> QED BY <1>1 DEF MoveFileOK, MarkMissing

LEMMA MoveMark == ASSUME MoveInv, NEW o \in Object, MarkMissing(o) PROVE MoveInv'
<1>0. /\ o \in worker.page /\ Over(o)
      /\ UNCHANGED <<active, at, task, locked, view, call, admin, crossed, waived, turns, faults>>
      /\ row' = [row EXCEPT ![o].status = "deleted"]
  BY DEF MarkMissing
<1>1. row' \in [Object -> [status : {"none", "live", "deleted"}, key : Key]]
  <2>1. [row[o] EXCEPT !.status = "deleted"] \in [status : {"none", "live", "deleted"}, key : Key]
    BY DEF MoveInv, TypeOK
  <2> QED BY <1>0, <2>1 DEF MoveInv, TypeOK
<1>2. \A p \in Object \ {o} : row'[p] = row[p]
  BY <1>0 DEF MoveInv, TypeOK
<1>3. row'[o].status = "deleted" /\ row[o].status # "none"
  BY <1>0 DEF MoveInv, TypeOK, MoveWorkerOK
<1>4. TypeOK'
  BY <1>0, <1>1, MoveOver DEF MoveInv, TypeOK, MoveWorker
<1>5. \A p \in Object : MoveCallOK(p)'
  BY <1>0, <1>2, <1>3 DEF MoveInv, MoveCallOK, Settled, Has
<1>6. MoveWorkerOK'
  BY <1>0, <1>2, MoveOver DEF MoveInv, TypeOK, MoveWorkerOK, Live, Has
<1>7. ~ waived' => \A p \in Object \ crossed' : Live(p)' => MoveFileOK(p)'
  BY <1>0, <1>2, <1>3, MoveOver DEF MoveInv, MoveFileOK, Live, Has, Settled
<1> QED BY <1>0, <1>4, <1>5, <1>6, <1>7 DEF MoveInv

LEMMA MoveFailObject == ASSUME MoveInv, NEW o \in Object, FailObject(o) PROVE MoveInv'
<1>0. /\ UNCHANGED <<active, at, row, task, locked, view, call, admin, crossed, waived, turns>>
      /\ worker' = [worker EXCEPT !.page = @ \ {o}, !.copied = @ \ {o}, !.failed = TRUE]
      /\ faults < MaxFaults /\ faults' = faults + 1
  BY DEF FailObject, Fault
<1>1. /\ worker' \in MoveWorker
      /\ worker'.at = worker.at /\ worker'.source = worker.source /\ worker'.failed
      /\ worker'.page = worker.page \ {o} /\ worker'.copied = worker.copied \ {o}
  BY <1>0 DEF MoveInv, TypeOK, MoveWorker
<1>2. TypeOK'
  BY <1>0, <1>1, MigrationAssumption DEF MoveInv, TypeOK, MoveWorker
<1>3. \A p \in Object : MoveCallOK(p)'
  BY <1>0 DEF MoveInv, MoveCallOK, Settled, Has
<1>4. MoveWorkerOK'
  BY <1>0, <1>1 DEF MoveInv, MoveWorkerOK, Live, Has
<1>5. ~ waived' => \A p \in Object \ crossed' : Live(p)' => MoveFileOK(p)'
  BY <1>0, <1>1 DEF MoveInv, MoveFileOK, Live, Has, Settled
<1> QED BY <1>0, <1>3, <1>4, <1>5, <1>2 DEF MoveInv

\* A page begins with the first file beyond the cursor, and leaves none out before its last.
LEMMA MovePages ==
  ASSUME TypeOK
  PROVE  /\ Page = {} => Beyond = {}
         /\ \A o \in Page, p \in Beyond : p <= o => p \in Page
         /\ Page # {} => \E o \in Page : \A p \in Page : p <= o
<1> DEFINE Upto(o) == {p \in Beyond : p <= o}
<1>1. Beyond \subseteq Object /\ Object \subseteq Nat /\ IsFiniteSet(Beyond) /\ \A p \in Beyond : p \in Nat
  <2>1. IsFiniteSet(Object) /\ Beyond \subseteq Object /\ Object \subseteq Nat
    BY FS_Interval, MigrationAssumption DEF Object, Beyond
  <2> QED BY <2>1, FS_Subset
<1>2. \A o \in Beyond : IsFiniteSet(Upto(o))
  BY <1>1, FS_Subset
<1>3. ASSUME Page = {}, Beyond # {} PROVE FALSE
  <2>1. PICK o \in Beyond : \A p \in Beyond : o <= p
    BY <1>1, <1>3, LeastOf
  <2>2. Upto(o) = {o}
    <3>1. \A p \in Beyond : p <= o => p = o
      BY <1>1, <2>1
    <3>2. o <= o
      BY <1>1, <2>1
    <3> QED BY <2>1, <3>1, <3>2
  <2>3. Cardinality(Upto(o)) <= BatchSize
    BY <2>2, FS_Singleton, MigrationAssumption
  <2> QED BY <1>3, <2>3 DEF Page
<1>4. ASSUME NEW o \in Page, NEW p \in Beyond, p <= o PROVE p \in Page
  <2>1. o \in Beyond /\ Cardinality(Upto(o)) <= BatchSize
    BY DEF Page
  <2>2. Upto(p) \subseteq Upto(o)
    <3>1. \A q \in Beyond : q <= p => q <= o
      BY <1>1, <1>4, <2>1
    <3> QED BY <3>1
  <2>3. Cardinality(Upto(p)) <= Cardinality(Upto(o)) /\ Cardinality(Upto(p)) \in Nat /\ Cardinality(Upto(o)) \in Nat
    BY <1>2, <2>1, <2>2, FS_Subset, FS_CardinalityType
  <2>4. Cardinality(Upto(p)) <= BatchSize
    BY <2>1, <2>3, MigrationAssumption
  <2> QED BY <2>4 DEF Page
<1>5. ASSUME Page # {} PROVE \E o \in Page : \A p \in Page : p <= o
  <2>1. Page \in SUBSET Beyond
    BY DEF Page
  <2>2. IsFiniteSet(Page) /\ Page \subseteq Nat
    BY <1>1, <2>1, FS_Subset
  <2> QED BY <1>5, <2>2, GreatestOf
<1> QED BY <1>3, <1>4, <1>5

LEMMA MoveNextPage == ASSUME MoveInv, NextPage PROVE MoveInv'
<1>0. /\ worker.at = "scan" /\ worker.page = {} /\ worker.copied = {} /\ ~ worker.failed
      /\ UNCHANGED <<active, at, row, task, locked, view, call, admin, crossed, waived, turns, faults>>
  BY DEF NextPage, Waited
<1>1. PICK c \in Page : /\ \A p \in Page : p <= c
                        /\ worker' = [worker EXCEPT !.page = Page, !.cursor = c]
  <2> DEFINE c == CHOOSE o \in Page : \A p \in Page : p <= o
  <2>1. c \in Page /\ \A p \in Page : p <= c
    BY MovePages DEF NextPage, MoveInv
  <2> QED BY <2>1, Zenon DEF NextPage
<1>2. Page \subseteq {o \in Object : o > worker.cursor /\ Live(o)} /\ Object = 1 .. Count
  BY DEF Page, Beyond, Object
<1>3. /\ worker' \in MoveWorker /\ worker'.at = "scan" /\ worker'.source = worker.source
      /\ worker'.copied = {} /\ worker'.page = Page /\ worker'.cursor = c
  <2>1. c \in 0 .. Count /\ Page \in SUBSET Object
    BY <1>1, <1>2
  <2> QED BY <1>0, <1>1, <2>1 DEF MoveInv, TypeOK, MoveWorker
<1>4. TypeOK'
  BY <1>0, <1>3 DEF MoveInv, TypeOK, MoveWorker
<1>5. \A o \in Object : MoveCallOK(o)'
  BY <1>0 DEF MoveInv, MoveCallOK, Settled, Has
<1>6. MoveWorkerOK'
  BY <1>0, <1>2, <1>3 DEF MoveInv, MoveWorkerOK, Live
<1>7. ASSUME ~ waived', NEW o \in Object \ crossed', Live(o)' PROVE MoveFileOK(o)'
  <2>1. MoveFileOK(o) /\ Live(o)
    BY <1>0, <1>7 DEF MoveInv, Live
  <2>2. o <= worker.cursor => Has(task.target, o, row[o].key)
    BY <1>0, <2>1 DEF MoveFileOK
  <2>3. ~ (o <= worker.cursor) => o \in Beyond
    BY <2>1 DEF MoveInv, TypeOK, Beyond, Object
  <2>4. o <= c => o \in Page \/ Has(task.target, o, row[o].key)
    BY <2>2, <2>3, MovePages DEF MoveInv
  <2> QED BY <1>0, <1>3, <2>1, <2>4 DEF MoveFileOK, Has, Settled
<1> QED BY <1>0, <1>4, <1>5, <1>6, <1>7 DEF MoveInv

LEMMA MoveSwitch == ASSUME MoveInv, Switch PROVE MoveInv'
<1>1. /\ worker.at = "scan" /\ worker.page = {} /\ worker.copied = {} /\ ~ worker.failed /\ Beyond = {}
  BY MovePages DEF Switch, Waited, MoveInv
<1>2. ASSUME ~ waived, NEW o \in Object \ crossed, Live(o) PROVE Has(task.target, o, row[o].key)
  <2>1. MoveFileOK(o)
    BY <1>2 DEF MoveInv
  <2>2. o <= worker.cursor
    BY <1>1, <1>2 DEF Beyond, MoveInv, TypeOK, Object
  <2> QED BY <1>1, <2>1, <2>2 DEF MoveFileOK
<1> QED BY <1>1, <1>2, MoveActivate DEF Switch

\* The worker ends, or is cut off.
LEMMA MoveEnd ==
  ASSUME MoveInv, worker.at # "idle", worker' = Idle, TypeOK',
         UNCHANGED <<active, at, row, view, call, admin, crossed, waived>>,
         \/ UNCHANGED task
         \/ task' = [task EXCEPT !.status = "failed"]
         \/ worker.at = "switched" /\ task' = [task EXCEPT !.status = "succeeded"]
  PROVE  MoveInv'
<1>1. /\ worker'.at = "idle" /\ worker'.page = {} /\ worker'.copied = {} /\ task'.target = task.target
      /\ ~ Settled' \/ worker.at = "switched" 
  BY DEF Idle, MoveInv, TypeOK, MoveWorkerOK, Settled
<1>2. \A o \in Object : MoveCallOK(o)'
  BY MoveAlone DEF MoveInv, MoveCallOK
<1>3. MoveWorkerOK'
  BY <1>1 DEF MoveWorkerOK
<1>4. ~ waived' => \A o \in Object \ crossed' : Live(o)' => MoveFileOK(o)'
  BY <1>1 DEF MoveInv, MoveFileOK, Live, Has, Settled
<1> QED BY <1>2, <1>3, <1>4 DEF MoveInv

LEMMA MoveStop == ASSUME MoveInv, Succeed \/ Fail \/ Crash PROVE MoveInv'
<1>1. Idle \in MoveWorker
  BY MoveIdle, MigrationAssumption
<1>2. CASE Succeed
  <2>1. TypeOK'
    BY <1>1, <1>2 DEF MoveInv, TypeOK, Succeed, MoveWorker
  <2> QED BY <1>2, <2>1, MoveEnd DEF Succeed
<1>3. CASE Fail
  <2>1. TypeOK'
    <3>1. faults' \in 0 .. MaxFaults
      BY <1>3, MigrationAssumption DEF MoveInv, TypeOK, Fail, Fault
    <3> QED BY <1>1, <1>3, <3>1 DEF MoveInv, TypeOK, Fail, MoveWorker
  <2> QED BY <1>3, <2>1, MoveEnd DEF Fail, Waited
<1>4. CASE Crash
  <2>1. TypeOK'
    BY <1>1, <1>4, MigrationAssumption DEF MoveInv, TypeOK, Crash, Fault, MoveWorker
  <2> QED BY <1>4, <2>1, MoveEnd DEF Crash
<1> QED BY <1>2, <1>3, <1>4

LEMMA MoveSame ==
  ASSUME MoveInv, UNCHANGED <<active, at, row, task, worker, view, call, admin, crossed, waived, turns, faults>>,
         locked' \in BOOLEAN
  PROVE  MoveInv'
  BY DEF MoveInv, TypeOK, MoveCallOK, MoveWorkerOK, MoveFileOK, Live, Has, Settled

LEMMA MoveStep == ASSUME MoveInv, [Next]_vars PROVE MoveInv'
<1>1. ASSUME NEW o \in Object,
             AskReadOnly(o) \/ ChooseBackend(o) \/ PutObject(o) \/ InsertRow(o) \/ InsertFails(o)
      PROVE  MoveInv'
  BY <1>1, MoveAsk, MoveChoose, MovePut, MoveInsert, MoveInsertFails
<1>2. ASSUME NEW o \in Object, Skip(o) \/ Copy(o) \/ Rekey(o) \/ MarkMissing(o) \/ FailObject(o)
      PROVE  MoveInv'
  BY <1>2, MoveSkip, MoveCopy, MoveRekey, MoveMark, MoveFailObject
<1>3. CASE Lock \/ SwitchAtOnce \/ Scan \/ NextPage \/ Switch
  BY <1>3, MoveLock, MoveSwitchAtOnce, MoveScan, MoveNextPage, MoveSwitch
<1>4. CASE Succeed \/ Fail \/ Crash
  BY <1>4, MoveStop
<1>5. CASE LapseLock \/ UNCHANGED vars
  BY <1>5, MoveSame DEF LapseLock, vars, MoveInv, TypeOK
<1>6. ASSUME NEW b \in Backend, Dispatch(b) \/ CheckNoUploads(b) PROVE MoveInv'
  BY <1>6, MoveDispatch, MoveCheck
<1>7. CASE Expire \/ UpdateConfig \/ ChangeDriver
  BY <1>7, MoveExpire, MoveUpdate, MoveChange
<1> QED BY <1>1, <1>2, <1>3, <1>4, <1>5, <1>6, <1>7 DEF Next, Migrate

LEMMA MoveStart == Init => MoveInv
<1> SUFFICES ASSUME Init PROVE MoveInv
  OBVIOUS
<1>1. TypeOK
  <2>1. worker \in MoveWorker
    BY MoveIdle, MigrationAssumption DEF Init
  <2>2. turns \in 0 .. MaxTurns /\ faults \in 0 .. MaxFaults /\ active \in Backend
    BY MigrationAssumption DEF Init
  <2>3. task \in [status : {"none", "pending", "running", "failed", "succeeded"}, target : Backend]
    BY MigrationAssumption DEF Init
  <2>4. call \in [Object -> [at : {"idle", "allowed", "chosen", "stored"}, backend : Backend]]
    BY MigrationAssumption DEF Init
  <2>5. /\ row \in [Object -> [status : {"none", "live", "deleted"}, key : Key]]
        /\ view \in [readOnly : {"unknown", "yes", "no"}, backend : SUBSET Backend]
    BY DEF Init, Key
  <2> QED BY <2>1, <2>2, <2>3, <2>4, <2>5 DEF Init, TypeOK, MoveWorker
<1> QED BY <1>1 DEF Init, MoveInv, MoveCallOK, MoveWorkerOK, Idle, Live

LEMMA MoveRuns == SuiteSpec => Spec
<1>1. SuiteInit => Init
  BY DEF SuiteInit
<1>2. [SuiteNext]_allVars => [Next]_vars
  BY DEF SuiteNext, allVars
<1> QED BY <1>1, <1>2, PTL DEF SuiteSpec, Spec

THEOREM MoveInvariant == Spec => []MoveInv
<1> QED BY MoveStart, MoveStep, PTL DEF Spec

\* A file stored before a migration was dispatched can be read after it, however often the
\* migration failed, died or started over (src/internal/apps/upload/task/storage_migration.go:141).
THEOREM MigratedStaysReadable == SuiteSpec => []MigratedIsReadable
<1>1. MoveInv => MigratedIsReadable
  BY DEF MoveInv, MoveFileOK, MigratedIsReadable, Readable
<1> QED BY <1>1, MoveRuns, MoveInvariant, PTL

\* A row is given up only when no backend has its object
\* (src/internal/apps/upload/task/storage_migration.go:255).
THEOREM OnlyMissingMarked == SuiteSpec => OnlyMissingIsMarked
<1> DEFINE Kept == \A o \in Object \ crossed :
                     Live(o) /\ row'[o].status = "deleted" /\ ~ waived
                       => \A b \in Backend : \A k \in Key : <<o, k>> \notin at[b]
<1>1. MoveInv /\ [Next]_vars => [Kept]_vars
  <2> SUFFICES ASSUME MoveInv, [Next]_vars, NEW o \in Object \ crossed, Live(o), row'[o].status = "deleted", ~ waived
               PROVE  FALSE
    BY DEF Kept
  <2>1. row[o].status = "live" /\ row' # row
    BY DEF Live
  <2>2. ~ MarkMissing(o)
    BY MoveNotMissing
  <2>3. \A p \in Object \ {o} : ~ MarkMissing(p)
    BY <2>1 DEF MarkMissing, MoveInv, TypeOK
  <2>4. \A p \in Object : ~ InsertRow(p) /\ ~ Rekey(p)
    BY <2>1 DEF InsertRow, Rekey, MoveInv, TypeOK
  <2> QED BY <2>1, <2>2, <2>3, <2>4
           DEF Next, Migrate, vars, AskReadOnly, ChooseBackend, PutObject, InsertFails, Expire, Dispatch, Lock,
               SwitchAtOnce, Scan, NextPage, Skip, Copy, FailObject, Switch, Succeed, Fail, Crash, LapseLock,
               UpdateConfig, CheckNoUploads, ChangeDriver
<1> QED BY <1>1, MoveRuns, MoveInvariant, PTL DEF Spec, OnlyMissingIsMarked
-----------------------------------------------------------------------------
(* Walks through a list *)

Walk == [at : {"count", "find", "done"}, page : Nat \ {0}, cursor : Nat, total : Nat,
         began : SUBSET Listed, seen : SUBSET Listed]

WalkTyped ==
  /\ tList \in T!List /\ tFilter \in BOOLEAN
  /\ tOrder \in Seq(Listed) /\ T!IsInjective(tOrder)
  /\ tWalk \in Walk
  /\ tGone \in SUBSET Listed /\ tUnsteady \in BOOLEAN /\ tWrites \in 0 .. MaxWrites
  /\ tStatus \in [Listed -> T!Status] /\ tFigures = <<>> /\ tCame \in BOOLEAN

WalkRows == {tOrder[i] : i \in 1 .. Len(tOrder)}

\* Nothing a walk by cursor has not seen is behind the cursor.
WalkByCursor ==
  /\ \A r \in tWalk.began : r \in tWalk.seen \cup tGone \/ (r \in WalkRows /\ r > tWalk.cursor)
  /\ tWalk.at = "done" => tWalk.began \subseteq tWalk.seen \cup tGone

\* As long as no row leaves or moves, rows only move towards the end of a list: those on
\* the pages behind the reader that were there when it began have been seen.
WalkByPage ==
  /\ tWalk.at = "done" => tWalk.began \subseteq tWalk.seen
  /\ tWalk.at # "done" =>
       /\ tWalk.began \subseteq WalkRows
       /\ \A i \in 1 .. Len(tOrder) :
            tOrder[i] \in tWalk.began /\ i <= (tWalk.page - 1) * PageSize => tOrder[i] \in tWalk.seen
  /\ tWalk.at = "find" => tWalk.total = Len(tOrder)

WalkInv ==
  /\ WalkTyped
  /\ T!ByCursor => WalkByCursor
  /\ ~ T!ByCursor /\ tGone = {} /\ ~ tUnsteady => WalkByPage

-----------------------------------------------------------------------------
LEMMA WalkConstants ==
  /\ Listed \subseteq Nat \ {0} /\ IsFiniteSet(Listed) /\ PageSize \in Nat \ {0} /\ MaxWrites \in Nat
  /\ \A S : T!Cardinality(S) = Cardinality(S)
<1>1. T!WalksAssumption
  BY ConstantsFit
<1>2. \A S : T!Cardinality(S) = Cardinality(S)
  BY Zenon DEF T!Cardinality, Cardinality
<1>3. T!IsFiniteSet(Listed) <=> IsFiniteSet(Listed)
  BY Zenon DEF T!IsFiniteSet, IsFiniteSet
<1> QED BY <1>1, <1>2, <1>3 DEF T!WalksAssumption

LEMMA WalkToSet == WalkTyped => T!ToSet(tOrder) = WalkRows
  BY DEF WalkTyped, Walk, T!ToSet, WalkRows

LEMMA WalkInserted ==
  ASSUME NEW s \in Seq(Listed), NEW i \in 1 .. Len(s) + 1, NEW r \in Listed, T!IsInjective(s),
         \A j \in 1 .. Len(s) : s[j] # r,
         NEW t, t = T!InsertAt(s, i, r)
  PROVE  /\ t \in Seq(Listed) /\ Len(t) = Len(s) + 1 /\ T!IsInjective(t) /\ t[i] = r
         /\ \A j \in 1 .. i - 1 : t[j] = s[j]
         /\ \A j \in i .. Len(s) : t[j + 1] = s[j]
<1> DEFINE a == SubSeq(s, 1, i - 1)
           b == SubSeq(s, i, Len(s))
<1>1. t = (a \o <<r>>) \o b
  BY DEF T!InsertAt
<1>2. a \in Seq(Listed) /\ Len(a) = i - 1 /\ \A j \in 1 .. i - 1 : a[j] = s[j]
  BY SubSeqProperties
<1>3. b \in Seq(Listed) /\ Len(b) = Len(s) - i + 1 /\ \A j \in 1 .. Len(s) - i + 1 : b[j] = s[i + j - 1]
  BY SubSeqProperties
<1> HIDE DEF a, b
<1>4. <<r>> \in Seq(Listed) /\ Len(<<r>>) = 1 /\ <<r>>[1] = r
  OBVIOUS
<1> DEFINE c == a \o <<r>>
<1>5. c \in Seq(Listed) /\ Len(c) = i /\ c[i] = r /\ \A j \in 1 .. i - 1 : c[j] = s[j]
  BY <1>2, <1>4, ConcatProperties
<1> HIDE DEF c
<1>6. /\ t \in Seq(Listed) /\ Len(t) = Len(s) + 1
      /\ \A j \in 1 .. Len(s) + 1 : t[j] = IF j <= i THEN c[j] ELSE b[j - i]
  <2>1. t = c \o b
    BY <1>1 DEF c
  <2>2. /\ t \in Seq(Listed) /\ Len(t) = Len(c) + Len(b)
        /\ \A j \in 1 .. Len(c) + Len(b) : t[j] = IF j <= Len(c) THEN c[j] ELSE b[j - Len(c)]
    BY <1>3, <1>5, <2>1, ConcatProperties
  <2>3. Len(c) = i /\ Len(c) + Len(b) = Len(s) + 1
    BY <1>3, <1>5
  <2> QED BY <2>2, <2>3
<1>7. t[i] = r /\ \A j \in 1 .. i - 1 : t[j] = s[j]
  BY <1>5, <1>6
<1>8. ASSUME NEW j \in i .. Len(s) PROVE t[j + 1] = s[j]
  <2>1. j + 1 - i \in 1 .. Len(s) - i + 1 /\ i + (j + 1 - i) - 1 = j /\ j + 1 \in 1 .. Len(s) + 1 /\ ~ (j + 1 <= i)
    OBVIOUS
  <2>2. t[j + 1] = b[j + 1 - i]
    BY <1>6, <2>1
  <2>3. b[j + 1 - i] = s[i + (j + 1 - i) - 1]
    BY <1>3, <2>1
  <2> QED BY <2>1, <2>2, <2>3
<1>9. T!IsInjective(t)
  <2> SUFFICES ASSUME NEW x \in 1 .. Len(t), NEW y \in 1 .. Len(t), t[x] = t[y], x < y PROVE FALSE
    BY <1>6 DEF T!IsInjective
  <2>1. CASE y < i
    BY <2>1, <1>6, <1>7 DEF T!IsInjective
  <2>2. CASE y = i
    BY <2>2, <1>6, <1>7
  <2>3. CASE y > i
    <3>1. y - 1 \in i .. Len(s) /\ t[y] = s[y - 1]
      <4>1. y - 1 \in i .. Len(s) /\ (y - 1) + 1 = y
        BY <2>3, <1>6
      <4> QED BY <4>1, <1>8
    <3>2. CASE x < i
      BY <3>1, <3>2, <1>6, <1>7 DEF T!IsInjective
    <3>3. CASE x = i
      BY <3>1, <3>3, <1>6, <1>7
    <3>4. CASE x > i
      <4>1. x - 1 \in i .. Len(s) /\ (x - 1) + 1 = x
        BY <3>4, <1>6
      <4>2. t[x] = s[x - 1]
        BY <4>1, <1>8
      <4> QED BY <3>1, <4>1, <4>2 DEF T!IsInjective
    <3> QED BY <3>2, <3>3, <3>4
  <2> QED BY <2>1, <2>2, <2>3
<1> QED BY <1>6, <1>7, <1>8, <1>9

LEMMA WalkRemoved ==
  ASSUME NEW s \in Seq(Listed), NEW i \in 1 .. Len(s), T!IsInjective(s),
         NEW t, t = T!RemoveAt(s, i)
  PROVE  /\ t \in Seq(Listed) /\ Len(t) = Len(s) - 1 /\ T!IsInjective(t)
         /\ \A j \in 1 .. i - 1 : t[j] = s[j]
         /\ \A j \in i + 1 .. Len(s) : t[j - 1] = s[j]
         /\ \A j \in 1 .. Len(t) : t[j] # s[i]
<1> DEFINE a == SubSeq(s, 1, i - 1)
           b == SubSeq(s, i + 1, Len(s))
<1>1. t = a \o b
  BY DEF T!RemoveAt
<1>2. a \in Seq(Listed) /\ Len(a) = i - 1 /\ \A j \in 1 .. i - 1 : a[j] = s[j]
  BY SubSeqProperties
<1>3. b \in Seq(Listed) /\ Len(b) = Len(s) - i /\ \A j \in 1 .. Len(s) - i : b[j] = s[i + j]
  BY SubSeqProperties
<1> HIDE DEF a, b
<1>4. /\ t \in Seq(Listed) /\ Len(t) = Len(s) - 1
      /\ \A j \in 1 .. Len(s) - 1 : t[j] = IF j <= i - 1 THEN a[j] ELSE b[j - (i - 1)]
  <2>1. /\ t \in Seq(Listed) /\ Len(t) = Len(a) + Len(b)
        /\ \A j \in 1 .. Len(a) + Len(b) : t[j] = IF j <= Len(a) THEN a[j] ELSE b[j - Len(a)]
    <3>1. a \in Seq(Listed) /\ b \in Seq(Listed)
      BY <1>2, <1>3
    <3> QED BY <1>1, <3>1, ConcatProperties
  <2>2. Len(a) = i - 1 /\ Len(a) + Len(b) = Len(s) - 1
    BY <1>2, <1>3
  <2> QED BY <2>1, <2>2
<1>5. ASSUME NEW j \in 1 .. i - 1 PROVE t[j] = s[j]
  <2>1. j \in 1 .. Len(s) - 1 /\ j <= i - 1
    OBVIOUS
  <2> QED BY <1>2, <1>4, <2>1
<1>6. ASSUME NEW j \in i .. Len(s) - 1 PROVE t[j] = s[j + 1]
  <2>1. j - (i - 1) \in 1 .. Len(s) - i /\ i + (j - (i - 1)) = j + 1 /\ j \in 1 .. Len(s) - 1 /\ ~ (j <= i - 1)
    OBVIOUS
  <2>2. t[j] = b[j - (i - 1)]
    BY <1>4, <2>1
  <2>3. b[j - (i - 1)] = s[i + (j - (i - 1))]
    BY <1>3, <2>1
  <2> QED BY <2>1, <2>2, <2>3
<1>7. ASSUME NEW j \in i + 1 .. Len(s) PROVE t[j - 1] = s[j]
  <2>1. j - 1 \in i .. Len(s) - 1 /\ (j - 1) + 1 = j
    OBVIOUS
  <2> QED BY <1>6, <2>1
<1> DEFINE old(j) == IF j < i THEN j ELSE j + 1
<1>8. \A j \in 1 .. Len(t) : t[j] = s[old(j)] /\ old(j) \in 1 .. Len(s) /\ old(j) # i
  BY <1>4, <1>5, <1>6
<1>9. \A x, y \in 1 .. Len(t) : old(x) = old(y) => x = y
  BY <1>4
<1> HIDE DEF old
<1>10. T!IsInjective(t) /\ \A j \in 1 .. Len(t) : t[j] # s[i]
  <2>1. \A x, y \in 1 .. Len(s) : s[x] = s[y] => x = y
    BY DEF T!IsInjective
  <2>2. \A x, y \in 1 .. Len(t) : t[x] = t[y] => x = y
    <3> SUFFICES ASSUME NEW x \in 1 .. Len(t), NEW y \in 1 .. Len(t), t[x] = t[y] PROVE x = y
      OBVIOUS
    <3>1. s[old(x)] = s[old(y)] /\ old(x) \in 1 .. Len(s) /\ old(y) \in 1 .. Len(s)
      BY <1>8, Zenon
    <3>2. old(x) = old(y)
      BY <2>1, <3>1, Zenon
    <3> QED BY <1>9, <3>2, Zenon
  <2>3. \A j \in 1 .. Len(t) : t[j] # s[i]
    BY <1>8, <2>1
  <2> QED BY <1>4, <2>2, <2>3 DEF T!IsInjective
<1> QED BY <1>4, <1>5, <1>7, <1>10

-----------------------------------------------------------------------------
\* The batch begins with the first row beyond the cursor, and leaves none out before its last.
LEMMA WalkBatches ==
  ASSUME WalkTyped
  PROVE  /\ T!Batch \in SUBSET T!After /\ T!After = {r \in WalkRows : r > tWalk.cursor}
         /\ WalkRows \in SUBSET Listed
         /\ T!Batch = {} => T!After = {}
         /\ \A o \in T!Batch, p \in T!After : p <= o => p \in T!Batch
         /\ T!Batch # {} => \E o \in T!Batch : \A p \in T!Batch : p <= o
<1> DEFINE Upto(o) == {p \in T!After : p <= o}
<1>0. T!Batch \in SUBSET T!After /\ T!After = {r \in WalkRows : r > tWalk.cursor} /\ WalkRows \in SUBSET Listed
  <2>1. WalkRows \in SUBSET Listed
    BY DEF WalkTyped, WalkRows
  <2> QED BY <2>1, WalkToSet DEF T!Batch, T!After
<1>1. T!After \subseteq Nat /\ IsFiniteSet(T!After) /\ \A p \in T!After : p \in Nat
  <2>1. T!After \in SUBSET Listed
    BY <1>0
  <2> QED BY <2>1, WalkConstants, FS_Subset
<1>2. \A o \in T!After : IsFiniteSet(Upto(o))
  BY <1>1, FS_Subset
<1>3. T!Batch = {r \in T!After : Cardinality(Upto(r)) <= PageSize}
  BY WalkConstants DEF T!Batch
<1>4. ASSUME T!Batch = {}, T!After # {} PROVE FALSE
  <2>1. PICK o \in T!After : \A p \in T!After : o <= p
    BY <1>1, <1>4, LeastOf
  <2>2. Upto(o) = {o}
    <3>1. \A p \in T!After : p <= o => p = o
      BY <1>1, <2>1
    <3>2. o <= o
      BY <1>1, <2>1
    <3> QED BY <2>1, <3>1, <3>2
  <2>3. Cardinality(Upto(o)) = 1 /\ PageSize \in Nat \ {0}
    BY <2>2, FS_Singleton, WalkConstants
  <2>4. Cardinality(Upto(o)) <= PageSize
    BY <2>3
  <2> QED BY <1>3, <1>4, <2>4
<1>5. ASSUME NEW o \in T!Batch, NEW p \in T!After, p <= o PROVE p \in T!Batch
  <2>1. o \in T!After /\ Cardinality(Upto(o)) <= PageSize
    BY <1>3
  <2>2. Upto(p) \subseteq Upto(o)
    <3>1. \A q \in T!After : q <= p => q <= o
      BY <1>1, <1>5, <2>1
    <3> QED BY <3>1
  <2>3. Cardinality(Upto(p)) <= Cardinality(Upto(o)) /\ Cardinality(Upto(p)) \in Nat /\ Cardinality(Upto(o)) \in Nat
    BY <1>2, <2>1, <2>2, FS_Subset, FS_CardinalityType
  <2>4. Cardinality(Upto(p)) <= PageSize
    BY <2>1, <2>3, WalkConstants
  <2> QED BY <1>3, <2>4
<1>6. ASSUME T!Batch # {} PROVE \E o \in T!Batch : \A p \in T!Batch : p <= o
  <2>1. IsFiniteSet(T!Batch) /\ T!Batch \subseteq Nat
    BY <1>0, <1>1, FS_Subset
  <2> QED BY <1>6, <2>1, GreatestOf
<1> QED BY <1>0, <1>4, <1>5, <1>6

LEMMA WalkFindBatch == ASSUME WalkInv, T!FindBatch PROVE WalkInv'
<1>0. /\ WalkTyped /\ T!ByCursor /\ WalkByCursor /\ tWalk.at = "find"
      /\ UNCHANGED <<tList, tFilter, tOrder, tGone, tUnsteady, tWrites, tStatus, tFigures, tCame>>
  BY DEF WalkInv, T!FindBatch, T!dashVars
<1>1. T!ByCursor' /\ WalkRows' = WalkRows
  BY <1>0 DEF T!ByCursor, WalkRows
<1>2. CASE T!Batch = {}
  <2>1. tWalk' = [tWalk EXCEPT !.at = "done"]
    BY <1>2 DEF T!FindBatch
  <2>2. tWalk.began \subseteq tWalk.seen \cup tGone
    BY <1>0, <1>2, WalkBatches DEF WalkByCursor
  <2>3. WalkTyped'
    BY <1>0, <2>1 DEF WalkTyped, Walk
  <2>4. WalkByCursor'
    BY <1>0, <1>1, <2>1, <2>2 DEF WalkByCursor, WalkTyped, Walk
  <2> QED BY <1>1, <2>3, <2>4 DEF WalkInv
<1>3. CASE T!Batch # {}
  <2>1. PICK c \in T!Batch : /\ \A q \in T!Batch : q <= c
                             /\ tWalk' = [tWalk EXCEPT !.cursor = c, !.seen = @ \union T!Batch]
    <3> DEFINE c == CHOOSE r \in T!Batch : \A q \in T!Batch : q <= r
    <3>1. c \in T!Batch /\ \A q \in T!Batch : q <= c
      BY <1>0, <1>3, WalkBatches
    <3>2. tWalk' = [tWalk EXCEPT !.cursor = c, !.seen = @ \union T!Batch]
      BY <1>3 DEF T!FindBatch
    <3> QED BY <3>1, <3>2
  <2>2. T!Batch \in SUBSET Listed /\ c \in Nat
    BY <1>0, <2>1, WalkBatches, WalkConstants
  <2>3. WalkTyped'
    BY <1>0, <2>1, <2>2 DEF WalkTyped, Walk
  <2>4. /\ tWalk'.cursor = c /\ tWalk'.seen = tWalk.seen \cup T!Batch /\ tWalk'.began = tWalk.began
        /\ tWalk'.at = "find"
    BY <1>0, <2>1 DEF WalkTyped, Walk
  <2>5. ASSUME NEW r \in tWalk.began, r \notin tWalk.seen \cup tGone, r \notin T!Batch PROVE r \in WalkRows /\ r > c
    <3>1. r \in WalkRows /\ r > tWalk.cursor /\ r \in Nat
      BY <1>0, <2>5, WalkConstants DEF WalkByCursor, WalkTyped, Walk
    <3>2. ~ (r <= c)
      BY <1>0, <2>1, <2>5, <3>1, WalkBatches
    <3> QED BY <2>2, <3>1, <3>2
  <2>6. WalkByCursor'
    BY <1>0, <1>1, <2>4, <2>5 DEF WalkByCursor
  <2> QED BY <1>1, <2>3, <2>6 DEF WalkInv
<1> QED BY <1>2, <1>3

LEMMA WalkCountRows == ASSUME WalkInv, T!CountRows PROVE WalkInv'
<1>0. /\ WalkTyped /\ tWalk.at = "count" /\ tWalk' = [tWalk EXCEPT !.at = "find", !.total = Len(tOrder)]
      /\ UNCHANGED <<tList, tFilter, tOrder, tGone, tUnsteady, tWrites, tStatus, tFigures, tCame>>
  BY DEF WalkInv, T!CountRows, T!dashVars
<1>1. /\ tWalk' \in Walk /\ tWalk'.at = "find" /\ tWalk'.total = Len(tOrder) /\ tWalk'.page = tWalk.page
      /\ tWalk'.cursor = tWalk.cursor /\ tWalk'.began = tWalk.began /\ tWalk'.seen = tWalk.seen
  <2>1. tWalk \in Walk /\ Len(tOrder) \in Nat
    BY <1>0 DEF WalkTyped
  <2> QED BY <1>0, <2>1 DEF Walk
<1>2. T!ByCursor' = T!ByCursor /\ WalkRows' = WalkRows /\ WalkTyped'
  BY <1>0, <1>1 DEF T!ByCursor, WalkRows, WalkTyped
<1>3. T!ByCursor => WalkByCursor'
  BY <1>0, <1>1, <1>2 DEF WalkInv, WalkByCursor
<1>4. ~ T!ByCursor /\ tGone = {} /\ ~ tUnsteady => WalkByPage'
  BY <1>0, <1>1, <1>2 DEF WalkInv, WalkByPage
<1> QED BY <1>0, <1>1, <1>2, <1>3, <1>4 DEF WalkInv

LEMMA WalkFindPage == ASSUME WalkInv, T!FindPage PROVE WalkInv'
<1> DEFINE offset == T!Offset(tWalk.page)
           rows   == {tOrder[i] : i \in (offset + 1 .. offset + PageSize) \cap DOMAIN tOrder}
           on     == IF offset + PageSize < tWalk.total THEN "count" ELSE "done"
<1>0. /\ WalkTyped /\ tWalk.at = "find" /\ ~ T!ByCursor
      /\ tWalk' = [tWalk EXCEPT !.at = on, !.page = @ + 1, !.seen = @ \union rows]
      /\ UNCHANGED <<tList, tFilter, tOrder, tGone, tUnsteady, tWrites, tStatus, tFigures, tCame>>
  BY DEF WalkInv, T!FindPage, T!dashVars
<1>1. /\ offset \in Nat /\ offset = (tWalk.page - 1) * PageSize /\ tWalk.page \in Nat \ {0}
      /\ ((tWalk.page + 1) - 1) * PageSize = offset + PageSize /\ PageSize \in Nat
  BY <1>0, WalkConstants DEF WalkTyped, Walk, T!Offset
<1>2. rows \in SUBSET Listed /\ on \in {"count", "done"} /\ DOMAIN tOrder = 1 .. Len(tOrder) /\ Len(tOrder) \in Nat
  BY <1>0 DEF WalkTyped, Walk
<1>3. \A i \in 1 .. Len(tOrder) : offset < i /\ i <= offset + PageSize => tOrder[i] \in rows
  BY <1>1, <1>2
<1>4. on = "done" => offset + PageSize >= tWalk.total
  BY <1>0, <1>1 DEF WalkTyped, Walk
<1> HIDE DEF offset, rows, on
<1>5. /\ tWalk' \in Walk /\ tWalk'.at = on /\ tWalk'.page = tWalk.page + 1 /\ tWalk'.total = tWalk.total
      /\ tWalk'.began = tWalk.began /\ tWalk'.seen = tWalk.seen \cup rows
  <2>1. tWalk \in Walk /\ tWalk' = [tWalk EXCEPT !.at = on, !.page = tWalk.page + 1, !.seen = tWalk.seen \union rows]
    BY <1>0 DEF WalkTyped
  <2>2. tWalk.page + 1 \in Nat \ {0} /\ tWalk.seen \cup rows \in SUBSET Listed
    BY <1>2, <2>1 DEF Walk
  <2>3. /\ tWalk'.at = on /\ tWalk'.page = tWalk.page + 1 /\ tWalk'.total = tWalk.total
        /\ tWalk'.began = tWalk.began /\ tWalk'.seen = tWalk.seen \cup rows
    BY <2>1 DEF Walk
  <2> QED BY <1>2, <2>1, <2>2, <2>3 DEF Walk
<1>6. ~ T!ByCursor' /\ WalkRows' = WalkRows /\ WalkTyped'
  BY <1>0, <1>5 DEF T!ByCursor, WalkRows, WalkTyped
<1>7. ASSUME tGone = {}, ~ tUnsteady PROVE WalkByPage'
  <2>1. /\ tWalk.began \subseteq WalkRows /\ tWalk.total = Len(tOrder)
        /\ \A i \in 1 .. Len(tOrder) : tOrder[i] \in tWalk.began /\ i <= offset => tOrder[i] \in tWalk.seen
    BY <1>0, <1>1, <1>7 DEF WalkInv, WalkByPage
  <2>2. \A i \in 1 .. Len(tOrder) :
          tOrder[i] \in tWalk.began /\ i <= offset + PageSize => tOrder[i] \in tWalk.seen \cup rows
    <3>1. TAKE i \in 1 .. Len(tOrder)
    <3>2. HAVE tOrder[i] \in tWalk.began /\ i <= offset + PageSize
    <3>3. i <= offset \/ offset < i
      BY <1>1, <1>2
    <3>4. CASE i <= offset
      BY <2>1, <3>2, <3>4, Zenon
    <3>5. CASE offset < i
      BY <1>3, <3>2, <3>5, Zenon
    <3> QED BY <3>3, <3>4, <3>5
  <2>3. on = "done" => tWalk.began \subseteq tWalk.seen \cup rows
    <3>1. on = "done" => \A i \in 1 .. Len(tOrder) : i <= offset + PageSize
      BY <1>1, <1>2, <1>4, <2>1
    <3> QED BY <2>1, <2>2, <3>1 DEF WalkRows
  <2>4. \A i \in 1 .. Len(tOrder) :
          tOrder[i] \in tWalk.began /\ i <= (tWalk'.page - 1) * PageSize => tOrder[i] \in tWalk'.seen
    BY <1>1, <1>5, <2>2
  <2> QED BY <1>0, <1>2, <1>5, <1>6, <2>1, <2>3, <2>4 DEF WalkByPage
<1> QED BY <1>0, <1>5, <1>6, <1>7 DEF WalkInv

\* Rows enter, leave or move: none that stays gets ahead of where it was.
LEMMA WalkWritten ==
  ASSUME WalkInv, tOrder' \in Seq(Listed), T!IsInjective(tOrder'),
         UNCHANGED <<tList, tFilter, tWalk, tStatus, tFigures, tCame>>, T!Write,
         tGone' \in SUBSET Listed, tGone \subseteq tGone', tUnsteady' \in BOOLEAN, tUnsteady => tUnsteady',
         T!ByCursor => WalkRows \ tGone' \subseteq {tOrder'[j] : j \in 1 .. Len(tOrder')},
         ~ T!ByCursor /\ tGone' = {} /\ ~ tUnsteady' =>
           /\ tWalk.at # "find" /\ WalkRows \subseteq {tOrder'[j] : j \in 1 .. Len(tOrder')}
           /\ \A j \in 1 .. Len(tOrder') :
                tOrder'[j] \in WalkRows => \E i \in 1 .. Len(tOrder) : i <= j /\ tOrder[i] = tOrder'[j]
  PROVE  WalkInv'
<1>0. /\ T!ByCursor' = T!ByCursor /\ WalkRows' = {tOrder'[j] : j \in 1 .. Len(tOrder')} /\ tWalk.at # "done"
      /\ WalkTyped
  BY DEF T!ByCursor, WalkRows, T!Write, WalkInv
<1>1. WalkTyped'
  <2>1. tWrites' \in 0 .. MaxWrites
    BY <1>0, WalkConstants DEF T!Write, WalkTyped
  <2> QED BY <1>0, <2>1 DEF WalkTyped
<1>2. T!ByCursor => WalkByCursor'
  BY <1>0 DEF WalkInv, WalkByCursor
<1>3. ASSUME ~ T!ByCursor, tGone' = {}, ~ tUnsteady' PROVE WalkByPage'
  <2>1. WalkByPage /\ tWalk.at # "find" /\ WalkRows \subseteq WalkRows'
    BY <1>0, <1>3 DEF WalkInv
  <2>2. tWalk.began \subseteq WalkRows
    BY <1>0, <2>1 DEF WalkByPage
  <2>3. ASSUME NEW j \in 1 .. Len(tOrder'), tOrder'[j] \in tWalk.began, j <= (tWalk.page - 1) * PageSize
        PROVE  tOrder'[j] \in tWalk.seen
    <3>1. PICK i \in 1 .. Len(tOrder) : i <= j /\ tOrder[i] = tOrder'[j]
      BY <1>3, <2>2, <2>3
    <3>2. (tWalk.page - 1) * PageSize \in Int /\ Len(tOrder') \in Nat /\ Len(tOrder) \in Nat
      BY <1>0, WalkConstants DEF WalkTyped, Walk
    <3>3. i <= (tWalk.page - 1) * PageSize
      BY <2>3, <3>1, <3>2
    <3> QED BY <1>0, <2>1, <2>3, <3>1, <3>3 DEF WalkByPage
  <2> QED BY <1>0, <2>1, <2>2, <2>3 DEF WalkByPage
<1> QED BY <1>0, <1>1, <1>2, <1>3 DEF WalkInv

\* The place of a row in a list in the order of its keys is one of the list's.
LEMMA WalkPositions ==
  ASSUME WalkTyped, NEW r \in Listed
  PROVE  T!Positions(r) \subseteq 1 .. Len(tOrder) + 1
<1> DEFINE B == {x \in WalkRows : x < r}
<1>0. Len(tOrder) \in Nat /\ tOrder \in [1 .. Len(tOrder) -> WalkRows]
  BY DEF WalkTyped, WalkRows
<1>1. tOrder \in Surjection(1 .. Len(tOrder), WalkRows)
  BY <1>0 DEF Surjection, WalkRows
<1>2. IsFiniteSet(1 .. Len(tOrder)) /\ Cardinality(1 .. Len(tOrder)) = Len(tOrder)
  BY <1>0, FS_Interval, SMTT(30)
<1>3. IsFiniteSet(WalkRows) /\ Cardinality(WalkRows) <= Len(tOrder)
  BY <1>1, <1>2, FS_Surjection
<1>4. B \in SUBSET WalkRows
  OBVIOUS
<1>5. Cardinality(B) \in Nat /\ Cardinality(B) <= Len(tOrder)
  <2>1. IsFiniteSet(B) /\ Cardinality(B) <= Cardinality(WalkRows)
    BY <1>3, <1>4, FS_Subset
  <2>2. Cardinality(B) \in Nat /\ Cardinality(WalkRows) \in Nat
    BY <1>3, <2>1, FS_CardinalityType
  <2> QED BY <1>0, <1>3, <2>1, <2>2
<1>6. T!Cardinality({x \in T!ToSet(tOrder) : x < r}) = Cardinality(B)
  BY WalkToSet, WalkConstants
<1> QED BY <1>0, <1>5, <1>6 DEF T!Positions

LEMMA WalkEnter == ASSUME WalkInv, NEW r \in Listed, T!Enter(r) PROVE WalkInv'
<1>0. WalkTyped /\ Len(tOrder) \in Nat
  BY DEF WalkInv, WalkTyped
<1>1. PICK i \in 1 .. Len(tOrder) + 1 : tOrder' = T!InsertAt(tOrder, i, r)
  BY <1>0, WalkPositions DEF T!Enter
<1>2. r \notin WalkRows /\ tOrder \in Seq(Listed) /\ T!IsInjective(tOrder) /\ \A j \in 1 .. Len(tOrder) : tOrder[j] # r
  BY <1>0, WalkToSet DEF T!Enter, WalkRows, WalkTyped
<1>3. /\ tOrder' \in Seq(Listed) /\ Len(tOrder') = Len(tOrder) + 1 /\ T!IsInjective(tOrder') /\ tOrder'[i] = r
      /\ \A j \in 1 .. i - 1 : tOrder'[j] = tOrder[j]
      /\ \A j \in i .. Len(tOrder) : tOrder'[j + 1] = tOrder[j]
  BY <1>1, <1>2, WalkInserted
<1>4. WalkRows \subseteq {tOrder'[j] : j \in 1 .. Len(tOrder')}
  <2> SUFFICES ASSUME NEW j \in 1 .. Len(tOrder) PROVE \E k \in 1 .. Len(tOrder') : tOrder[j] = tOrder'[k]
    BY DEF WalkRows
  <2>1. CASE j < i
    BY <1>0, <1>3, <2>1
  <2>2. CASE j >= i
    <3>1. j \in i .. Len(tOrder) /\ j + 1 \in 1 .. Len(tOrder')
      BY <1>0, <1>3, <2>2
    <3> QED BY <1>3, <3>1
  <2> QED BY <1>0, <2>1, <2>2
<1>5. ASSUME NEW j \in 1 .. Len(tOrder'), tOrder'[j] \in WalkRows
      PROVE  \E k \in 1 .. Len(tOrder) : k <= j /\ tOrder[k] = tOrder'[j]
  <2>1. CASE j < i
    BY <1>0, <1>3, <2>1
  <2>2. CASE j = i
    BY <1>2, <1>3, <1>5, <2>2
  <2>3. CASE j > i
    <3>1. j - 1 \in i .. Len(tOrder) /\ (j - 1) + 1 = j /\ j - 1 <= j
      BY <1>0, <1>3, <2>3
    <3>2. tOrder'[j] = tOrder[j - 1]
      BY <1>3, <3>1
    <3> QED BY <1>0, <3>1, <3>2
  <2> QED BY <1>0, <1>3, <2>1, <2>2, <2>3
<1>6. /\ T!Write /\ UNCHANGED <<tList, tFilter, tWalk, tGone, tStatus, tFigures, tCame>>
      /\ tUnsteady' = (tUnsteady \/ (tWalk.at = "find" /\ ~ T!ByCursor))
  BY DEF T!Enter, T!dashVars
<1>7. tUnsteady' \in BOOLEAN /\ tGone' \in SUBSET Listed
  BY <1>0, <1>6 DEF WalkTyped
<1> QED BY <1>3, <1>4, <1>5, <1>6, <1>7, WalkWritten

LEMMA WalkLeave == ASSUME WalkInv, NEW i \in 1 .. Len(tOrder), T!Leave(i) PROVE WalkInv'
<1>0. WalkTyped /\ Len(tOrder) \in Nat /\ tOrder \in Seq(Listed) /\ T!IsInjective(tOrder) /\ tOrder[i] \in Listed
  BY DEF WalkInv, WalkTyped
<1>1. /\ tOrder' = T!RemoveAt(tOrder, i) /\ T!Write /\ tGone' = tGone \union {tOrder[i]}
      /\ UNCHANGED <<tList, tFilter, tWalk, tUnsteady, tStatus, tFigures, tCame>>
  BY DEF T!Leave, T!dashVars
<1>2. /\ tOrder' \in Seq(Listed) /\ Len(tOrder') = Len(tOrder) - 1 /\ T!IsInjective(tOrder')
      /\ \A j \in 1 .. i - 1 : tOrder'[j] = tOrder[j]
      /\ \A j \in i + 1 .. Len(tOrder) : tOrder'[j - 1] = tOrder[j]
  <2> DEFINE t == T!RemoveAt(tOrder, i)
  <2>1. /\ t \in Seq(Listed) /\ Len(t) = Len(tOrder) - 1 /\ T!IsInjective(t)
        /\ \A j \in 1 .. i - 1 : t[j] = tOrder[j]
        /\ \A j \in i + 1 .. Len(tOrder) : t[j - 1] = tOrder[j]
    BY <1>0, WalkRemoved
  <2>2. tOrder' = t
    BY <1>1
  <2> HIDE DEF t
  <2> QED BY <2>1, <2>2
<1>3. WalkRows \ tGone' \subseteq {tOrder'[j] : j \in 1 .. Len(tOrder')}
  <2> SUFFICES ASSUME NEW j \in 1 .. Len(tOrder), j # i PROVE \E k \in 1 .. Len(tOrder') : tOrder[j] = tOrder'[k]
    BY <1>1 DEF WalkRows
  <2>1. CASE j < i
    BY <1>0, <1>2, <2>1
  <2>2. CASE j > i
    <3>1. j \in i + 1 .. Len(tOrder) /\ j - 1 \in 1 .. Len(tOrder')
      BY <1>0, <1>2, <2>2
    <3> QED BY <1>2, <3>1
  <2> QED BY <1>0, <2>1, <2>2
<1>4. tGone' \in SUBSET Listed /\ tGone \subseteq tGone' /\ tGone' # {} /\ tUnsteady' \in BOOLEAN
  BY <1>0, <1>1 DEF WalkTyped
<1> QED BY <1>1, <1>2, <1>3, <1>4, WalkWritten

\* Rows of a list that is walked by cursor neither move nor sort loosely.
LEMMA WalkLists ==
  ASSUME WalkTyped, T!ByCursor
  PROVE  ~ tList.moves /\ tList.sorted # "loosely"
  BY DEF WalkTyped, T!ByCursor, T!List, T!Facts, T!ListBookmarks, T!ListRemoved, T!ListExportRuns, T!ListMirrors,
         T!ListArtists, T!ListArtistWorks, T!ListExecutions, T!ListHistories, T!ListUploads, T!ListUsers,
         T!ListAccessLogs, T!BackfillArtists, T!CleanupUploads, T!WarmImageCache

LEMMA WalkTouch == ASSUME WalkInv, NEW i \in 1 .. Len(tOrder), T!Touch(i) PROVE WalkInv'
<1>0. WalkTyped /\ Len(tOrder) \in Nat /\ tOrder \in Seq(Listed) /\ T!IsInjective(tOrder) /\ tOrder[i] \in Listed
  BY DEF WalkInv, WalkTyped
<1> DEFINE t == T!RemoveAt(tOrder, i)
           one == <<tOrder[i]>>
<1>1. /\ tOrder' = one \o t /\ T!Write /\ tGone' = tGone \union {tOrder[i]} /\ tList.moves
      /\ UNCHANGED <<tList, tFilter, tWalk, tUnsteady, tStatus, tFigures, tCame>>
  BY DEF T!Touch, T!dashVars
<1>2. t \in Seq(Listed) /\ T!IsInjective(t) /\ \A j \in 1 .. Len(t) : t[j] # tOrder[i]
  BY <1>0, WalkRemoved
<1>3. one \in Seq(Listed) /\ Len(one) = 1 /\ one[1] = tOrder[i]
  BY <1>0
<1> HIDE DEF t, one
<1>4. /\ tOrder' \in Seq(Listed) /\ Len(tOrder') = 1 + Len(t)
      /\ \A j \in 1 .. 1 + Len(t) : tOrder'[j] = IF j <= 1 THEN one[j] ELSE t[j - 1]
  <2>1. one \in Seq(Listed) /\ t \in Seq(Listed)
    BY <1>2, <1>3
  <2>2. /\ one \o t \in Seq(Listed) /\ Len(one \o t) = Len(one) + Len(t)
        /\ \A j \in 1 .. Len(one) + Len(t) : (one \o t)[j] = IF j <= Len(one) THEN one[j] ELSE t[j - Len(one)]
    BY <2>1, ConcatProperties
  <2> QED BY <1>1, <1>3, <2>2
<1>5. T!IsInjective(tOrder')
  <2> SUFFICES ASSUME NEW x \in 1 .. Len(tOrder'), NEW y \in 1 .. Len(tOrder'), tOrder'[x] = tOrder'[y], x < y
               PROVE  FALSE
    BY <1>4 DEF T!IsInjective
  <2>0. Len(t) \in Nat
    BY <1>2
  <2>1. y - 1 \in 1 .. Len(t) /\ tOrder'[y] = t[y - 1]
    BY <1>4, <2>0
  <2>2. CASE x = 1
    BY <1>2, <1>3, <1>4, <2>0, <2>1, <2>2
  <2>3. CASE x # 1
    <3>1. x - 1 \in 1 .. Len(t) /\ tOrder'[x] = t[x - 1]
      BY <1>4, <2>0, <2>3
    <3>2. x - 1 = y - 1
      BY <1>2, <2>1, <3>1 DEF T!IsInjective
    <3> QED BY <3>2
  <2> QED BY <2>2, <2>3
<1>6. tGone' \in SUBSET Listed /\ tGone \subseteq tGone' /\ tGone' # {} /\ tUnsteady' \in BOOLEAN
  BY <1>0, <1>1 DEF WalkTyped
<1>7. ~ T!ByCursor
  BY <1>0, <1>1, WalkLists
<1> QED BY <1>1, <1>4, <1>5, <1>6, <1>7, WalkWritten

LEMMA WalkSwap == ASSUME WalkInv, NEW i \in 1 .. Len(tOrder) - 1, T!Swap(i) PROVE WalkInv'
<1>0. WalkTyped /\ Len(tOrder) \in Nat /\ tOrder \in Seq(Listed) /\ T!IsInjective(tOrder)
  BY DEF WalkInv, WalkTyped
<1>1. /\ tOrder' = [tOrder EXCEPT ![i] = tOrder[i + 1], ![i + 1] = tOrder[i]] /\ T!Write
      /\ tUnsteady' = TRUE /\ tList.sorted = "loosely"
      /\ UNCHANGED <<tList, tFilter, tWalk, tGone, tStatus, tFigures, tCame>>
  BY DEF T!Swap, T!dashVars
<1>2. /\ tOrder' \in Seq(Listed) /\ Len(tOrder') = Len(tOrder)
      /\ \A j \in 1 .. Len(tOrder) :
           tOrder'[j] = tOrder[IF j = i THEN i + 1 ELSE IF j = i + 1 THEN i ELSE j]
  BY <1>0, <1>1
<1>3. T!IsInjective(tOrder')
  <2> DEFINE was(j) == IF j = i THEN i + 1 ELSE IF j = i + 1 THEN i ELSE j
  <2>1. \A j \in 1 .. Len(tOrder) : was(j) \in 1 .. Len(tOrder) /\ tOrder'[j] = tOrder[was(j)]
    BY <1>0, <1>2
  <2>2. \A x, y \in 1 .. Len(tOrder) : was(x) = was(y) => x = y
    OBVIOUS
  <2> HIDE DEF was
  <2>3. \A x, y \in 1 .. Len(tOrder) : tOrder[x] = tOrder[y] => x = y
    BY <1>0 DEF T!IsInjective
  <2> SUFFICES ASSUME NEW x \in 1 .. Len(tOrder), NEW y \in 1 .. Len(tOrder), tOrder'[x] = tOrder'[y] PROVE x = y
    BY <1>2 DEF T!IsInjective
  <2>4. was(x) = was(y)
    BY <2>1, <2>3
  <2> QED BY <2>2, <2>4
<1>4. ~ T!ByCursor /\ tGone' \in SUBSET Listed /\ tUnsteady' \in BOOLEAN
  BY <1>0, <1>1, WalkLists DEF WalkTyped
<1> QED BY <1>1, <1>2, <1>3, <1>4, WalkWritten

LEMMA WalkStep == ASSUME WalkInv, T!Walking \/ UNCHANGED tableVars PROVE WalkInv'
<1>1. CASE UNCHANGED tableVars
  BY <1>1 DEF tableVars, WalkInv, WalkTyped, WalkByCursor, WalkByPage, WalkRows, T!ByCursor
<1>2. CASE T!Walking
  BY <1>2, WalkEnter, WalkLeave, WalkTouch, WalkSwap, WalkCountRows, WalkFindPage, WalkFindBatch DEF T!Walking
<1> QED BY <1>1, <1>2

LEMMA WalkStart == T!Init => WalkInv
<1> SUFFICES ASSUME T!Init PROVE WalkInv
  OBVIOUS
<1>1. PICK n \in 0 .. T!Cardinality(Listed) : tOrder \in [1 .. n -> Listed] /\ T!Ascending(tOrder)
  BY DEF T!Init
<1>2. n \in Nat
  BY <1>1, WalkConstants, FS_CardinalityType
<1>3. tOrder \in Seq(Listed) /\ Len(tOrder) = n
  BY <1>1, <1>2
<1>4. T!IsInjective(tOrder)
  <2> SUFFICES ASSUME NEW x \in 1 .. n, NEW y \in 1 .. n, tOrder[x] = tOrder[y], x # y PROVE FALSE
    BY <1>1 DEF T!IsInjective
  <2>0. tOrder[x] \in Listed /\ tOrder[y] \in Listed /\ Listed \subseteq Nat
    BY <1>1, WalkConstants
  <2>1. x \in Nat /\ y \in Nat /\ tOrder[x] \in Nat /\ tOrder[y] \in Nat
    <3>1. x \in Nat /\ y \in Nat
      BY <1>2
    <3> QED BY <2>0, <3>1, Zenon
  <2>2. CASE x < y
    BY <1>1, <2>1, <2>2 DEF T!Ascending
  <2>3. CASE y < x
    BY <1>1, <2>1, <2>3 DEF T!Ascending
  <2> QED BY <2>1, <2>2, <2>3
<1>5. T!ToSet(tOrder) = WalkRows /\ WalkRows \in SUBSET Listed
  BY <1>1, <1>3 DEF T!ToSet, WalkRows
<1>6. /\ tWalk = [at |-> IF T!ByCursor THEN "find" ELSE "count",
                  page |-> 1, cursor |-> 0, total |-> 0, began |-> WalkRows, seen |-> {}]
      /\ tList \in T!List /\ tGone = {} /\ tUnsteady = FALSE /\ tWrites = 0
      /\ tStatus \in [Listed -> T!Status] /\ tFigures = <<>> /\ tCame = FALSE
  BY <1>5 DEF T!Init, T!Begun
<1>7. tFilter \in BOOLEAN
  BY Zenon DEF T!Init
<1>8. tWalk \in Walk
  BY <1>5, <1>6 DEF Walk
<1>9. WalkTyped
  <2>1. MaxWrites \in Nat
    BY WalkConstants
  <2>2. tWrites \in 0 .. MaxWrites
    BY <1>6, <2>1
  <2>3. tGone \in SUBSET Listed /\ tUnsteady \in BOOLEAN /\ tCame \in BOOLEAN
    BY <1>6, Zenon
  <2> QED BY <1>3, <1>4, <1>6, <1>7, <1>8, <2>2, <2>3, Zenon DEF WalkTyped
<1>10. T!ByCursor => WalkByCursor
  <2>1. \A r \in WalkRows : r > 0
    BY <1>5, WalkConstants
  <2> QED BY <1>6, <2>1 DEF WalkByCursor
<1>11. ~ T!ByCursor => WalkByPage
  <2>1. \A i \in 1 .. Len(tOrder) : ~ (i <= (1 - 1) * PageSize)
    BY WalkConstants
  <2> QED BY <1>6, <2>1 DEF WalkByPage
<1> QED BY <1>9, <1>10, <1>11 DEF WalkInv

\* A walk through a list misses only rows that left it, or moved, or came late
\* (src/internal/apps/pixez/management.go:496).
THEOREM MissesAreExplained == SuiteSpec => []MissedIsExplained
<1> DEFINE Inv == focus = "lists" => WalkInv
<1>1. SuiteInit => Inv
  BY WalkStart DEF SuiteInit
<1>2. Inv /\ [SuiteNext]_allVars => Inv'
  <2> SUFFICES ASSUME Inv, [SuiteNext]_allVars, focus' = "lists" PROVE WalkInv'
    OBVIOUS
  <2>1. focus = "lists" /\ (T!Walking \/ UNCHANGED tableVars)
    BY DEF SuiteNext, allVars
  <2> QED BY <2>1, WalkStep
<1>3. Inv => MissedIsExplained
  <2> SUFFICES ASSUME WalkInv PROVE T!TypeOK /\ T!MissedIsExplained
    BY DEF MissedIsExplained
  <2>1. T!TypeOK
    <3>1. T!ToSet(tOrder) \subseteq Listed
      BY WalkToSet DEF WalkInv, WalkTyped, WalkRows
    <3>2. tFigures \in Seq(0 .. T!Cardinality(Listed)) /\ Len(tFigures) = 0
      BY DEF WalkInv, WalkTyped
    <3>3. 0 <= 1 + Len(T!Counted)
      BY DEF T!Counted
    <3> QED BY <3>1, <3>2, <3>3 DEF WalkInv, WalkTyped, Walk, T!TypeOK
  <2>2. T!MissedIsExplained
    <3>1. CASE T!ByCursor
      BY <3>1 DEF WalkInv, WalkByCursor, T!MissedIsExplained
    <3>2. CASE ~ T!ByCursor
      BY <3>2 DEF WalkInv, WalkByPage, T!MissedIsExplained
    <3> QED BY <3>1, <3>2
  <2> QED BY <2>1, <2>2
<1> QED BY <1>1, <1>2, <1>3, PTL DEF SuiteSpec
=============================================================================
