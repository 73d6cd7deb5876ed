-------------------------- MODULE MirrorWorkProofs --------------------------
(***************************************************************************)
(* Proofs about MirrorWork for every set of works, workers and uploads,    *)
(* and for every bound on the number of claims.                            *)
(***************************************************************************)
EXTENDS MirrorWork, TLAPS

LEMMA RunTyped ==
  ASSUME TypeOK, NEW x \in Worker
  PROVE  /\ run[x] \in Run
         /\ run[x].pc # "idle" => run[x].work \in Work
  BY DEF TypeOK

LEMMA RowTyped ==
  ASSUME TypeOK, NEW w \in Work
  PROVE  /\ row[w] \in Row
  BY DEF TypeOK

LEMMA PagesInPage == \A w \in Work : Pages(w) \subseteq Page
  BY DEF Pages, Page

LEMMA BecomeTyped ==
  ASSUME TypeOK, NEW x \in Worker, NEW r \in Run, r.pc # "idle" => r.work \in Work,
         Become(x, r)
  PROVE  /\ run' \in [Worker -> Run]
         /\ \A y \in Worker : run'[y].pc # "idle" => run'[y].work \in Work
         /\ run'[x] = r
         /\ \A y \in Worker : y # x => run'[y] = run[y]
  BY DEF TypeOK, Become

LEMMA WriteTyped ==
  ASSUME TypeOK, NEW w \in Work, NEW r \in Row, Write(w, r)
  PROVE  /\ row' \in [Work -> Row]
         /\ row'[w] = r
         /\ \A v \in Work : v # w => row'[v] = row[v]
  BY DEF TypeOK, Write

LEMMA IdleTyped == Idle \in Run /\ Idle.pc = "idle"
  BY DEF Idle, Run, PC, File, NoToken

LEMMA NoRowTyped == NoRow \in Row
  BY DEF NoRow, Row, Lease, Status, File, NoToken

\* An action that only moves worker x on.
LEMMA GotoType ==
  ASSUME TypeOK, NEW x \in Worker, NEW pc \in PC, run[x].pc # "idle", Goto(x, pc)
  PROVE  /\ run' \in [Worker -> Run]
         /\ \A y \in Worker : run'[y].pc # "idle" => run'[y].work \in Work
<1>1. [run[x] EXCEPT !.pc = pc] \in Run
  BY RunTyped DEF Run
<1> QED BY <1>1, RunTyped, BecomeTyped DEF Goto, Run

LEMMA LeaveType ==
  ASSUME TypeOK, NEW x \in Worker, Leave(x)
  PROVE  /\ run' \in [Worker -> Run]
         /\ \A y \in Worker : run'[y].pc # "idle" => run'[y].work \in Work
  BY BecomeTyped, IdleTyped DEF Leave

LEMMA GiveUpType ==
  ASSUME TypeOK, NEW x \in Worker, run[x].pc # "idle", GiveUp(x)
  PROVE  /\ run' \in [Worker -> Run]
         /\ \A y \in Worker : run'[y].pc # "idle" => run'[y].work \in Work
<1>1. [run[x] EXCEPT !.pc = "cleanup", !.err = TRUE] \in Run
  BY RunTyped DEF Run, PC
<1> QED BY <1>1, RunTyped, BecomeTyped DEF GiveUp, Run

LEMMA EnsuredTyped ==
  ASSUME NEW r \in Row
  PROVE  Ensured(r) \in Row
  BY DEF Ensured, Row, NoRow, Status, Lease, File, NoToken

LEMMA SoftDeleteType ==
  ASSUME TypeOK, NEW u \in UploadId, SoftDelete(u)
  PROVE  upload' \in [UploadId -> Upload]
<1>1. [upload[u] EXCEPT !.status = "deleted"] \in Upload
  BY DEF TypeOK, Upload
<1> QED BY <1>1 DEF SoftDelete, TypeOK

LEMMA TypeStep == TypeOK /\ [Next]_vars => TypeOK'
<1> SUFFICES ASSUME TypeOK, [Next]_vars PROVE TypeOK'
  OBVIOUS
<1> USE ConstantsOK
<1>1. ASSUME NEW x \in Worker, EnsureRead(x) PROVE TypeOK'
  BY <1>1, GotoType DEF EnsureRead, TypeOK, PC, Before
<1>2. ASSUME NEW x \in Worker, EnsureQueued(x) PROVE TypeOK'
  <2>1. run[x].pc # "idle" /\ "gate" \in PC
    BY <1>2 DEF EnsureQueued, PC, Before
  <2>2. Ensured(row[run[x].work]) \in Row
    BY <2>1, EnsuredTyped, RowTyped, RunTyped
  <2> QED BY <1>2, <2>1, <2>2, GotoType, WriteTyped, RunTyped DEF EnsureQueued, TypeOK
<1>3. ASSUME NEW x \in Worker, PassGate(x) PROVE TypeOK'
  BY <1>3, GotoType DEF PassGate, TypeOK, PC, Before
<1>4. ASSUME NEW x \in Worker, CheckNeeded(x) PROVE TypeOK'
  <2>1. run[x].pc # "idle" /\ "claim" \in PC
    BY <1>4 DEF CheckNeeded, PC, Before
  <2> QED BY <1>4, <2>1, GotoType, LeaveType DEF CheckNeeded, TypeOK
<1>5. ASSUME NEW x \in Worker, Claim(x) PROVE TypeOK'
  <2> DEFINE w == run[x].work
             r == [run[x] EXCEPT !.pc = "load", !.token = nextToken]
             q == [row[w] EXCEPT !.token = nextToken, !.lease = "held",
                                 !.status = "processing"]
  <2>1. w \in Work /\ nextToken \in Nat
    BY <1>5, RunTyped DEF Claim, TypeOK
  <2>2. r \in Run /\ r.work = w
    BY <2>1, RunTyped DEF Run, PC, Filling
  <2>3. q \in Row
    <3>1. row[w] \in Row /\ "held" \in Lease /\ "processing" \in Status
      BY <2>1, RowTyped DEF Lease, Status
    <3> QED BY <2>1, <3>1, ZenonT(40) DEF Row
  <2>4. Become(x, r) /\ Write(w, q) /\ nextToken' = nextToken + 1 /\ UNCHANGED <<upload, deletion>>
    BY <1>5 DEF Claim
  <2> HIDE DEF w, r, q
  <2> QED BY <2>1, <2>2, <2>3, <2>4, BecomeTyped, WriteTyped DEF TypeOK, NoToken
<1>6. ASSUME NEW x \in Worker, ClaimMissed(x) PROVE TypeOK'
  BY <1>6, LeaveType DEF ClaimMissed, TypeOK
<1>7. ASSUME NEW x \in Worker, FailBefore(x) PROVE TypeOK'
  BY <1>7, LeaveType DEF FailBefore, TypeOK
<1>8. ASSUME NEW x \in Worker, LoadSnapshot(x) PROVE TypeOK'
  <2> DEFINE w == run[x].work
             r == [run[x] EXCEPT !.pc = IF row[w].detail THEN "pages" ELSE "detail",
                                 !.view = row[w].files]
  <2>1. w \in Work
    BY <1>8, RunTyped DEF LoadSnapshot
  <2>2. row[w].files \in [Page -> File]
    BY <2>1, RowTyped DEF Row
  <2>3. r \in Run /\ r.work = w
    BY <2>2, RunTyped, ZenonT(40) DEF Run, PC, Filling, Loaded
  <2>4. Become(x, r) /\ UNCHANGED <<row, upload, nextToken, deletion>>
    BY <1>8 DEF LoadSnapshot
  <2> HIDE DEF w, r
  <2> QED BY <2>1, <2>3, <2>4, BecomeTyped DEF TypeOK
<1>9. ASSUME NEW x \in Worker, SaveDetail(x) PROVE TypeOK'
  <2> DEFINE w == run[x].work
             q == [row[w] EXCEPT !.detail = TRUE]
  <2>1. w \in Work /\ run[x].pc # "idle" /\ "pages" \in PC
    BY <1>9, RunTyped DEF SaveDetail, PC, Filling, Loaded
  <2>2. q \in Row
    BY <2>1, RowTyped, ZenonT(40) DEF Row
  <2>3. UNCHANGED <<upload, nextToken, deletion>>
    BY <1>9 DEF SaveDetail
  <2>4. CASE Owns(x)
    <3>1. Write(w, q) /\ Goto(x, "pages")
      BY <1>9, <2>4 DEF SaveDetail
    <3> HIDE DEF w, q
    <3> QED BY <2>1, <2>2, <2>3, <3>1, WriteTyped, GotoType DEF TypeOK
  <2>5. CASE ~Owns(x)
    <3>1. GiveUp(x) /\ UNCHANGED row
      BY <1>9, <2>5 DEF SaveDetail
    <3> QED BY <2>1, <2>3, <3>1, GiveUpType DEF TypeOK
  <2> QED BY <2>4, <2>5
<1>10. ASSUME NEW x \in Worker, ReusePage(x) PROVE TypeOK'
  <2> DEFINE r == [run[x] EXCEPT !.next = @ + 1]
  <2>1. r \in Run /\ r.work = run[x].work /\ run[x].work \in Work
    BY <1>10, RunTyped DEF ReusePage, Run
  <2>2. Become(x, r) /\ UNCHANGED <<row, upload, nextToken, deletion>>
    BY <1>10 DEF ReusePage
  <2> HIDE DEF r
  <2> QED BY <2>1, <2>2, BecomeTyped DEF TypeOK
<1>11. ASSUME NEW x \in Worker, FetchPage(x) PROVE TypeOK'
  <2>1. run[x].pc # "idle" /\ run[x].work \in Work /\ "store" \in PC
        /\ UNCHANGED <<row, upload, nextToken, deletion>>
    BY <1>11, RunTyped DEF FetchPage, PC, Filling, Loaded
  <2>2. ASSUME NEW f \in File, Become(x, [run[x] EXCEPT !.pc = "save", !.got = f])
        PROVE  TypeOK'
    <3> DEFINE r == [run[x] EXCEPT !.pc = "save", !.got = f]
    <3>1. r \in Run /\ r.work = run[x].work
      BY RunTyped DEF Run, PC, Filling, Loaded
    <3>2. Become(x, r)
      BY <2>2
    <3> HIDE DEF r
    <3> QED BY <2>1, <3>1, <3>2, BecomeTyped DEF TypeOK
  <2>3. ASSUME Goto(x, "store") PROVE TypeOK'
    BY <2>1, <2>3, GotoType DEF TypeOK
  <2> QED BY <1>11, <2>2, <2>3 DEF FetchPage, File
<1>12. ASSUME NEW x \in Worker, StorePage(x) PROVE TypeOK'
  <2>1. PICK u \in UploadId, h \in Served[run[x].work][run[x].next] :
          /\ upload' = [upload EXCEPT ![u] = [status |-> "active", hash |-> h]]
          /\ Become(x, [run[x] EXCEPT !.pc = "save", !.got = u])
    BY <1>12 DEF StorePage
  <2> DEFINE r == [run[x] EXCEPT !.pc = "save", !.got = u]
  <2>2. r \in Run /\ r.work = run[x].work /\ run[x].work \in Work
    BY <1>12, RunTyped, ZenonT(40) DEF StorePage, Run, PC, Filling, Loaded, File
  <2>3. h \in Hash
    BY <1>12, <2>2, PagesInPage DEF StorePage, ConstantsOK
  <2>4. upload' \in [UploadId -> Upload]
    BY <2>1, <2>3 DEF Upload, TypeOK
  <2>5. Become(x, r) /\ UNCHANGED <<row, nextToken, deletion>>
    BY <1>12, <2>1 DEF StorePage
  <2> HIDE DEF r
  <2> QED BY <2>2, <2>4, <2>5, BecomeTyped DEF TypeOK
<1>13. ASSUME NEW x \in Worker, MissPage(x) PROVE TypeOK'
  <2> DEFINE r == [run[x] EXCEPT !.pc = "pages", !.next = @ + 1, !.missed = TRUE]
  <2>1. r \in Run /\ r.work = run[x].work /\ run[x].work \in Work
    <3>1. run[x] \in Run /\ run[x].work \in Work
      BY <1>13, RunTyped DEF MissPage
    <3>2. run[x].next + 1 \in Nat /\ "pages" \in PC
      BY <3>1 DEF Run, PC, Filling, Loaded
    <3> QED BY <3>1, <3>2 DEF Run
  <2>2. Become(x, r) /\ UNCHANGED <<row, upload, nextToken, deletion>>
    BY <1>13 DEF MissPage
  <2> HIDE DEF r
  <2> QED BY <2>1, <2>2, BecomeTyped DEF TypeOK
<1>14. ASSUME NEW x \in Worker, SavePage(x) PROVE TypeOK'
  <2> DEFINE w == run[x].work
             merged == [run[x].view EXCEPT ![run[x].next] = run[x].got]
             q == [row[w] EXCEPT !.files = merged]
             r == [run[x] EXCEPT !.pc = "pages", !.view = merged,
                                 !.next = @ + 1, !.got = NoFile]
  <2>1. w \in Work /\ run[x].pc # "idle"
    BY <1>14, RunTyped DEF SavePage
  <2>2. merged \in [Page -> File]
    BY RunTyped DEF Run
  <2>3. q \in Row
    <3> HIDE DEF merged
    <3> QED BY <2>1, <2>2, RowTyped, ZenonT(40) DEF Row
  <2>4. r \in Run /\ r.work = w
    <3> HIDE DEF merged
    <3>1. run[x].next + 1 \in Nat /\ "pages" \in PC /\ NoFile \in File
      BY RunTyped DEF Run, PC, Filling, Loaded, File
    <3> QED BY <2>2, <3>1, RunTyped DEF Run
  <2>5. UNCHANGED <<upload, nextToken, deletion>>
    BY <1>14 DEF SavePage
  <2>6. CASE Owns(x)
    <3>1. Write(w, q) /\ Become(x, r)
      BY <1>14, <2>6 DEF SavePage
    <3> HIDE DEF w, q, r
    <3> QED BY <2>1, <2>3, <2>4, <2>5, <3>1, WriteTyped, BecomeTyped DEF TypeOK
  <2>7. CASE ~Owns(x)
    <3>1. GiveUp(x) /\ UNCHANGED row
      BY <1>14, <2>7 DEF SavePage
    <3> QED BY <2>1, <2>5, <3>1, GiveUpType DEF TypeOK
  <2> QED BY <2>6, <2>7
<1>15. ASSUME NEW x \in Worker, Finish(x) PROVE TypeOK'
  <2> DEFINE w == run[x].work
             q == [row[w] EXCEPT
                    !.recent = TRUE,
                    !.files  = IF w \in Novel THEN @ ELSE run[x].view,
                    !.status = IF run[x].missed THEN "failed" ELSE "success"]
             r == [run[x] EXCEPT !.pc = "final", !.err = run[x].missed]
  <2>1. w \in Work /\ run[x].pc # "idle"
    BY <1>15, RunTyped DEF Finish
  <2>2. q \in Row
    <3>1. run[x].view \in [Page -> File] /\ row[w] \in Row
      BY <2>1, RowTyped, RunTyped DEF Run
    <3>2. (IF w \in Novel THEN row[w].files ELSE run[x].view) \in [Page -> File]
      BY <3>1 DEF Row
    <3>3. (IF run[x].missed THEN "failed" ELSE "success") \in Status
      BY DEF Status
    <3> QED BY <3>1, <3>2, <3>3 DEF Row
  <2>3. r \in Run /\ r.work = w
    BY RunTyped DEF Run, PC, Filling, Loaded
  <2>4. UNCHANGED <<upload, nextToken, deletion>>
    BY <1>15 DEF Finish
  <2>5. CASE Owns(x)
    <3>1. Write(w, q) /\ Become(x, r)
      BY <1>15, <2>5 DEF Finish
    <3> HIDE DEF w, q, r
    <3> QED BY <2>1, <2>2, <2>3, <2>4, <3>1, WriteTyped, BecomeTyped DEF TypeOK
  <2>6. CASE ~Owns(x)
    <3>1. GiveUp(x) /\ UNCHANGED row
      BY <1>15, <2>6 DEF Finish
    <3> QED BY <2>1, <2>4, <3>1, GiveUpType DEF TypeOK
  <2> QED BY <2>5, <2>6
<1>16. ASSUME NEW x \in Worker, Close(x) PROVE TypeOK'
  BY <1>16, GotoType DEF Close, TypeOK, PC
<1>17. ASSUME NEW x \in Worker, FailFill(x) PROVE TypeOK'
  BY <1>17, GiveUpType DEF FailFill, TypeOK, Filling, Loaded
<1>18. ASSUME NEW x \in Worker, Cleanup(x) PROVE TypeOK'
  <2> DEFINE w == run[x].work
             s == IF run[x].err THEN "failed" ELSE row[w].status
             q == [row[w] EXCEPT !.token = NoToken, !.lease = "none", !.status = s]
  <2>1. w \in Work
    BY <1>18, RunTyped DEF Cleanup
  <2>2. q \in Row
    <3>1. row[w] \in Row /\ NoToken \in Nat /\ "none" \in Lease
      BY <2>1, RowTyped DEF NoToken, Lease
    <3>2. s \in Status
      BY <3>1 DEF Row, Status
    <3> HIDE DEF s
    <3> QED BY <3>1, <3>2 DEF Row
  <2>3. Leave(x) /\ UNCHANGED <<upload, nextToken, deletion>>
    BY <1>18 DEF Cleanup
  <2>4. Write(w, q) \/ UNCHANGED row
    BY <1>18 DEF Cleanup
  <2> HIDE DEF w, q
  <2> QED BY <2>1, <2>2, <2>3, <2>4, LeaveType, WriteTyped DEF TypeOK
<1>19. ASSUME NEW x \in Worker, Heartbeat(x) PROVE TypeOK'
  <2> DEFINE w == run[x].work
             q == [row[w] EXCEPT !.lease = "held"]
  <2>1. w \in Work /\ Write(w, q) /\ UNCHANGED <<upload, run, nextToken, deletion>>
    BY <1>19 DEF Heartbeat, Owns
  <2>2. q \in Row
    <3>1. row[w] \in Row /\ "held" \in Lease
      BY <2>1, RowTyped DEF Lease
    <3> QED BY <3>1 DEF Row
  <2> HIDE DEF w, q
  <2> QED BY <2>1, <2>2, WriteTyped DEF TypeOK
<1>20. ASSUME NEW x \in Worker, Crash(x) PROVE TypeOK'
  BY <1>20, LeaveType DEF Crash, TypeOK
<1>21. ASSUME NEW x \in Worker, NEW w \in Work, Deliver(x, w) PROVE TypeOK'
  <2> DEFINE r == [Idle EXCEPT !.pc = "ensure", !.work = w]
  <2>1. r \in Run /\ r.work = w
    BY DEF Idle, Run, PC, Before, File, NoToken
  <2>2. Become(x, r) /\ UNCHANGED <<row, upload, nextToken, deletion>>
    BY <1>21 DEF Deliver
  <2> HIDE DEF r
  <2> QED BY <2>1, <2>2, BecomeTyped DEF TypeOK
<1>22. ASSUME NEW w \in Work, LapseLease(w) \/ Age(w) PROVE TypeOK'
  <2>1. PICK q \in Row : Write(w, q)
    <3>1. [row[w] EXCEPT !.lease = "lapsed"] \in Row /\ [row[w] EXCEPT !.recent = FALSE] \in Row
      BY RowTyped DEF Row, Lease
    <3> QED BY <1>22, <3>1 DEF LapseLease, Age
  <2>2. UNCHANGED <<upload, run, nextToken, deletion>>
    BY <1>22 DEF LapseLease, Age
  <2> QED BY <2>1, <2>2, WriteTyped DEF TypeOK
<1>23. ASSUME Admin PROVE TypeOK'
  <2>1. ASSUME DeleteRow PROVE TypeOK'
    <3>1. deletion.work \in Work
      BY <2>1 DEF DeleteRow, TypeOK
    <3> QED BY <2>1, <3>1, NoRowTyped, WriteTyped DEF DeleteRow, TypeOK
  <2>2. ASSUME DeleteAbort PROVE TypeOK'
    BY <2>2 DEF DeleteAbort, TypeOK
  <2>3. ASSUME NEW w \in Work, DeleteBegin(w) PROVE TypeOK'
    BY <2>3 DEF DeleteBegin, TypeOK
  <2>4. ASSUME NEW w \in Work, DeleteNovel(w) PROVE TypeOK'
    BY <2>4, NoRowTyped, WriteTyped DEF DeleteNovel, TypeOK
  <2>5. ASSUME NEW u \in UploadId, DeleteUpload(u) PROVE TypeOK'
    <3>2. upload' \in [UploadId -> Upload]
      BY <2>5, SoftDeleteType DEF DeleteUpload, TypeOK
    <3>3. deletion' \in [work : Work \cup {NoWork}, files : SUBSET UploadId]
      BY <2>5 DEF DeleteUpload, TypeOK
    <3> QED BY <2>5, <3>2, <3>3 DEF DeleteUpload, TypeOK
  <2>6. ASSUME NEW u \in UploadId, RemoveUpload(u) PROVE TypeOK'
    BY <2>6, SoftDeleteType DEF RemoveUpload, TypeOK
  <2> QED BY <1>23, <2>1, <2>2, <2>3, <2>4, <2>5, <2>6 DEF Admin
<1>24. ASSUME UNCHANGED vars PROVE TypeOK'
  BY <1>24 DEF vars, TypeOK
<1> QED
  BY <1>1, <1>2, <1>3, <1>4, <1>5, <1>6, <1>7, <1>8, <1>9, <1>10, <1>11, <1>12,
     <1>13, <1>14, <1>15, <1>16, <1>17, <1>18, <1>19, <1>20, <1>21, <1>22, <1>23,
     <1>24 DEF Next, Execute

-----------------------------------------------------------------------------
\* How a step changes the tokens, other than by a claim: worker x keeps its
\* work and token, or ends up without one; a row keeps its token or loses it.
Claimed == Filling \cup {"cleanup"}

Others(x)    == \A y \in Worker \ {x} : run'[y] = run[y]
SameClaim(x) == /\ run'[x].work = run[x].work /\ run'[x].token = run[x].token
                /\ run'[x].pc \in Claimed <=> run[x].pc \in Claimed
NoClaim(x)   == run'[x].token = NoToken /\ run'[x].pc \notin Claimed
RowsLoseTokens == \A w \in Work : row'[w].token \in {row[w].token, NoToken}

LEMMA BecomeFacts ==
  ASSUME TypeOK, NEW x \in Worker, NEW r, Become(x, r)
  PROVE  run'[x] = r /\ Others(x)
  BY DEF TypeOK, Become, Others

LEMMA WriteFacts ==
  ASSUME TypeOK, NEW w \in Work, NEW r, Write(w, r)
  PROVE  row'[w] = r /\ \A v \in Work \ {w} : row'[v] = row[v]
  BY DEF TypeOK, Write

LEMMA WriteTokens ==
  ASSUME TypeOK, NEW w \in Work, NEW r, Write(w, r), r.token \in {row[w].token, NoToken}
  PROVE  RowsLoseTokens
  BY WriteFacts DEF RowsLoseTokens

LEMMA GotoClaim ==
  ASSUME TypeOK, TokensOK, NEW x \in Worker, NEW pc, Goto(x, pc),
         pc \in Claimed <=> run[x].pc \in Claimed
  PROVE  Others(x) /\ SameClaim(x)
  BY BecomeFacts, RunTyped DEF Goto, SameClaim, Run

LEMMA LeaveClaim ==
  ASSUME TypeOK, NEW x \in Worker, Leave(x)
  PROVE  Others(x) /\ NoClaim(x)
  BY BecomeFacts DEF Leave, NoClaim, Idle, Claimed, Filling, Loaded

LEMMA GiveUpClaim ==
  ASSUME TypeOK, NEW x \in Worker, GiveUp(x), run[x].pc \in Claimed
  PROVE  Others(x) /\ SameClaim(x)
<1> DEFINE r == [run[x] EXCEPT !.pc = "cleanup", !.err = TRUE]
<1>1. r.work = run[x].work /\ r.token = run[x].token /\ r.pc = "cleanup"
  BY RunTyped DEF Run
<1>2. Become(x, r)
  BY DEF GiveUp
<1> HIDE DEF r
<1> QED BY <1>1, <1>2, BecomeFacts DEF SameClaim, Claimed

LEMMA TokenEffects ==
  ASSUME TypeOK, TokensOK, [Next]_vars
  PROVE  \/ \E x \in Worker : Claim(x)
         \/ /\ RowsLoseTokens /\ UNCHANGED nextToken
            /\ \/ UNCHANGED run
               \/ \E x \in Worker : Others(x) /\ (SameClaim(x) \/ NoClaim(x))
<1> DEFINE Ok == /\ RowsLoseTokens /\ UNCHANGED nextToken
                 /\ \/ UNCHANGED run
                    \/ \E x \in Worker : Others(x) /\ (SameClaim(x) \/ NoClaim(x))
<1>0. UNCHANGED row => RowsLoseTokens
  BY DEF RowsLoseTokens
<1>1. ASSUME NEW x \in Worker, EnsureRead(x) PROVE Ok
  BY <1>0, <1>1, GotoClaim DEF EnsureRead, Claimed, Filling, Loaded
<1>2. ASSUME NEW x \in Worker, EnsureQueued(x) PROVE Ok
  <2>1. Ensured(row[run[x].work]).token \in {row[run[x].work].token, NoToken} /\ run[x].work \in Work
    BY <1>2, RunTyped, RowTyped DEF Ensured, EnsureQueued, Row, NoRow
  <2>2. Others(x) /\ SameClaim(x)
    BY <1>2, GotoClaim DEF EnsureQueued, Claimed, Filling, Loaded
  <2>3. RowsLoseTokens
    BY <1>2, <2>1, WriteTokens DEF EnsureQueued
  <2> QED BY <1>2, <2>2, <2>3 DEF EnsureQueued
<1>3. ASSUME NEW x \in Worker, PassGate(x) PROVE Ok
  BY <1>0, <1>3, GotoClaim DEF PassGate, Claimed, Filling, Loaded
<1>4. ASSUME NEW x \in Worker, CheckNeeded(x) PROVE Ok
  BY <1>0, <1>4, GotoClaim, LeaveClaim DEF CheckNeeded, Claimed, Filling, Loaded
<1>6. ASSUME NEW x \in Worker, ClaimMissed(x) \/ FailBefore(x) \/ Crash(x) PROVE Ok
  BY <1>0, <1>6, LeaveClaim DEF ClaimMissed, FailBefore, Crash
<1>8. ASSUME NEW x \in Worker, LoadSnapshot(x) PROVE Ok
  <2> DEFINE pc == IF row[run[x].work].detail THEN "pages" ELSE "detail"
             r == [run[x] EXCEPT !.pc = pc, !.view = row[run[x].work].files]
  <2>1. Become(x, r)
    BY <1>8 DEF LoadSnapshot
  <2>2. r.work = run[x].work /\ r.token = run[x].token /\ r.pc = pc
    BY RunTyped DEF Run
  <2> HIDE DEF r
  <2> QED BY <1>0, <1>8, <2>1, <2>2, BecomeFacts DEF LoadSnapshot, SameClaim, Claimed, Filling, Loaded
<1>9. ASSUME NEW x \in Worker, SaveDetail(x) PROVE Ok
  <2>1. run[x].work \in Work /\ run[x].pc \in Claimed /\ "pages" \in Claimed
    BY <1>9, RunTyped DEF SaveDetail, Claimed, Filling, Loaded
  <2>2. [row[run[x].work] EXCEPT !.detail = TRUE].token = row[run[x].work].token
    BY <2>1, RowTyped DEF Row
  <2>3. Others(x) /\ SameClaim(x)
    BY <1>9, <2>1, GotoClaim, GiveUpClaim DEF SaveDetail
  <2>4. RowsLoseTokens
    BY <1>0, <1>9, <2>1, <2>2, WriteTokens DEF SaveDetail
  <2> QED BY <1>9, <2>3, <2>4 DEF SaveDetail
<1>10. ASSUME NEW x \in Worker, ReusePage(x) PROVE Ok
  <2> DEFINE r == [run[x] EXCEPT !.next = @ + 1]
  <2>1. Become(x, r) /\ r.work = run[x].work /\ r.token = run[x].token /\ r.pc = run[x].pc
    BY <1>10, RunTyped DEF ReusePage, Run
  <2> HIDE DEF r
  <2> QED BY <1>0, <1>10, <2>1, BecomeFacts DEF ReusePage, SameClaim
<1>11. ASSUME NEW x \in Worker, FetchPage(x) \/ StorePage(x) PROVE Ok
  <2>1. ASSUME NEW f, Become(x, [run[x] EXCEPT !.pc = "save", !.got = f]), run[x].pc \in Claimed
        PROVE  Others(x) /\ SameClaim(x)
    <3> DEFINE r == [run[x] EXCEPT !.pc = "save", !.got = f]
    <3>1. Become(x, r) /\ r.work = run[x].work /\ r.token = run[x].token /\ r.pc = "save"
      BY <2>1, RunTyped DEF Run
    <3> HIDE DEF r
    <3> QED BY <2>1, <3>1, BecomeFacts DEF SameClaim, Claimed, Filling, Loaded
  <2>2. run[x].pc \in Claimed
    BY <1>11 DEF FetchPage, StorePage, Claimed, Filling, Loaded
  <2>3. Others(x) /\ SameClaim(x)
    <3>1. CASE Goto(x, "store")
      BY <2>2, <3>1, GotoClaim DEF Claimed, Filling, Loaded
    <3> QED BY <1>11, <2>1, <2>2, <3>1 DEF FetchPage, StorePage
  <2> QED BY <1>0, <1>11, <2>3 DEF FetchPage, StorePage
<1>13. ASSUME NEW x \in Worker, MissPage(x) PROVE Ok
  <2> DEFINE r == [run[x] EXCEPT !.pc = "pages", !.next = @ + 1, !.missed = TRUE]
  <2>1. Become(x, r) /\ r.work = run[x].work /\ r.token = run[x].token /\ r.pc = "pages"
    BY <1>13, RunTyped DEF MissPage, Run
  <2> HIDE DEF r
  <2> QED BY <1>0, <1>13, <2>1, BecomeFacts DEF MissPage, SameClaim, Claimed, Filling, Loaded
<1>14. ASSUME NEW x \in Worker, SavePage(x) PROVE Ok
  <2> DEFINE w == run[x].work
             merged == [run[x].view EXCEPT ![run[x].next] = run[x].got]
             q == [row[w] EXCEPT !.files = merged]
             r == [run[x] EXCEPT !.pc = "pages", !.view = merged,
                                 !.next = @ + 1, !.got = NoFile]
  <2>1. w \in Work /\ run[x].pc \in Claimed
    BY <1>14, RunTyped DEF SavePage, Claimed, Filling, Loaded
  <2>2. /\ r.work = w /\ r.token = run[x].token /\ r.pc = "pages"
        /\ q.token = row[w].token
    BY <2>1, RunTyped, RowTyped DEF Run, Row
  <2>3. CASE Owns(x)
    <3>1. Write(w, q) /\ Become(x, r) /\ UNCHANGED nextToken
      BY <1>14, <2>3 DEF SavePage
    <3> HIDE DEF w, q, r
    <3> QED BY <2>1, <2>2, <3>1, BecomeFacts, WriteTokens DEF w, SameClaim, Claimed, Filling, Loaded
  <2>4. CASE ~Owns(x)
    BY <1>0, <1>14, <2>1, <2>4, GiveUpClaim DEF SavePage
  <2> QED BY <2>3, <2>4
<1>15. ASSUME NEW x \in Worker, Finish(x) PROVE Ok
  <2> DEFINE w == run[x].work
             q == [row[w] EXCEPT
                    !.recent = TRUE,
                    !.files  = IF w \in Novel THEN @ ELSE run[x].view,
                    !.status = IF run[x].missed THEN "failed" ELSE "success"]
             r == [run[x] EXCEPT !.pc = "final", !.err = run[x].missed]
  <2>1. w \in Work /\ run[x].pc \in Claimed
    BY <1>15, RunTyped DEF Finish, Claimed, Filling, Loaded
  <2>2. /\ r.work = w /\ r.token = run[x].token /\ r.pc = "final"
        /\ q.token = row[w].token
    BY <2>1, RunTyped, RowTyped DEF Run, Row
  <2>3. CASE Owns(x)
    <3>1. Write(w, q) /\ Become(x, r) /\ UNCHANGED nextToken
      BY <1>15, <2>3 DEF Finish
    <3> HIDE DEF w, q, r
    <3> QED BY <2>1, <2>2, <3>1, BecomeFacts, WriteTokens DEF w, SameClaim, Claimed, Filling, Loaded
  <2>4. CASE ~Owns(x)
    BY <1>0, <1>15, <2>1, <2>4, GiveUpClaim DEF Finish
  <2> QED BY <2>3, <2>4
<1>16. ASSUME NEW x \in Worker, Close(x) PROVE Ok
  BY <1>0, <1>16, GotoClaim DEF Close, Claimed, Filling, Loaded
<1>17. ASSUME NEW x \in Worker, FailFill(x) PROVE Ok
  BY <1>0, <1>17, GiveUpClaim DEF FailFill, Claimed, Filling, Loaded
<1>18. ASSUME NEW x \in Worker, Cleanup(x) PROVE Ok
  <2> DEFINE w == run[x].work
             q == [row[w] EXCEPT !.token = NoToken, !.lease = "none",
                                 !.status = IF run[x].err THEN "failed" ELSE @]
  <2>1. w \in Work
    BY <1>18, RunTyped DEF Cleanup
  <2>2. q.token = NoToken
    BY <2>1, RowTyped DEF Row
  <2>3. (Write(w, q) \/ UNCHANGED row) /\ Leave(x) /\ UNCHANGED nextToken
    BY <1>18 DEF Cleanup
  <2> HIDE DEF w, q
  <2> QED BY <1>0, <2>1, <2>2, <2>3, LeaveClaim, WriteTokens
<1>19. ASSUME NEW w \in Work, LapseLease(w) \/ Age(w) PROVE Ok
  <2>1. /\ [row[w] EXCEPT !.lease = "lapsed"].token = row[w].token
        /\ [row[w] EXCEPT !.recent = FALSE].token = row[w].token
    BY RowTyped DEF Row
  <2> QED BY <1>19, <2>1, WriteTokens DEF LapseLease, Age
<1>20. ASSUME NEW x \in Worker, Heartbeat(x) PROVE Ok
  <2>1. [row[run[x].work] EXCEPT !.lease = "held"].token = row[run[x].work].token /\ run[x].work \in Work
    BY <1>20, RowTyped DEF Row, Heartbeat, Owns
  <2> QED BY <1>20, <2>1, WriteTokens DEF Heartbeat
<1>21. ASSUME NEW x \in Worker, NEW w \in Work, Deliver(x, w) PROVE Ok
  <2> DEFINE r == [Idle EXCEPT !.pc = "ensure", !.work = w]
  <2>1. r.token = NoToken /\ r.pc \notin Claimed
    BY DEF Idle, Claimed, Filling, Loaded
  <2>2. Become(x, r) /\ UNCHANGED <<row, nextToken>>
    BY <1>21 DEF Deliver
  <2> HIDE DEF r
  <2> QED BY <1>0, <2>1, <2>2, BecomeFacts DEF NoClaim
<1>22. ASSUME Admin PROVE Ok
  <2>1. ASSUME NEW w \in Work, Write(w, NoRow) PROVE RowsLoseTokens
    BY <2>1, WriteTokens DEF NoRow
  <2>2. ASSUME DeleteRow PROVE deletion.work \in Work
    BY <2>2 DEF DeleteRow, TypeOK
  <2> QED BY <1>0, <1>22, <2>1, <2>2
       DEF Admin, DeleteRow, DeleteAbort, DeleteBegin, DeleteNovel, DeleteUpload, RemoveUpload
<1>23. ASSUME UNCHANGED vars PROVE Ok
  BY <1>0, <1>23 DEF vars
<1> HIDE DEF Ok
<1>24. (\E x \in Worker : Claim(x)) \/ Ok
  BY <1>1, <1>2, <1>3, <1>4, <1>6, <1>8, <1>9, <1>10, <1>11, <1>13, <1>14, <1>15,
     <1>16, <1>17, <1>18, <1>19, <1>20, <1>21, <1>22, <1>23 DEF Next, Execute
<1> QED BY <1>24 DEF Ok

LEMMA TokensStep ==
  ASSUME TypeOK, TokensOK, [Next]_vars
  PROVE  TokensOK'
<1>1. ASSUME NEW x \in Worker, Claim(x) PROVE TokensOK'
  <2> DEFINE w == run[x].work
             r == [run[x] EXCEPT !.pc = "load", !.token = nextToken]
             q == [row[w] EXCEPT !.token = nextToken, !.lease = "held",
                                 !.status = "processing"]
  <2>1. w \in Work /\ nextToken \in Nat \ {NoToken} /\ nextToken' = nextToken + 1
    BY <1>1, RunTyped DEF Claim, TypeOK
  <2>2. r.work = w /\ r.token = nextToken /\ r.pc \in Claimed /\ q.token = nextToken
    BY <2>1, RunTyped, RowTyped DEF Run, Row, Claimed, Filling
  <2>3. Become(x, r) /\ Write(w, q)
    BY <1>1 DEF Claim
  <2> HIDE DEF w, r, q
  <2>4. /\ run'[x] = r /\ \A y \in Worker \ {x} : run'[y] = run[y]
        /\ row'[w] = q /\ \A v \in Work \ {w} : row'[v] = row[v]
    BY <2>1, <2>3, BecomeFacts, WriteFacts DEF Others
  <2>5. /\ \A y \in Worker : run[y].token \in Nat /\ run[y].token < nextToken
        /\ \A v \in Work : row[v].token \in Nat /\ row[v].token < nextToken
    BY RunTyped, RowTyped DEF TokensOK, Run, Row
  <2>6. /\ \A v \in Work : row'[v].token < nextToken'
        /\ \A y \in Worker : run'[y].token < nextToken'
    BY <2>1, <2>2, <2>4, <2>5
  <2>7. \A y \in Worker : run'[y].token # NoToken <=> run'[y].pc \in Claimed
    BY <2>1, <2>2, <2>4 DEF TokensOK, Claimed
  <2>8. \A y, z \in Worker :
          run'[y].token # NoToken /\ run'[y].token = run'[z].token => y = z
    BY <2>1, <2>2, <2>4, <2>5 DEF TokensOK
  <2>9. \A y \in Worker, v \in Work :
          run'[y].token # NoToken /\ row'[v].token = run'[y].token => v = run'[y].work
    BY <2>1, <2>2, <2>4, <2>5 DEF TokensOK
  <2> QED BY <2>6, <2>7, <2>8, <2>9 DEF TokensOK, Claimed
<1>2. ASSUME RowsLoseTokens, UNCHANGED nextToken, UNCHANGED run PROVE TokensOK'
  <2>1. \A v \in Work : row'[v].token < nextToken'
    BY <1>2, RowTyped DEF TokensOK, RowsLoseTokens, TypeOK, Row, NoToken
  <2> QED BY <1>2, <2>1 DEF TokensOK, RowsLoseTokens
<1>3. ASSUME RowsLoseTokens, UNCHANGED nextToken, NEW x \in Worker, Others(x),
             SameClaim(x) \/ NoClaim(x)
      PROVE  TokensOK'
  <2>1. \A v \in Work : row'[v].token < nextToken'
    BY <1>3, RowTyped DEF TokensOK, RowsLoseTokens, TypeOK, Row, NoToken
  <2>2. \A y \in Worker : /\ run'[y].token < nextToken'
                          /\ run'[y].token # NoToken <=> run'[y].pc \in Claimed
                          /\ run'[y].token # NoToken => run'[y].token = run[y].token /\ run'[y].work = run[y].work
    BY <1>3 DEF TokensOK, Others, SameClaim, NoClaim, TypeOK, NoToken, Claimed
  <2> QED BY <1>3, <2>1, <2>2 DEF TokensOK, RowsLoseTokens, Claimed
<1> QED BY <1>1, <1>2, <1>3, TokenEffects

-----------------------------------------------------------------------------
(***************************************************************************)
(* What each action does to the fields of the worker and of the row.       *)
(***************************************************************************)
\* Worker x keeps its work and token; the other fields are as given.
RunIs(x, pc, view, next, got, missed, err) ==
  /\ Others(x)
  /\ run'[x].work = run[x].work /\ run'[x].token = run[x].token
  /\ run'[x].pc = pc /\ run'[x].view = view /\ run'[x].next = next
  /\ run'[x].got = got /\ run'[x].missed = missed /\ run'[x].err = err

\* Row w keeps on existing; the fields are as given.
RowIs(w, token, lease, status, detail, files) ==
  /\ \A v \in Work \ {w} : row'[v] = row[v]
  /\ row'[w].exists = row[w].exists
  /\ row'[w].token = token /\ row'[w].lease = lease /\ row'[w].status = status
  /\ row'[w].detail = detail /\ row'[w].files = files

LEMMA GotoEffect ==
  ASSUME TypeOK, NEW x \in Worker, NEW pc, Goto(x, pc)
  PROVE  RunIs(x, pc, run[x].view, run[x].next, run[x].got, run[x].missed, run[x].err)
<1> DEFINE r == [run[x] EXCEPT !.pc = pc]
<1>1. /\ r.work = run[x].work /\ r.token = run[x].token /\ r.pc = pc
      /\ r.view = run[x].view /\ r.next = run[x].next /\ r.got = run[x].got
      /\ r.missed = run[x].missed /\ r.err = run[x].err
  BY RunTyped DEF Run
<1>2. Become(x, r)
  BY DEF Goto
<1> HIDE DEF r
<1> QED BY <1>1, <1>2, BecomeFacts DEF RunIs

LEMMA GiveUpEffect ==
  ASSUME TypeOK, NEW x \in Worker, GiveUp(x)
  PROVE  RunIs(x, "cleanup", run[x].view, run[x].next, run[x].got, run[x].missed, TRUE)
<1> DEFINE r == [run[x] EXCEPT !.pc = "cleanup", !.err = TRUE]
<1>1. /\ r.work = run[x].work /\ r.token = run[x].token /\ r.pc = "cleanup"
      /\ r.view = run[x].view /\ r.next = run[x].next /\ r.got = run[x].got
      /\ r.missed = run[x].missed /\ r.err = TRUE
  BY RunTyped DEF Run
<1>2. Become(x, r)
  BY DEF GiveUp
<1> HIDE DEF r
<1> QED BY <1>1, <1>2, BecomeFacts DEF RunIs

LEMMA LeaveEffect ==
  ASSUME TypeOK, NEW x \in Worker, Leave(x)
  PROVE  Others(x) /\ run'[x] = Idle
  BY BecomeFacts DEF Leave

LEMMA DeliverEffect ==
  ASSUME TypeOK, NEW x \in Worker, NEW w \in Work, Deliver(x, w)
  PROVE  /\ Others(x) /\ UNCHANGED <<row, upload, nextToken, deletion>>
         /\ run'[x].pc = "ensure" /\ run'[x].token = NoToken
         /\ run'[x].view = [p \in Page |-> NoFile] /\ run'[x].got = NoFile
<1> DEFINE r == [Idle EXCEPT !.pc = "ensure", !.work = w]
<1>1. /\ r.pc = "ensure" /\ r.token = NoToken /\ r.view = [p \in Page |-> NoFile]
      /\ r.got = NoFile
  BY DEF Idle
<1>2. Become(x, r) /\ UNCHANGED <<row, upload, nextToken, deletion>>
  BY DEF Deliver
<1> HIDE DEF r
<1> QED BY <1>1, <1>2, BecomeFacts

LEMMA EnsureQueuedEffect ==
  ASSUME TypeOK, NEW x \in Worker, EnsureQueued(x)
  PROVE  LET w == run[x].work IN
         /\ w \in Work /\ run[x].pc = "queue" /\ UNCHANGED <<upload, nextToken, deletion>>
         /\ RunIs(x, "gate", run[x].view, run[x].next, run[x].got, run[x].missed, run[x].err)
         /\ row[w].exists =>
              \E s \in {row[w].status, "queued"} :
                RowIs(w, row[w].token, row[w].lease, s, row[w].detail, row[w].files)
         /\ ~row[w].exists =>
              /\ \A v \in Work \ {w} : row'[v] = row[v]
              /\ row'[w].exists /\ row'[w].token = NoToken /\ row'[w].lease = "none"
              /\ row'[w].status = "queued" /\ ~row'[w].detail
              /\ row'[w].files = [p \in Page |-> NoFile]
<1> DEFINE w == run[x].work
           q == Ensured(row[w])
<1>1. w \in Work
  BY RunTyped DEF EnsureQueued
<1>2. row[w].exists =>
        /\ q.exists = row[w].exists /\ q.token = row[w].token /\ q.lease = row[w].lease
        /\ q.status \in {row[w].status, "queued"}
        /\ q.detail = row[w].detail /\ q.files = row[w].files
  BY <1>1, RowTyped DEF Ensured, Row
<1>3. ~row[w].exists =>
        /\ q.exists /\ q.token = NoToken /\ q.lease = "none" /\ q.status = "queued"
        /\ ~q.detail /\ q.files = [p \in Page |-> NoFile]
  BY DEF Ensured, NoRow
<1>4. Write(w, q) /\ Goto(x, "gate") /\ run[x].pc = "queue"
      /\ UNCHANGED <<upload, nextToken, deletion>>
  BY DEF EnsureQueued
<1> HIDE DEF q
<1>5. row'[w] = q /\ \A v \in Work \ {w} : row'[v] = row[v]
  BY <1>1, <1>4, WriteFacts
<1> QED BY <1>1, <1>2, <1>3, <1>4, <1>5, GotoEffect DEF RowIs

LEMMA ClaimEffect ==
  ASSUME TypeOK, NEW x \in Worker, Claim(x)
  PROVE  LET w == run[x].work IN
         /\ w \in Work /\ run[x].pc = "claim" /\ row[w].exists
         /\ UNCHANGED <<upload, deletion>> /\ nextToken' = nextToken + 1
         /\ Others(x)
         /\ run'[x].work = w /\ run'[x].token = nextToken /\ run'[x].pc = "load"
         /\ run'[x].view = run[x].view /\ run'[x].got = run[x].got
         /\ RowIs(w, nextToken, "held", "processing", row[w].detail, row[w].files)
<1> DEFINE w == run[x].work
           r == [run[x] EXCEPT !.pc = "load", !.token = nextToken]
           q == [row[w] EXCEPT !.token = nextToken, !.lease = "held",
                               !.status = "processing"]
<1>1. w \in Work
  BY RunTyped DEF Claim
<1>2. /\ r.work = w /\ r.token = nextToken /\ r.pc = "load"
      /\ r.view = run[x].view /\ r.got = run[x].got
  BY RunTyped DEF Run
<1>3. /\ q.exists = row[w].exists /\ q.token = nextToken /\ q.lease = "held"
      /\ q.status = "processing" /\ q.detail = row[w].detail /\ q.files = row[w].files
  BY <1>1, RowTyped DEF Row
<1>4. Write(w, q) /\ Become(x, r)
  BY DEF Claim
<1> HIDE DEF r, q
<1>5. row'[w] = q /\ \A v \in Work \ {w} : row'[v] = row[v]
  BY <1>1, <1>4, WriteFacts
<1>6. run'[x] = r /\ Others(x)
  BY <1>4, BecomeFacts
<1> QED BY <1>1, <1>2, <1>3, <1>5, <1>6 DEF RowIs, Claim

LEMMA LoadSnapshotEffect ==
  ASSUME TypeOK, NEW x \in Worker, LoadSnapshot(x)
  PROVE  LET w == run[x].work IN
         /\ w \in Work /\ run[x].pc = "load" /\ UNCHANGED <<row, upload, nextToken, deletion>>
         /\ RunIs(x, IF row[w].detail THEN "pages" ELSE "detail", row[w].files,
                  run[x].next, run[x].got, run[x].missed, run[x].err)
<1> DEFINE w == run[x].work
           pc == IF row[w].detail THEN "pages" ELSE "detail"
           r == [run[x] EXCEPT !.pc = pc, !.view = row[w].files]
<1>1. w \in Work
  BY RunTyped DEF LoadSnapshot
<1>2. /\ r.work = run[x].work /\ r.token = run[x].token /\ r.pc = pc
      /\ r.view = row[w].files /\ r.next = run[x].next /\ r.got = run[x].got
      /\ r.missed = run[x].missed /\ r.err = run[x].err
  BY RunTyped DEF Run
<1>3. Become(x, r) /\ run[x].pc = "load" /\ UNCHANGED <<row, upload, nextToken, deletion>>
  BY DEF LoadSnapshot
<1> HIDE DEF r
<1> QED BY <1>1, <1>2, <1>3, BecomeFacts DEF RunIs

LEMMA SaveDetailEffect ==
  ASSUME TypeOK, NEW x \in Worker, SaveDetail(x)
  PROVE  LET w == run[x].work IN
         /\ w \in Work /\ run[x].pc = "detail" /\ UNCHANGED <<upload, nextToken, deletion>>
         /\ \/ /\ Owns(x)
               /\ RowIs(w, row[w].token, row[w].lease, row[w].status, TRUE, row[w].files)
               /\ RunIs(x, "pages", run[x].view, run[x].next, run[x].got, run[x].missed, run[x].err)
            \/ /\ ~Owns(x) /\ UNCHANGED row /\ GiveUp(x)
<1> DEFINE w == run[x].work
           q == [row[w] EXCEPT !.detail = TRUE]
<1>1. w \in Work
  BY RunTyped DEF SaveDetail
<1>2. /\ q.exists = row[w].exists /\ q.token = row[w].token /\ q.lease = row[w].lease
      /\ q.status = row[w].status /\ q.detail = TRUE /\ q.files = row[w].files
  BY <1>1, RowTyped DEF Row
<1>3. CASE Owns(x)
  <2>1. Write(w, q) /\ Goto(x, "pages")
    BY <1>3 DEF SaveDetail
  <2> HIDE DEF q
  <2>2. RowIs(w, row[w].token, row[w].lease, row[w].status, TRUE, row[w].files)
    BY <1>1, <1>2, <2>1, WriteFacts DEF RowIs
  <2> QED BY <1>1, <1>3, <2>1, <2>2, GotoEffect DEF SaveDetail
<1>4. CASE ~Owns(x)
  BY <1>1, <1>4 DEF SaveDetail
<1> QED BY <1>3, <1>4

LEMMA ReusePageEffect ==
  ASSUME TypeOK, NEW x \in Worker, ReusePage(x)
  PROVE  /\ run[x].pc = "pages" /\ run[x].next \in Pages(run[x].work)
         /\ Valid(run[x].view[run[x].next])
         /\ UNCHANGED <<row, upload, nextToken, deletion>>
         /\ RunIs(x, "pages", run[x].view, run[x].next + 1, run[x].got, run[x].missed, run[x].err)
<1> DEFINE r == [run[x] EXCEPT !.next = @ + 1]
<1>1. /\ r.work = run[x].work /\ r.token = run[x].token /\ r.pc = run[x].pc
      /\ r.view = run[x].view /\ r.next = run[x].next + 1 /\ r.got = run[x].got
      /\ r.missed = run[x].missed /\ r.err = run[x].err
  BY RunTyped DEF Run
<1>2. Become(x, r)
  BY DEF ReusePage
<1> HIDE DEF r
<1> QED BY <1>1, <1>2, BecomeFacts DEF RunIs, ReusePage

\* FetchPage and StorePage, once they hold a file.
LEMMA GotEffect ==
  ASSUME TypeOK, NEW x \in Worker, NEW f,
         Become(x, [run[x] EXCEPT !.pc = "save", !.got = f])
  PROVE  RunIs(x, "save", run[x].view, run[x].next, f, run[x].missed, run[x].err)
<1> DEFINE r == [run[x] EXCEPT !.pc = "save", !.got = f]
<1>1. /\ r.work = run[x].work /\ r.token = run[x].token /\ r.pc = "save"
      /\ r.view = run[x].view /\ r.next = run[x].next /\ r.got = f
      /\ r.missed = run[x].missed /\ r.err = run[x].err
  BY RunTyped DEF Run
<1> HIDE DEF r
<1> QED BY <1>1, BecomeFacts DEF RunIs, r

LEMMA FetchPageEffect ==
  ASSUME TypeOK, NEW x \in Worker, FetchPage(x)
  PROVE  /\ run[x].pc = "pages" /\ run[x].next \in Pages(run[x].work)
         /\ LooksInvalid(run[x].view[run[x].next])
         /\ UNCHANGED <<row, upload, nextToken, deletion>>
         /\ \/ RunIs(x, "store", run[x].view, run[x].next, run[x].got, run[x].missed, run[x].err)
            \/ \E f \in UploadId \cup {Inline} :
                 /\ f = Inline \/ upload[f].status = "active"
                 /\ RunIs(x, "save", run[x].view, run[x].next, f, run[x].missed, run[x].err)
<1>1. CASE Become(x, [run[x] EXCEPT !.pc = "save", !.got = Inline])
  BY <1>1, GotEffect DEF FetchPage
<1>2. ASSUME NEW u \in UploadId, upload[u].status = "active",
             Become(x, [run[x] EXCEPT !.pc = "save", !.got = u])
      PROVE  RunIs(x, "save", run[x].view, run[x].next, u, run[x].missed, run[x].err)
  BY <1>2, GotEffect
<1>3. CASE Goto(x, "store")
  BY <1>3, GotoEffect DEF FetchPage
<1>4. CASE \E u \in UploadId : /\ upload[u].status = "active"
                               /\ Become(x, [run[x] EXCEPT !.pc = "save", !.got = u])
  BY <1>2, <1>4 DEF FetchPage
<1> QED BY <1>1, <1>3, <1>4 DEF FetchPage

LEMMA StorePageEffect ==
  ASSUME TypeOK, NEW x \in Worker, StorePage(x)
  PROVE  /\ run[x].pc = "store" /\ UNCHANGED <<row, nextToken, deletion>>
         /\ \E u \in UploadId :
              /\ upload[u].status = "free" /\ upload'[u].status = "active"
              /\ \A t \in UploadId \ {u} : upload'[t] = upload[t]
              /\ RunIs(x, "save", run[x].view, run[x].next, u, run[x].missed, run[x].err)
<1>1. PICK u \in UploadId, h \in Served[run[x].work][run[x].next] :
        /\ upload[u].status = "free"
        /\ upload' = [upload EXCEPT ![u] = [status |-> "active", hash |-> h]]
        /\ Become(x, [run[x] EXCEPT !.pc = "save", !.got = u])
  BY DEF StorePage
<1>2. upload'[u].status = "active" /\ \A t \in UploadId \ {u} : upload'[t] = upload[t]
  BY <1>1 DEF TypeOK
<1>3. RunIs(x, "save", run[x].view, run[x].next, u, run[x].missed, run[x].err)
  BY <1>1, GotEffect
<1> QED BY <1>1, <1>2, <1>3 DEF StorePage

LEMMA MissPageEffect ==
  ASSUME TypeOK, NEW x \in Worker, MissPage(x)
  PROVE  /\ run[x].pc \in {"pages", "store"} /\ UNCHANGED <<row, upload, nextToken, deletion>>
         /\ RunIs(x, "pages", run[x].view, run[x].next + 1, run[x].got, TRUE, run[x].err)
<1> DEFINE r == [run[x] EXCEPT !.pc = "pages", !.next = @ + 1, !.missed = TRUE]
<1>1. /\ r.work = run[x].work /\ r.token = run[x].token /\ r.pc = "pages"
      /\ r.view = run[x].view /\ r.next = run[x].next + 1 /\ r.got = run[x].got
      /\ r.missed = TRUE /\ r.err = run[x].err
  BY RunTyped DEF Run
<1>2. Become(x, r)
  BY DEF MissPage
<1> HIDE DEF r
<1> QED BY <1>1, <1>2, BecomeFacts DEF RunIs, MissPage

LEMMA SavePageEffect ==
  ASSUME TypeOK, NEW x \in Worker, SavePage(x)
  PROVE  LET w == run[x].work
             merged == [run[x].view EXCEPT ![run[x].next] = run[x].got] IN
         /\ w \in Work /\ run[x].pc = "save" /\ UNCHANGED <<upload, nextToken, deletion>>
         /\ \/ /\ Owns(x)
               /\ RowIs(w, row[w].token, row[w].lease, row[w].status, row[w].detail, merged)
               /\ RunIs(x, "pages", merged, run[x].next + 1, NoFile, run[x].missed, run[x].err)
            \/ /\ ~Owns(x) /\ UNCHANGED row /\ GiveUp(x)
<1> DEFINE w == run[x].work
           merged == [run[x].view EXCEPT ![run[x].next] = run[x].got]
           q == [row[w] EXCEPT !.files = merged]
           r == [run[x] EXCEPT !.pc = "pages", !.view = merged,
                               !.next = @ + 1, !.got = NoFile]
<1>1. w \in Work
  BY RunTyped DEF SavePage
<1>2. /\ q.exists = row[w].exists /\ q.token = row[w].token /\ q.lease = row[w].lease
      /\ q.status = row[w].status /\ q.detail = row[w].detail /\ q.files = merged
  <2> HIDE DEF merged
  <2> QED BY <1>1, RowTyped DEF Row
<1>3. /\ r.work = run[x].work /\ r.token = run[x].token /\ r.pc = "pages"
      /\ r.view = merged /\ r.next = run[x].next + 1 /\ r.got = NoFile
      /\ r.missed = run[x].missed /\ r.err = run[x].err
  <2> HIDE DEF merged
  <2> QED BY RunTyped DEF Run
<1>4. CASE Owns(x)
  <2>1. Write(w, q) /\ Become(x, r)
    BY <1>4 DEF SavePage
  <2> HIDE DEF q, r
  <2>2. RowIs(w, row[w].token, row[w].lease, row[w].status, row[w].detail, merged)
    BY <1>1, <1>2, <2>1, WriteFacts DEF RowIs
  <2>3. RunIs(x, "pages", merged, run[x].next + 1, NoFile, run[x].missed, run[x].err)
    BY <1>3, <2>1, BecomeFacts DEF RunIs
  <2> QED BY <1>1, <1>4, <2>2, <2>3 DEF SavePage
<1>5. CASE ~Owns(x)
  BY <1>1, <1>5 DEF SavePage
<1> QED BY <1>4, <1>5

LEMMA FinishEffect ==
  ASSUME TypeOK, NEW x \in Worker, Finish(x)
  PROVE  LET w == run[x].work IN
         /\ w \in Work /\ run[x].pc = "pages" /\ run[x].next > PageCount[w]
         /\ UNCHANGED <<upload, nextToken, deletion>>
         /\ \/ /\ Owns(x)
               /\ RowIs(w, row[w].token, row[w].lease,
                        IF run[x].missed THEN "failed" ELSE "success", row[w].detail,
                        IF w \in Novel THEN row[w].files ELSE run[x].view)
               /\ RunIs(x, "final", run[x].view, run[x].next, run[x].got, run[x].missed, run[x].missed)
            \/ /\ ~Owns(x) /\ UNCHANGED row /\ GiveUp(x)
<1> DEFINE w == run[x].work
           s == IF run[x].missed THEN "failed" ELSE "success"
           f == IF w \in Novel THEN row[w].files ELSE run[x].view
           q == [row[w] EXCEPT !.recent = TRUE, !.files = f, !.status = s]
           r == [run[x] EXCEPT !.pc = "final", !.err = run[x].missed]
<1>1. w \in Work
  BY RunTyped DEF Finish
<1>2. /\ q.exists = row[w].exists /\ q.token = row[w].token /\ q.lease = row[w].lease
      /\ q.status = s /\ q.detail = row[w].detail /\ q.files = f
  <2> HIDE DEF s, f
  <2> QED BY <1>1, RowTyped DEF Row
<1>3. /\ r.work = run[x].work /\ r.token = run[x].token /\ r.pc = "final"
      /\ r.view = run[x].view /\ r.next = run[x].next /\ r.got = run[x].got
      /\ r.missed = run[x].missed /\ r.err = run[x].missed
  BY RunTyped DEF Run
<1>4. CASE Owns(x)
  <2>1. Write(w, q) /\ Become(x, r)
    BY <1>4 DEF Finish
  <2> HIDE DEF q, r
  <2>2. RowIs(w, row[w].token, row[w].lease, s, row[w].detail, f)
    BY <1>1, <1>2, <2>1, WriteFacts DEF RowIs
  <2>3. RunIs(x, "final", run[x].view, run[x].next, run[x].got, run[x].missed, run[x].missed)
    BY <1>3, <2>1, BecomeFacts DEF RunIs
  <2> QED BY <1>1, <1>4, <2>2, <2>3 DEF Finish
<1>5. CASE ~Owns(x)
  BY <1>1, <1>5 DEF Finish
<1> QED BY <1>4, <1>5

LEMMA CleanupEffect ==
  ASSUME TypeOK, NEW x \in Worker, Cleanup(x)
  PROVE  LET w == run[x].work IN
         /\ w \in Work /\ run[x].pc = "cleanup" /\ UNCHANGED <<upload, nextToken, deletion>>
         /\ Leave(x)
         /\ \/ /\ Owns(x)
               /\ RowIs(w, NoToken, "none", IF run[x].err THEN "failed" ELSE row[w].status,
                        row[w].detail, row[w].files)
            \/ ~Owns(x) /\ UNCHANGED row
<1> DEFINE w == run[x].work
           q == [row[w] EXCEPT !.token = NoToken, !.lease = "none",
                               !.status = IF run[x].err THEN "failed" ELSE @]
<1>1. w \in Work
  BY RunTyped DEF Cleanup
<1>2. /\ q.exists = row[w].exists /\ q.token = NoToken /\ q.lease = "none"
      /\ q.status = (IF run[x].err THEN "failed" ELSE row[w].status)
      /\ q.detail = row[w].detail /\ q.files = row[w].files
  BY <1>1, RowTyped DEF Row
<1>3. CASE Owns(x)
  <2>1. Write(w, q)
    BY <1>3 DEF Cleanup
  <2> HIDE DEF q
  <2>2. RowIs(w, NoToken, "none", IF run[x].err THEN "failed" ELSE row[w].status,
              row[w].detail, row[w].files)
    BY <1>1, <1>2, <2>1, WriteFacts DEF RowIs
  <2> QED BY <1>1, <1>3, <2>2 DEF Cleanup
<1>4. CASE ~Owns(x)
  BY <1>1, <1>4 DEF Cleanup
<1> QED BY <1>3, <1>4

\* The lease and the age of a row: nothing else of it changes.
LEMMA LeaseEffect ==
  ASSUME TypeOK, NEW w \in Work, row[w].token = NoToken <=> row[w].lease = "none",
         \/ LapseLease(w) \/ Age(w)
         \/ \E x \in Worker : Heartbeat(x) /\ run[x].work = w
  PROVE  /\ UNCHANGED <<upload, run, nextToken, deletion>>
         /\ \E l \in Lease :
              /\ l = "none" <=> row[w].token = NoToken
              /\ RowIs(w, row[w].token, l, row[w].status, row[w].detail, row[w].files)
         /\ row[w] # NoRow
<1>1. ASSUME NEW q, NEW l \in Lease, l = "none" <=> row[w].token = NoToken, Write(w, q),
             q.exists = row[w].exists, q.token = row[w].token, q.lease = l,
             q.status = row[w].status, q.detail = row[w].detail, q.files = row[w].files
      PROVE  \E k \in Lease :
              /\ k = "none" <=> row[w].token = NoToken
              /\ RowIs(w, row[w].token, k, row[w].status, row[w].detail, row[w].files)
  BY <1>1, WriteFacts DEF RowIs
<1>2. CASE LapseLease(w)
  <2> DEFINE q == [row[w] EXCEPT !.lease = "lapsed"]
  <2>1. /\ q.exists = row[w].exists /\ q.token = row[w].token /\ q.lease = "lapsed"
        /\ q.status = row[w].status /\ q.detail = row[w].detail /\ q.files = row[w].files
    BY RowTyped DEF Row
  <2>2. Write(w, q) /\ row[w].token # NoToken /\ row[w] # NoRow
        /\ UNCHANGED <<upload, run, nextToken, deletion>>
    BY <1>2 DEF LapseLease, NoRow
  <2> HIDE DEF q
  <2> QED BY <1>1, <2>1, <2>2 DEF Lease
<1>3. CASE Age(w)
  <2> DEFINE q == [row[w] EXCEPT !.recent = FALSE]
  <2>1. /\ q.exists = row[w].exists /\ q.token = row[w].token /\ q.lease = row[w].lease
        /\ q.status = row[w].status /\ q.detail = row[w].detail /\ q.files = row[w].files
        /\ row[w].lease \in Lease
    BY RowTyped DEF Row
  <2>2. Write(w, q) /\ row[w] # NoRow /\ UNCHANGED <<upload, run, nextToken, deletion>>
    BY <1>3 DEF Age, NoRow
  <2> HIDE DEF q
  <2> QED BY <1>1, <2>1, <2>2
<1>4. ASSUME NEW x \in Worker, Heartbeat(x), run[x].work = w
      PROVE  /\ UNCHANGED <<upload, run, nextToken, deletion>>
             /\ \E l \in Lease :
                  /\ l = "none" <=> row[w].token = NoToken
                  /\ RowIs(w, row[w].token, l, row[w].status, row[w].detail, row[w].files)
             /\ row[w] # NoRow
  <2> DEFINE q == [row[w] EXCEPT !.lease = "held"]
  <2>1. /\ q.exists = row[w].exists /\ q.token = row[w].token /\ q.lease = "held"
        /\ q.status = row[w].status /\ q.detail = row[w].detail /\ q.files = row[w].files
    BY RowTyped DEF Row
  <2>2. Write(w, q) /\ row[w].token # NoToken /\ row[w] # NoRow
        /\ UNCHANGED <<upload, run, nextToken, deletion>>
    BY <1>4 DEF Heartbeat, Owns, NoRow
  <2> HIDE DEF q
  <2> QED BY <1>1, <2>1, <2>2 DEF Lease
<1> QED BY <1>2, <1>3, <1>4

-----------------------------------------------------------------------------
(***************************************************************************)
(* How the rows and the uploads change, whoever acts.                      *)
(***************************************************************************)
\* The row keeps its token, detail and files.
Undisturbed(w) ==
  /\ row'[w].token = row[w].token /\ row'[w].detail = row[w].detail
  /\ row'[w].files = row[w].files /\ row'[w].status \in {row[w].status, "queued"}

ActsAs(x) == Execute(x) \/ Crash(x) \/ \E w \in Work : Deliver(x, w)
Elsewhere == \/ \E x \in Worker : Heartbeat(x)
             \/ \E w \in Work : LapseLease(w) \/ Age(w)
             \/ Admin \/ UNCHANGED vars

LEMMA NextCases == [Next]_vars => (\E x \in Worker : ActsAs(x)) \/ Elsewhere
  BY DEF Next, ActsAs, Elsewhere

\* A step of worker x disturbs only the row it owns, or takes a free one.
LEMMA WorkerRows ==
  ASSUME TypeOK, TokensOK, RowsOK, NEW x \in Worker, ActsAs(x)
  PROVE  /\ Others(x)
         /\ \A w \in Work : row'[w].token \in {row[w].token, NoToken, nextToken}
         /\ \A w \in Work : \/ Undisturbed(w)
                            \/ Owns(x) /\ run[x].work = w
                            \/ row'[w].token \in {NoToken, nextToken}
<1> DEFINE Ok == /\ Others(x)
                 /\ \A w \in Work : row'[w].token \in {row[w].token, NoToken, nextToken}
                 /\ \A w \in Work : \/ Undisturbed(w)
                                    \/ Owns(x) /\ run[x].work = w
                                    \/ row'[w].token \in {NoToken, nextToken}
<1>0. ASSUME Others(x), UNCHANGED row PROVE Ok
  BY <1>0 DEF Undisturbed
<1>1. CASE EnsureRead(x) \/ PassGate(x) \/ CheckNeeded(x) \/ ClaimMissed(x) \/ FailBefore(x)
           \/ Close(x) \/ FailFill(x) \/ Crash(x) \/ \E w \in Work : Deliver(x, w)
  BY <1>0, <1>1, GotoEffect, LeaveEffect, GiveUpEffect, DeliverEffect
     DEF RunIs, EnsureRead, PassGate, CheckNeeded, ClaimMissed, FailBefore, Close, FailFill, Crash
<1>2. CASE EnsureQueued(x)
  <2> DEFINE w == run[x].work
  <2>1. w \in Work /\ Others(x) /\ \A v \in Work \ {w} : row'[v] = row[v]
    BY <1>2, EnsureQueuedEffect DEF RunIs, RowIs
  <2>2. Undisturbed(w) \/ row'[w].token = NoToken
    BY <1>2, EnsureQueuedEffect DEF RowIs, Undisturbed
  <2>3. \A v \in Work \ {w} : Undisturbed(v)
    BY <2>1 DEF Undisturbed
  <2> QED BY <2>1, <2>2, <2>3 DEF Undisturbed
<1>3. CASE Claim(x)
  <2> DEFINE w == run[x].work
  <2>1. w \in Work /\ Others(x) /\ row'[w].token = nextToken
        /\ \A v \in Work \ {w} : row'[v] = row[v]
    BY <1>3, ClaimEffect DEF RowIs
  <2>2. \A v \in Work \ {w} : Undisturbed(v)
    BY <2>1 DEF Undisturbed
  <2> QED BY <2>1, <2>2
<1>4. CASE LoadSnapshot(x) \/ ReusePage(x) \/ FetchPage(x) \/ StorePage(x) \/ MissPage(x)
  BY <1>0, <1>4, LoadSnapshotEffect, ReusePageEffect, FetchPageEffect, StorePageEffect,
     MissPageEffect DEF RunIs
<1>5. CASE SaveDetail(x) \/ SavePage(x) \/ Finish(x) \/ Cleanup(x)
  <2> DEFINE w == run[x].work
  <2>1. w \in Work /\ Others(x)
    BY <1>5, SaveDetailEffect, SavePageEffect, FinishEffect, CleanupEffect, GiveUpEffect, LeaveEffect
       DEF RunIs
  <2>2. CASE UNCHANGED row
    BY <1>0, <2>1, <2>2
  <2>3. CASE ~UNCHANGED row
    <3>1. Owns(x) /\ row'[w].token \in {row[w].token, NoToken}
          /\ \A v \in Work \ {w} : row'[v] = row[v]
      BY <1>5, <2>3, SaveDetailEffect, SavePageEffect, FinishEffect, CleanupEffect DEF RowIs
    <3>2. \A v \in Work \ {w} : Undisturbed(v)
      BY <3>1 DEF Undisturbed
    <3> QED BY <2>1, <3>1, <3>2
  <2> QED BY <2>2, <2>3
<1> QED BY <1>1, <1>2, <1>3, <1>4, <1>5 DEF ActsAs, Execute

\* The clock, the heartbeat and the administrator: rows are left or deleted.
LEMMA ElsewhereRows ==
  ASSUME TypeOK, RowsOK, Elsewhere
  PROVE  /\ UNCHANGED <<run, nextToken>>
         /\ \A w \in Work :
              \/ row'[w] = NoRow
              \/ /\ Undisturbed(w) /\ row'[w].exists = row[w].exists
                 /\ row'[w].status = row[w].status
                 /\ row'[w].lease = "none" <=> row[w].token = NoToken
                 /\ ~row[w].exists => row'[w] = row[w]
<1> DEFINE Left(w) == /\ Undisturbed(w) /\ row'[w].exists = row[w].exists
                      /\ row'[w].status = row[w].status
                      /\ row'[w].lease = "none" <=> row[w].token = NoToken
                      /\ ~row[w].exists => row'[w] = row[w]
<1>0. \A w \in Work : row'[w] = row[w] => Left(w)
  BY DEF Undisturbed, RowsOK
<1>1. ASSUME NEW w \in Work, \/ LapseLease(w) \/ Age(w)
                             \/ \E x \in Worker : Heartbeat(x) /\ run[x].work = w
      PROVE  UNCHANGED <<run, nextToken>> /\ \A v \in Work : Left(v)
  <2>1. Left(w)
    BY <1>1, LeaseEffect DEF RowIs, Undisturbed, RowsOK
  <2>2. \A v \in Work \ {w} : row'[v] = row[v]
    BY <1>1, LeaseEffect DEF RowIs, RowsOK
  <2> QED BY <1>0, <1>1, <2>1, <2>2, LeaseEffect DEF RowsOK
<1>2. CASE \E x \in Worker : Heartbeat(x)
  BY <1>1, <1>2 DEF Heartbeat, Owns
<1>3. CASE Admin
  <2>1. ASSUME NEW w \in Work, Write(w, NoRow), UNCHANGED <<run, nextToken>>
        PROVE  UNCHANGED <<run, nextToken>> /\ \A v \in Work : row'[v] = NoRow \/ Left(v)
    BY <1>0, <2>1, WriteFacts
  <2>2. DeleteRow => deletion.work \in Work
    BY DEF DeleteRow, TypeOK
  <2>3. CASE UNCHANGED <<row, run, nextToken>>
    BY <1>0, <2>3
  <2> QED BY <1>3, <2>1, <2>2, <2>3
       DEF Admin, DeleteRow, DeleteAbort, DeleteBegin, DeleteNovel, DeleteUpload, RemoveUpload
<1>4. CASE UNCHANGED vars
  BY <1>0, <1>4 DEF vars
<1> QED BY <1>1, <1>2, <1>3, <1>4 DEF Elsewhere

\* A worker that does not act and owns its row after the step owned it before.
LEMMA OtherHolder ==
  ASSUME TypeOK, TokensOK, RowsOK, NEW y \in Worker, Owns(y)',
         Elsewhere \/ \E x \in Worker \ {y} : ActsAs(x)
  PROVE  run'[y] = run[y] /\ Owns(y) /\ Undisturbed(run[y].work)
<1>1. CASE Elsewhere
  BY <1>1, ElsewhereRows DEF Owns, Undisturbed, NoRow
<1>2. ASSUME NEW x \in Worker \ {y}, ActsAs(x)
      PROVE  run'[y] = run[y] /\ Owns(y) /\ Undisturbed(run[y].work)
  <2> DEFINE w == run[y].work
  <2>1. run'[y] = run[y] /\ w \in Work /\ run[y].token # NoToken /\ row'[w].token = run[y].token
    BY <1>2, WorkerRows DEF Others, Owns
  <2>2. run[y].token # nextToken
    BY RunTyped DEF TokensOK, TypeOK, Run
  <2>3. row[w].token = run[y].token
    BY <1>2, <2>1, <2>2, WorkerRows
  <2>4. ~(Owns(x) /\ run[x].work = w)
    BY <2>1, <2>3 DEF TokensOK, Owns
  <2> QED BY <1>2, <2>1, <2>2, <2>3, <2>4, WorkerRows DEF Owns
<1> QED BY <1>1, <1>2

\* Upload rows are created once and soft-deleted once.
LEMMA UploadEffect ==
  ASSUME TypeOK, [Next]_vars
  PROVE  \A u \in UploadId :
           \/ upload'[u].status = upload[u].status
           \/ upload[u].status = "free" /\ upload'[u].status = "active"
           \/ upload[u].status = "active" /\ upload'[u].status = "deleted"
<1> DEFINE Ok == \A u \in UploadId :
                   \/ upload'[u].status = upload[u].status
                   \/ upload[u].status = "free" /\ upload'[u].status = "active"
                   \/ upload[u].status = "active" /\ upload'[u].status = "deleted"
<1>0. CASE UNCHANGED upload
  BY <1>0
<1>1. ASSUME NEW x \in Worker, StorePage(x) PROVE Ok
  BY <1>1, StorePageEffect
<1>2. ASSUME NEW u \in UploadId, upload[u].status = "active", SoftDelete(u) PROVE Ok
  <2>1. upload'[u] = [upload[u] EXCEPT !.status = "deleted"]
        /\ \A t \in UploadId \ {u} : upload'[t] = upload[t]
    BY <1>2 DEF SoftDelete, TypeOK
  <2>2. upload'[u].status = "deleted"
    BY <2>1 DEF TypeOK, Upload
  <2> QED BY <1>2, <2>1, <2>2
<1>3. CASE \E x \in Worker : ActsAs(x)
  BY <1>0, <1>1, <1>3, ClaimEffect, ZenonT(40)
     DEF ActsAs, Execute, EnsureRead, EnsureQueued, PassGate, CheckNeeded, Claim,
         ClaimMissed, FailBefore, LoadSnapshot, SaveDetail, ReusePage, FetchPage,
         MissPage, SavePage, Finish, Close, FailFill, Cleanup, Crash, Deliver
<1>4. CASE Elsewhere
  BY <1>0, <1>2, <1>4
     DEF Elsewhere, Heartbeat, LapseLease, Age, Admin, DeleteRow, DeleteAbort, DeleteBegin,
         DeleteNovel, DeleteUpload, RemoveUpload, vars
<1> QED BY <1>3, <1>4, NextCases

Known(f) == f \in UploadId => upload[f].status # "free"

LEMMA KnownStays ==
  ASSUME TypeOK, [Next]_vars, NEW f, Known(f)
  PROVE  Known(f)' /\ (LooksInvalid(f) => LooksInvalid(f)')
  BY UploadEffect DEF Known, LooksInvalid, Valid

-----------------------------------------------------------------------------
(***************************************************************************)
(* The parts of the inductive invariant, one after the other.              *)
(***************************************************************************)
LEMMA DoneStep ==
  ASSUME TypeOK, TokensOK, RowsOK, DoneOK, [Next]_vars
  PROVE  DoneOK'
<1> DEFINE Done(y) ==
       /\ run[y].pc = "final" => run[y].err = run[y].missed
       /\ Owns(y) /\ run[y].pc \in {"final", "cleanup"} /\ ~run[y].err
            => row[run[y].work].status # "processing"
<1>1. ASSUME NEW y \in Worker, Elsewhere \/ \E x \in Worker \ {y} : ActsAs(x)
      PROVE  Done(y)'
  <2>1. run'[y] = run[y]
    BY <1>1, WorkerRows, ElsewhereRows DEF Others
  <2> QED BY <1>1, <2>1, OtherHolder DEF DoneOK, Undisturbed
<1>2. ASSUME NEW x \in Worker, ActsAs(x) PROVE Done(x)'
  <2>1. ASSUME run'[x].pc \notin {"final", "cleanup"} PROVE Done(x)'
    BY <2>1
  <2>2. ASSUME run'[x].pc = "cleanup", run'[x].err PROVE Done(x)'
    BY <2>2
  <2>3. CASE EnsureRead(x) \/ PassGate(x) \/ CheckNeeded(x) \/ ClaimMissed(x) \/ FailBefore(x)
             \/ EnsureQueued(x) \/ Claim(x) \/ Crash(x) \/ \E w \in Work : Deliver(x, w)
    <3>1. run'[x].pc \notin {"final", "cleanup"}
      <4>1. \/ Leave(x) \/ EnsureQueued(x) \/ Claim(x) \/ \E w \in Work : Deliver(x, w)
            \/ \E pc \in Before : Goto(x, pc)
        BY <2>3 DEF EnsureRead, PassGate, CheckNeeded, ClaimMissed, FailBefore, Crash, Before
      <4> QED BY <4>1, GotoEffect, LeaveEffect, DeliverEffect, EnsureQueuedEffect, ClaimEffect
                 DEF RunIs, Before, Idle
    <3> QED BY <2>1, <3>1
  <2>4. CASE FailFill(x)
    BY <2>2, <2>4, GiveUpEffect DEF FailFill, RunIs
  <2>5. CASE LoadSnapshot(x) \/ ReusePage(x) \/ FetchPage(x) \/ StorePage(x) \/ MissPage(x)
    <3>1. run'[x].pc \notin {"final", "cleanup"}
      BY <2>5, LoadSnapshotEffect, ReusePageEffect, FetchPageEffect, StorePageEffect,
         MissPageEffect DEF RunIs
    <3> QED BY <2>1, <3>1
  <2>6. CASE SaveDetail(x) \/ SavePage(x)
    BY <2>1, <2>2, <2>6, SaveDetailEffect, SavePageEffect, GiveUpEffect DEF RunIs
  <2>7. CASE Finish(x)
    <3>1. CASE GiveUp(x)
      BY <2>2, <3>1, GiveUpEffect DEF RunIs
    <3>2. CASE ~GiveUp(x)
      <4>1. row'[run[x].work].status \in {"failed", "success"}
        BY <2>7, <3>2, FinishEffect DEF RowIs
      <4>2. run'[x].work = run[x].work /\ run'[x].err = run'[x].missed
        BY <2>7, <3>2, FinishEffect DEF RunIs
      <4> QED BY <4>1, <4>2
    <3> QED BY <3>1, <3>2
  <2>8. CASE Close(x)
    <3>1. /\ run[x].pc = "final" /\ UNCHANGED row
          /\ RunIs(x, "cleanup", run[x].view, run[x].next, run[x].got, run[x].missed, run[x].err)
      BY <2>8, GotoEffect DEF Close
    <3> QED BY <3>1 DEF RunIs, DoneOK, Owns
  <2>9. CASE Cleanup(x)
    <3>1. run'[x].pc = "idle"
      BY <2>9, CleanupEffect, LeaveEffect DEF Idle
    <3> QED BY <2>1, <3>1
  <2> QED BY <1>2, <2>3, <2>4, <2>5, <2>6, <2>7, <2>8, <2>9 DEF ActsAs, Execute
<1>3. \A y \in Worker : Done(y)'
  BY <1>1, <1>2, NextCases
<1> QED BY <1>3 DEF DoneOK

LEMMA RowsStep ==
  ASSUME TypeOK, TokensOK, RowsOK, DoneOK, [Next]_vars
  PROVE  RowsOK'
<1> DEFINE Good(w) == /\ row[w].lease = "none" <=> row[w].token = NoToken
                      /\ ~row[w].exists => row[w] = NoRow
                      /\ row[w].status = "processing" => row[w].token # NoToken
           AllGood == \A w \in Work : Good(w)'
<1>0. ASSUME NEW w \in Work, \A v \in Work \ {w} : row'[v] = row[v], Good(w)' PROVE AllGood
  BY <1>0 DEF RowsOK
<1>1. CASE UNCHANGED row
  BY <1>1 DEF RowsOK
<1>2. ASSUME Elsewhere PROVE AllGood
  <2>1. ASSUME NEW w \in Work PROVE Good(w)'
    <3>1. CASE row'[w] = NoRow
      BY <3>1 DEF NoRow
    <3>2. CASE row'[w] # NoRow
      BY <1>2, <3>2, ElsewhereRows DEF RowsOK, Undisturbed
    <3> QED BY <3>1, <3>2
  <2> QED BY <2>1
<1>3. ASSUME NEW x \in Worker, ActsAs(x), ~UNCHANGED row PROVE AllGood
  <2> DEFINE w == run[x].work
  <2>1. \/ EnsureQueued(x) \/ Claim(x) \/ SaveDetail(x) \/ SavePage(x) \/ Finish(x) \/ Cleanup(x)
    BY <1>3 DEF ActsAs, Execute, EnsureRead, PassGate, CheckNeeded, ClaimMissed, FailBefore,
                LoadSnapshot, ReusePage, FetchPage, StorePage, MissPage, Close, FailFill,
                Crash, Deliver
  <2>2. w \in Work /\ \A v \in Work \ {w} : row'[v] = row[v]
    BY <1>3, <2>1, EnsureQueuedEffect, ClaimEffect, SaveDetailEffect, SavePageEffect,
       FinishEffect, CleanupEffect, ZenonT(40) DEF RowIs
  <2>3. CASE EnsureQueued(x)
    BY <1>0, <2>2, <2>3, EnsureQueuedEffect DEF RowIs, RowsOK
  <2>4. CASE Claim(x)
    BY <1>0, <2>2, <2>4, ClaimEffect DEF RowIs, TypeOK
  <2>5. CASE SaveDetail(x) \/ SavePage(x) \/ Finish(x)
    <3>1. /\ Owns(x) /\ row'[w].token = row[w].token /\ row'[w].lease = row[w].lease
          /\ row'[w].exists = row[w].exists
      BY <1>3, <2>5, SaveDetailEffect, SavePageEffect, FinishEffect DEF RowIs
    <3>2. row[w].exists
      BY <2>2, <3>1 DEF RowsOK, Owns, NoRow
    <3> QED BY <1>0, <2>2, <3>1, <3>2 DEF RowsOK, Owns
  <2>6. CASE Cleanup(x)
    <3>1. /\ Owns(x) /\ row'[w].token = NoToken /\ row'[w].lease = "none"
          /\ row'[w].exists = row[w].exists
          /\ row'[w].status = IF run[x].err THEN "failed" ELSE row[w].status
      BY <1>3, <2>6, CleanupEffect DEF RowIs
    <3>2. row[w].exists
      BY <2>2, <3>1 DEF RowsOK, Owns, NoRow
    <3>3. row'[w].status # "processing"
      BY <2>6, <3>1, CleanupEffect DEF DoneOK
    <3> QED BY <1>0, <2>2, <3>1, <3>2, <3>3
  <2> QED BY <2>1, <2>3, <2>4, <2>5, <2>6
<1>4. AllGood
  BY <1>1, <1>2, <1>3, NextCases DEF RowsOK
<1> QED BY <1>4 DEF RowsOK

LEMMA ViewStep ==
  ASSUME TypeOK, TokensOK, RowsOK, HolderViewFresh, [Next]_vars
  PROVE  HolderViewFresh'
<1> DEFINE Fresh(y) == Owns(y) /\ run[y].pc \in Loaded
                         => /\ row[run[y].work].files = run[y].view
                            /\ row[run[y].work].detail <=> run[y].pc # "detail"
<1>1. ASSUME NEW y \in Worker, Elsewhere \/ \E x \in Worker \ {y} : ActsAs(x)
      PROVE  Fresh(y)'
  <2>1. run'[y] = run[y]
    BY <1>1, WorkerRows, ElsewhereRows DEF Others
  <2> QED BY <1>1, <2>1, OtherHolder DEF HolderViewFresh, Undisturbed
<1>2. ASSUME NEW x \in Worker, ActsAs(x) PROVE Fresh(x)'
  <2> DEFINE w == run[x].work
  <2>1. ASSUME run'[x].pc \notin Loaded PROVE Fresh(x)'
    BY <2>1
  <2>2. ASSUME UNCHANGED row, run[x].pc \in Loaded \ {"detail"}, run'[x].pc # "detail",
               run'[x].work = w,
               run'[x].token = run[x].token, run'[x].view = run[x].view
        PROVE  Fresh(x)'
    BY <2>2 DEF HolderViewFresh, Owns
  <2>3. CASE \/ EnsureRead(x) \/ PassGate(x) \/ CheckNeeded(x) \/ ClaimMissed(x) \/ FailBefore(x)
             \/ EnsureQueued(x) \/ Claim(x) \/ Crash(x) \/ FailFill(x) \/ Close(x) \/ Cleanup(x)
             \/ \E v \in Work : Deliver(x, v)
    <3>1. run'[x].pc \notin Loaded
      <4>1. CASE EnsureRead(x) \/ PassGate(x) \/ CheckNeeded(x) \/ FailFill(x) \/ Close(x)
        <5>1. \/ Leave(x) \/ GiveUp(x)
              \/ \E pc \in {"queue", "gate", "check", "claim", "cleanup"} : Goto(x, pc)
          BY <4>1 DEF EnsureRead, PassGate, CheckNeeded, FailFill, Close
        <5>2. \A pc : Goto(x, pc) => run'[x].pc = pc
          BY GotoEffect DEF RunIs
        <5>3. GiveUp(x) => run'[x].pc = "cleanup"
          BY GiveUpEffect DEF RunIs
        <5>4. Leave(x) => run'[x].pc = "idle"
          BY LeaveEffect DEF Idle
        <5> QED BY <5>1, <5>2, <5>3, <5>4 DEF Loaded
      <4>2. CASE ClaimMissed(x) \/ FailBefore(x) \/ Crash(x) \/ Cleanup(x)
        BY <4>2, LeaveEffect, CleanupEffect DEF ClaimMissed, FailBefore, Crash, Idle, Loaded
      <4>3. CASE EnsureQueued(x) \/ Claim(x) \/ \E v \in Work : Deliver(x, v)
        BY <4>3, DeliverEffect, EnsureQueuedEffect, ClaimEffect DEF RunIs, Loaded
      <4> QED BY <2>3, <4>1, <4>2, <4>3
    <3> QED BY <2>1, <3>1
  <2>4. CASE LoadSnapshot(x)
    BY <2>4, LoadSnapshotEffect DEF RunIs, Loaded
  <2>5. CASE ReusePage(x) \/ FetchPage(x) \/ StorePage(x) \/ MissPage(x)
    BY <2>2, <2>5, ReusePageEffect, FetchPageEffect, StorePageEffect, MissPageEffect
       DEF RunIs, Loaded
  <2>6. CASE GiveUp(x)
    BY <2>1, <2>6, GiveUpEffect DEF RunIs, Loaded
  <2>7. CASE SaveDetail(x)
    <3>1. CASE Owns(x)
      <4>1. row'[w].detail /\ row'[w].files = row[w].files
        BY <2>7, <3>1, SaveDetailEffect DEF RowIs
      <4>2. run'[x].view = run[x].view /\ run'[x].work = w /\ run'[x].pc = "pages"
        BY <2>7, <3>1, SaveDetailEffect DEF RunIs
      <4>3. row[w].files = run[x].view
        BY <2>7, <3>1, SaveDetailEffect DEF HolderViewFresh, Loaded
      <4> QED BY <4>1, <4>2, <4>3
    <3> QED BY <2>6, <2>7, <3>1, SaveDetailEffect
  <2>8. CASE SavePage(x)
    BY <2>6, <2>8, SavePageEffect DEF RowIs, RunIs, HolderViewFresh, Loaded
  <2>9. CASE Finish(x)
    BY <2>6, <2>9, FinishEffect DEF RowIs, RunIs, HolderViewFresh, Loaded
  <2> QED BY <1>2, <2>3, <2>4, <2>5, <2>7, <2>8, <2>9 DEF ActsAs, Execute
<1>3. \A y \in Worker : Fresh(y)'
  BY <1>1, <1>2, NextCases
<1> QED BY <1>3 DEF HolderViewFresh

LEMMA DanglingStep ==
  ASSUME TypeOK, TokensOK, RowsOK, NoDangling, [Next]_vars
  PROVE  NoDangling'
<1> DEFINE RowKnown(w) == \A p \in Page : Known(row[w].files[p])
           RunKnown(y) == Known(run[y].got) /\ \A p \in Page : Known(run[y].view[p])
           KnownThen(f) == f \in UploadId => upload'[f].status # "free"
           Nowhere == [p \in Page |-> NoFile]
<1>0. /\ \A w \in Work : RowKnown(w)
      /\ \A y \in Worker : RunKnown(y)
  BY DEF NoDangling, Known
<1>1. \A f : Known(f) => Known(f)'
  BY KnownStays
<1>2. Known(NoFile)' /\ Known(Inline)' /\ \A p \in Page : Known(Nowhere[p])'
  BY ConstantsOK DEF ConstantsOK, Known
<1>3. /\ \A w \in Work : row'[w].files = row[w].files => RowKnown(w)'
      /\ \A w \in Work : row'[w].files = Nowhere => RowKnown(w)'
      /\ \A w \in Work, y \in Worker : row'[w].files = run[y].view => RowKnown(w)'
  BY <1>0, <1>1, <1>2
<1>4. \A y \in Worker : run'[y].got = run[y].got /\ run'[y].view = run[y].view => RunKnown(y)'
  BY <1>0, <1>1
<1>5. CASE Elsewhere
  <2>1. \A w \in Work : RowKnown(w)'
    BY <1>3, <1>5, ElsewhereRows DEF Undisturbed, NoRow
  <2>2. \A y \in Worker : RunKnown(y)'
    BY <1>4, <1>5, ElsewhereRows
  <2> QED BY <2>1, <2>2 DEF NoDangling, Known
<1>6. ASSUME NEW x \in Worker, ActsAs(x) PROVE NoDangling'
  <2> DEFINE w == run[x].work
  <2>1. \A y \in Worker \ {x} : RunKnown(y)'
    BY <1>4, <1>6, WorkerRows DEF Others
  <2>2. ASSUME RunKnown(x)', \A v \in Work : RowKnown(v)' PROVE NoDangling'
    BY <2>1, <2>2 DEF NoDangling, Known
  <2>3. UNCHANGED row => \A v \in Work : RowKnown(v)'
    BY <1>3
  <2>4. CASE \/ EnsureRead(x) \/ PassGate(x) \/ CheckNeeded(x) \/ ClaimMissed(x) \/ FailBefore(x)
             \/ Crash(x) \/ FailFill(x) \/ Close(x) \/ \E v \in Work : Deliver(x, v)
    <3>1. UNCHANGED row
      BY <2>4 DEF EnsureRead, PassGate, CheckNeeded, ClaimMissed, FailBefore, Crash, FailFill,
                  Close, Deliver
    <3>2. \/ run'[x].got = run[x].got /\ run'[x].view = run[x].view
          \/ run'[x].got = NoFile /\ run'[x].view = Nowhere
      <4>1. \/ Leave(x) \/ GiveUp(x) \/ (\E pc \in PC : Goto(x, pc))
            \/ \E v \in Work : Deliver(x, v)
        BY <2>4 DEF EnsureRead, PassGate, CheckNeeded, ClaimMissed, FailBefore, Crash, FailFill,
                    Close, PC, Before
      <4>2. \A pc \in PC : Goto(x, pc) => run'[x].got = run[x].got /\ run'[x].view = run[x].view
        BY GotoEffect DEF RunIs
      <4>3. GiveUp(x) => run'[x].got = run[x].got /\ run'[x].view = run[x].view
        BY GiveUpEffect DEF RunIs
      <4>4. Leave(x) => run'[x].got = NoFile /\ run'[x].view = Nowhere
        BY LeaveEffect DEF Idle
      <4> QED BY <4>1, <4>2, <4>3, <4>4, DeliverEffect
    <3>3. RunKnown(x)'
      BY <1>2, <1>4, <3>2
    <3> QED BY <2>2, <2>3, <3>1, <3>3
  <2>5. CASE EnsureQueued(x)
    <3>1. run'[x].got = run[x].got /\ run'[x].view = run[x].view
      BY <2>5, EnsureQueuedEffect DEF RunIs
    <3>2. \A v \in Work : row'[v].files = row[v].files \/ row'[v].files = Nowhere
      BY <2>5, EnsureQueuedEffect DEF RowIs
    <3> QED BY <1>3, <1>4, <2>2, <3>1, <3>2
  <2>6. CASE Claim(x)
    <3>1. run'[x].got = run[x].got /\ run'[x].view = run[x].view
      BY <2>6, ClaimEffect
    <3>2. \A v \in Work : row'[v].files = row[v].files
      BY <2>6, ClaimEffect DEF RowIs
    <3> QED BY <1>3, <1>4, <2>2, <3>1, <3>2
  <2>7. CASE LoadSnapshot(x)
    <3>1. run'[x].got = run[x].got /\ run'[x].view = row[w].files /\ w \in Work /\ UNCHANGED row
      BY <2>7, LoadSnapshotEffect DEF RunIs
    <3> QED BY <1>0, <1>1, <2>2, <2>3, <3>1
  <2>8. CASE ReusePage(x) \/ MissPage(x)
    <3>1. run'[x].got = run[x].got /\ run'[x].view = run[x].view /\ UNCHANGED row
      BY <2>8, ReusePageEffect, MissPageEffect DEF RunIs
    <3> QED BY <1>4, <2>2, <2>3, <3>1
  <2>9. CASE FetchPage(x)
    <3>1. run'[x].view = run[x].view /\ UNCHANGED <<row, upload>>
      BY <2>9, FetchPageEffect DEF RunIs
    <3>2. run'[x].got = run[x].got \/ Known(run'[x].got)
      <4>1. ASSUME NEW f \in UploadId \cup {Inline}, f = Inline \/ upload[f].status = "active"
            PROVE  Known(f)
        BY <4>1, ConstantsOK DEF ConstantsOK, Known
      <4> QED BY <2>9, <4>1, FetchPageEffect DEF RunIs
    <3>3. RunKnown(x)'
      BY <1>0, <1>1, <3>1, <3>2
    <3> QED BY <2>2, <2>3, <3>1, <3>3
  <2>10. CASE StorePage(x)
    <3>1. run'[x].view = run[x].view /\ Known(run[x].got)' /\ UNCHANGED row
      BY <2>10, StorePageEffect DEF RunIs, Known
    <3>2. RunKnown(x)'
      BY <1>0, <1>1, <3>1
    <3> QED BY <2>2, <2>3, <3>1, <3>2
  <2>11. ASSUME GiveUp(x), UNCHANGED row PROVE NoDangling'
    <3>1. run'[x].got = run[x].got /\ run'[x].view = run[x].view
      BY <2>11, GiveUpEffect DEF RunIs
    <3> QED BY <1>4, <2>2, <2>3, <2>11, <3>1
  <2>12. CASE SaveDetail(x)
    <3>1. CASE Owns(x)
      <4>1. run'[x].got = run[x].got /\ run'[x].view = run[x].view
        BY <2>12, <3>1, SaveDetailEffect DEF RunIs
      <4>2. \A v \in Work : row'[v].files = row[v].files
        BY <2>12, <3>1, SaveDetailEffect DEF RowIs
      <4> QED BY <1>3, <1>4, <2>2, <4>1, <4>2
    <3> QED BY <2>11, <2>12, <3>1, SaveDetailEffect
  <2>13. CASE SavePage(x)
    <3>1. CASE Owns(x)
      <4> DEFINE merged == [run[x].view EXCEPT ![run[x].next] = run[x].got]
      <4>1. \A p \in Page : KnownThen(merged[p])
        <5>1. \A p \in Page : merged[p] \in {run[x].view[p], run[x].got}
          BY RunTyped DEF Run
        <5> HIDE DEF merged
        <5> QED BY <1>0, <1>1, <5>1 DEF Known
      <4>2. run'[x].got = NoFile /\ run'[x].view = merged
        BY <2>13, <3>1, SavePageEffect DEF RunIs
      <4>3. \A v \in Work : row'[v].files = row[v].files \/ row'[v].files = merged
        BY <2>13, <3>1, SavePageEffect DEF RowIs
      <4> HIDE DEF merged
      <4>4. RunKnown(x)'
        BY <1>2, <4>1, <4>2 DEF Known
      <4>5. \A v \in Work : RowKnown(v)'
        BY <1>3, <4>1, <4>3 DEF Known
      <4> QED BY <2>2, <4>4, <4>5
    <3> QED BY <2>11, <2>13, <3>1, SavePageEffect
  <2>14. CASE Finish(x)
    <3>1. CASE Owns(x)
      <4>1. run'[x].got = run[x].got /\ run'[x].view = run[x].view
        BY <2>14, <3>1, FinishEffect DEF RunIs
      <4>2. \A v \in Work : row'[v].files = row[v].files \/ row'[v].files = run[x].view
        BY <2>14, <3>1, FinishEffect DEF RowIs
      <4> QED BY <1>3, <1>4, <2>2, <4>1, <4>2
    <3> QED BY <2>11, <2>14, <3>1, FinishEffect
  <2>15. CASE Cleanup(x)
    <3>1. run'[x].got = NoFile /\ run'[x].view = Nowhere
      BY <2>15, CleanupEffect, LeaveEffect DEF Idle
    <3>2. \A v \in Work : row'[v].files = row[v].files
      BY <2>15, CleanupEffect DEF RowIs
    <3> QED BY <1>2, <1>3, <2>2, <3>1, <3>2
  <2> QED BY <1>6, <2>4, <2>5, <2>6, <2>7, <2>8, <2>9, <2>10, <2>12, <2>13, <2>14, <2>15
       DEF ActsAs, Execute
<1> QED BY <1>5, <1>6, NextCases

LEMMA PagesStep ==
  ASSUME TypeOK, TokensOK, RowsOK, PagesOK, NoDangling, [Next]_vars
  PROVE  PagesOK'
<1> DEFINE Start == Before \cup {"load", "detail"}
           A(y) == run[y].pc \in Start => run[y].next = 1
           B(y) == run[y].pc \in Loaded /\ ~run[y].missed
                     => \A p \in Pages(run[y].work) : p < run[y].next => run[y].view[p] # NoFile
           C(y) == run[y].pc \in {"store", "save"}
                     => run[y].next \in Pages(run[y].work) /\ LooksInvalid(run[y].view[run[y].next])
           D(y) == run[y].pc = "save" => run[y].got # NoFile
           Good(y) == A(y) /\ B(y) /\ C(y) /\ D(y)
<1>0. \A y \in Worker : Good(y)
  BY DEF PagesOK
<1>1. ASSUME NEW y \in Worker, run'[y] = run[y] PROVE Good(y)'
  <2>1. run[y].pc \in {"store", "save"} => Known(run[y].view[run[y].next])
    BY <1>0, RunTyped, PagesInPage DEF NoDangling, Known
  <2> QED BY <1>0, <1>1, <2>1, KnownStays
<1>2. ASSUME NEW x \in Worker, ActsAs(x) PROVE Good(x)'
  <2> DEFINE w == run[x].work
             v == run[x].view
             n == run[x].next
  <2>0. ASSUME run'[x].pc \in {"idle", "cleanup"} PROVE Good(x)'
    BY <2>0 DEF Before, Loaded
  <2>1. CASE GiveUp(x) \/ Leave(x)
    <3>1. GiveUp(x) => run'[x].pc = "cleanup"
      BY GiveUpEffect DEF RunIs
    <3>2. Leave(x) => run'[x].pc = "idle"
      BY LeaveEffect DEF Idle
    <3> QED BY <2>0, <2>1, <3>1, <3>2
  <2>2. ASSUME run[x].pc \in Before, NEW pc \in Before, Goto(x, pc) PROVE Good(x)'
    BY <1>0, <2>2, GotoEffect DEF RunIs, Before, Loaded
  <2>3. CASE EnsureRead(x) \/ EnsureQueued(x) \/ PassGate(x) \/ CheckNeeded(x)
    BY <2>1, <2>2, <2>3 DEF EnsureRead, EnsureQueued, PassGate, CheckNeeded, Before
  <2>4. CASE ClaimMissed(x) \/ FailBefore(x) \/ Crash(x) \/ FailFill(x) \/ Cleanup(x)
    BY <2>1, <2>4 DEF ClaimMissed, FailBefore, Crash, FailFill, Cleanup
  <2>5. CASE Close(x)
    BY <2>0, <2>5, GotoEffect DEF Close, RunIs
  <2>6. CASE \E u \in Work : Deliver(x, u)
    <3>1. PICK u \in Work : Become(x, [Idle EXCEPT !.pc = "ensure", !.work = u])
      BY <2>6 DEF Deliver
    <3> DEFINE r == [Idle EXCEPT !.pc = "ensure", !.work = u]
    <3>2. r.pc = "ensure" /\ r.next = 1 /\ run'[x] = r
      BY <3>1, BecomeFacts DEF Idle
    <3> HIDE DEF r
    <3> QED BY <3>2 DEF Before, Loaded
  <2>7. CASE Claim(x)
    <3> DEFINE r == [run[x] EXCEPT !.pc = "load", !.token = nextToken]
    <3>1. Become(x, r) /\ n = 1
      BY <1>0, <2>7 DEF Claim, Before
    <3>2. r.pc = "load" /\ r.next = n
      BY RunTyped DEF Run
    <3> HIDE DEF r
    <3>3. run'[x].pc = "load" /\ run'[x].next = 1
      BY <3>1, <3>2, BecomeFacts
    <3> QED BY <3>3 DEF Loaded
  <2>8. CASE LoadSnapshot(x)
    <3>1. n = 1 /\ run'[x].next = n /\ run'[x].pc \in {"pages", "detail"} /\ run'[x].work = w
      BY <1>0, <2>8, LoadSnapshotEffect DEF RunIs
    <3>2. \A p \in Pages(w) : ~(p < 1)
      BY DEF Pages
    <3> QED BY <3>1, <3>2 DEF Loaded
  <2>9. CASE SaveDetail(x)
    <3>1. CASE Owns(x)
      <4>1. n = 1 /\ run'[x].next = n /\ run'[x].pc = "pages" /\ run'[x].work = w
        BY <1>0, <2>9, <3>1, SaveDetailEffect DEF RunIs
      <4>2. \A p \in Pages(w) : ~(p < 1)
        BY DEF Pages
      <4> QED BY <4>1, <4>2 DEF Before
    <3> QED BY <2>1, <2>9, <3>1, SaveDetailEffect
  <2>10. ASSUME run[x].pc \in Loaded, n \in Nat, Pages(w) \subseteq Nat,
                \A p \in Pages(w) : p < n => v[p] # NoFile \/ run[x].missed,
                run'[x].pc = "pages", run'[x].work = w, run'[x].next = n + 1,
                \A p \in Pages(w) : p < n => run'[x].view[p] = v[p],
                run'[x].view[n] # NoFile, run'[x].missed = run[x].missed
         PROVE  Good(x)'
    <3>1. \A p \in Pages(w) : p < n + 1 => p < n \/ p = n
      BY <2>10
    <3> QED BY <2>10, <3>1 DEF Before
  <2>11. run[x].pc \in Loaded =>
           /\ n \in Nat /\ Pages(w) \subseteq Nat
           /\ \A p \in Pages(w) : p < n => v[p] # NoFile \/ run[x].missed
    BY <1>0, RunTyped DEF Run, Pages
  <2>12. CASE ReusePage(x)
    <3>1. v[n] # NoFile
      BY <2>12, ReusePageEffect, ConstantsOK DEF ConstantsOK, Valid
    <3> QED BY <2>10, <2>11, <2>12, <3>1, ReusePageEffect DEF RunIs, Loaded
  <2>13. CASE FetchPage(x)
    <3>1. /\ run[x].pc = "pages" /\ n \in Pages(w) /\ LooksInvalid(v[n]) /\ UNCHANGED upload
          /\ run'[x].pc \in {"store", "save"} /\ run'[x].work = w /\ run'[x].view = v
          /\ run'[x].next = n /\ run'[x].missed = run[x].missed
          /\ run'[x].pc = "save" => run'[x].got # NoFile
      <4>1. \A f \in UploadId \cup {Inline} : f # NoFile
        BY ConstantsOK DEF ConstantsOK
      <4> QED BY <2>13, <4>1, FetchPageEffect DEF RunIs
    <3>2. LooksInvalid(v[n])'
      BY <3>1 DEF LooksInvalid, Valid
    <3> QED BY <1>0, <3>1, <3>2 DEF Before, Loaded
  <2>14. CASE StorePage(x)
    <3>1. /\ run[x].pc = "store" /\ run'[x].pc = "save" /\ run'[x].work = w
          /\ run'[x].view = v /\ run'[x].next = n /\ run'[x].missed = run[x].missed
          /\ run'[x].got \in UploadId
      BY <2>14, StorePageEffect DEF RunIs
    <3>2. n \in Pages(w) /\ LooksInvalid(v[n]) /\ Known(v[n])
      BY <1>0, <3>1, RunTyped, PagesInPage DEF NoDangling, Known
    <3>3. LooksInvalid(v[n])' /\ run'[x].got # NoFile
      BY <3>1, <3>2, KnownStays, ConstantsOK DEF ConstantsOK
    <3> QED BY <1>0, <3>1, <3>2, <3>3 DEF Before, Loaded
  <2>15. CASE MissPage(x)
    <3>1. run'[x].pc = "pages" /\ run'[x].missed = TRUE
      BY <2>15, MissPageEffect DEF RunIs
    <3> QED BY <3>1 DEF Before
  <2>16. CASE SavePage(x)
    <3>1. CASE Owns(x)
      <4> DEFINE merged == [v EXCEPT ![n] = run[x].got]
      <4>1. /\ run[x].pc = "save" /\ run'[x].pc = "pages" /\ run'[x].work = w
            /\ run'[x].view = merged /\ run'[x].next = n + 1 /\ run'[x].missed = run[x].missed
        BY <2>16, <3>1, SavePageEffect DEF RunIs
      <4>2. n \in Page /\ v \in [Page -> File] /\ run[x].got # NoFile
        BY <1>0, <4>1, RunTyped, PagesInPage DEF Run
      <4>3. merged[n] # NoFile /\ \A p \in Pages(w) : p < n => merged[p] = v[p]
        BY <2>11, <4>1, <4>2, PagesInPage, RunTyped DEF Loaded
      <4> HIDE DEF merged
      <4> QED BY <2>10, <2>11, <4>1, <4>3 DEF Loaded
    <3> QED BY <2>1, <2>16, <3>1, SavePageEffect
  <2>17. CASE Finish(x)
    <3>1. CASE Owns(x)
      <4>1. /\ run[x].pc = "pages" /\ run'[x].pc = "final" /\ run'[x].work = w
            /\ run'[x].view = v /\ run'[x].next = n /\ run'[x].missed = run[x].missed
        BY <2>17, <3>1, FinishEffect DEF RunIs
      <4> QED BY <1>0, <4>1 DEF Before, Loaded
    <3> QED BY <2>1, <2>17, <3>1, FinishEffect
  <2> QED BY <1>2, <2>3, <2>4, <2>5, <2>6, <2>7, <2>8, <2>9, <2>12, <2>13, <2>14, <2>15,
             <2>16, <2>17 DEF ActsAs, Execute
<1>3. \A y \in Worker : Good(y)'
  BY <1>1, <1>2, NextCases, WorkerRows, ElsewhereRows DEF Others
<1> QED BY <1>3 DEF PagesOK

LEMMA SuccessStep ==
  ASSUME Inv, [Next]_vars
  PROVE  SuccessIsComplete'
<1> USE DEF Inv
<1> DEFINE Then(w) == row'[w].status = "success"
                        => row'[w].detail /\ \A p \in Pages(w) : row'[w].files[p] # NoFile
<1>0. ASSUME NEW w \in Work,
             \/ /\ row'[w].status = "success" => row[w].status = "success"
                /\ row'[w].detail = row[w].detail /\ row'[w].files = row[w].files
             \/ row'[w] = NoRow
      PROVE  Then(w)
  <2>1. CASE row'[w] = NoRow
    BY <2>1 DEF NoRow
  <2> QED BY <1>0, <2>1 DEF SuccessIsComplete
<1>1. CASE Elsewhere
  <2>1. \A w \in Work : Then(w)
    BY <1>0, <1>1, ElsewhereRows DEF Undisturbed
  <2> QED BY <2>1 DEF SuccessIsComplete
<1>2. ASSUME NEW x \in Worker, ActsAs(x) PROVE SuccessIsComplete'
  <2> DEFINE w == run[x].work
  <2>0. ASSUME w \in Work, \A v \in Work \ {w} : row'[v] = row[v], Then(w)
        PROVE  SuccessIsComplete'
    <3>1. \A v \in Work \ {w} : Then(v)
      BY <1>0, <2>0
    <3>2. \A v \in Work : Then(v)
      BY <2>0, <3>1
    <3> QED BY <3>2 DEF SuccessIsComplete
  <2>1. CASE UNCHANGED row
    BY <2>1 DEF SuccessIsComplete
  <2>2. CASE EnsureQueued(x)
    <3>1. w \in Work /\ \A v \in Work \ {w} : row'[v] = row[v]
      BY <2>2, EnsureQueuedEffect DEF RowIs
    <3>2. CASE row[w].exists
      <4>1. row'[w].detail = row[w].detail /\ row'[w].files = row[w].files
            /\ row'[w].status \in {row[w].status, "queued"}
        BY <2>2, <3>2, EnsureQueuedEffect DEF RowIs
      <4> QED BY <2>0, <3>1, <4>1 DEF SuccessIsComplete
    <3>3. CASE ~row[w].exists
      <4>1. row'[w].status = "queued"
        BY <2>2, <3>3, EnsureQueuedEffect
      <4> QED BY <2>0, <3>1, <4>1
    <3> QED BY <3>2, <3>3
  <2>3. CASE Claim(x)
    BY <2>0, <2>3, ClaimEffect DEF RowIs
  <2>4. CASE SaveDetail(x)
    <3>1. CASE Owns(x)
      <4>1. w \in Work /\ \A v \in Work \ {w} : row'[v] = row[v]
        BY <2>4, <3>1, SaveDetailEffect DEF RowIs
      <4>2. row'[w].detail /\ row'[w].files = row[w].files /\ row'[w].status = row[w].status
        BY <2>4, <3>1, SaveDetailEffect DEF RowIs
      <4> QED BY <2>0, <4>1, <4>2 DEF SuccessIsComplete
    <3> QED BY <2>1, <2>4, <3>1, SaveDetailEffect
  <2>5. CASE SavePage(x)
    <3>1. CASE Owns(x)
      <4> DEFINE merged == [run[x].view EXCEPT ![run[x].next] = run[x].got]
      <4>1. /\ w \in Work /\ run[x].pc = "save" /\ \A v \in Work \ {w} : row'[v] = row[v]
            /\ row'[w].detail = row[w].detail /\ row'[w].files = merged
            /\ row'[w].status = row[w].status
        BY <2>5, <3>1, SavePageEffect DEF RowIs
      <4>2. row[w].files = run[x].view /\ run[x].got # NoFile /\ row[w].detail
        BY <3>1, <4>1 DEF HolderViewFresh, PagesOK, Loaded
      <4>3. \A p \in Pages(w) : row[w].files[p] # NoFile => merged[p] # NoFile
        BY <4>1, <4>2, PagesInPage, RunTyped DEF Run
      <4> HIDE DEF merged
      <4> QED BY <2>0, <4>1, <4>2, <4>3 DEF SuccessIsComplete
    <3> QED BY <2>1, <2>5, <3>1, SavePageEffect
  <2>6. CASE Finish(x)
    <3>1. CASE Owns(x)
      <4>1. /\ w \in Work /\ run[x].pc = "pages" /\ \A v \in Work \ {w} : row'[v] = row[v]
            /\ run[x].next > PageCount[w]
            /\ row'[w].detail = row[w].detail
            /\ row'[w].files = IF w \in Novel THEN row[w].files ELSE run[x].view
            /\ row'[w].status = IF run[x].missed THEN "failed" ELSE "success"
        BY <2>6, <3>1, FinishEffect DEF RowIs
      <4>2. row[w].files = run[x].view /\ row[w].detail
        BY <3>1, <4>1 DEF HolderViewFresh, Loaded
      <4>3. \A p \in Pages(w) : p < run[x].next
        BY <4>1, RunTyped, ConstantsOK DEF ConstantsOK, Pages, Run
      <4>4. ~run[x].missed => \A p \in Pages(w) : run[x].view[p] # NoFile
        BY <4>1, <4>3 DEF PagesOK, Loaded
      <4> QED BY <2>0, <4>1, <4>2, <4>4
    <3> QED BY <2>1, <2>6, <3>1, FinishEffect
  <2>7. CASE Cleanup(x)
    <3>1. CASE Owns(x)
      <4>1. /\ w \in Work /\ \A v \in Work \ {w} : row'[v] = row[v]
            /\ row'[w].detail = row[w].detail /\ row'[w].files = row[w].files
            /\ row'[w].status \in {row[w].status, "failed"}
        BY <2>7, <3>1, CleanupEffect DEF RowIs
      <4> QED BY <2>0, <4>1 DEF SuccessIsComplete
    <3> QED BY <2>1, <2>7, <3>1, CleanupEffect
  <2> QED BY <1>2, <2>1, <2>2, <2>3, <2>4, <2>5, <2>6, <2>7
       DEF ActsAs, Execute, EnsureRead, PassGate, CheckNeeded, ClaimMissed, FailBefore,
           LoadSnapshot, ReusePage, FetchPage, StorePage, MissPage, Close, FailFill, Crash, Deliver
<1> QED BY <1>1, <1>2, NextCases

-----------------------------------------------------------------------------
LEMMA InitInv == Init => Inv
<1> SUFFICES ASSUME Init PROVE Inv
  OBVIOUS
<1>1. /\ row = [w \in Work |-> NoRow] /\ run = [x \in Worker |-> Idle]
      /\ upload \in [UploadId -> [status : {"free"}, hash : Hash]]
      /\ nextToken = 1 /\ deletion = [work |-> NoWork, files |-> {}]
  BY DEF Init
<1>2. TypeOK
  <2>1. row \in [Work -> Row] /\ run \in [Worker -> Run]
    BY <1>1, NoRowTyped, IdleTyped
  <2>2. upload \in [UploadId -> Upload]
    BY <1>1 DEF Upload
  <2> QED BY <1>1, <2>1, <2>2, IdleTyped DEF TypeOK, NoToken
<1>3. TokensOK /\ RowsOK
  BY <1>1 DEF TokensOK, RowsOK, NoRow, Idle, NoToken, Filling, Loaded
<1>4. \A x \in Worker : ~Owns(x)
  BY <1>1 DEF Owns, Idle
<1>5. DoneOK /\ PagesOK /\ HolderViewFresh /\ SuccessIsComplete
  BY <1>1, <1>4 DEF DoneOK, PagesOK, HolderViewFresh, SuccessIsComplete, NoRow, Idle, Before, Loaded
<1>6. NoDangling
  BY <1>1, ConstantsOK DEF ConstantsOK, NoDangling, NoRow, Idle
<1> QED BY <1>2, <1>3, <1>5, <1>6 DEF Inv

\* The invariant is inductive.
THEOREM Invariance == Spec => []Inv
<1>1. Inv /\ [Next]_vars => Inv'
  BY TypeStep, TokensStep, RowsStep, DoneStep, PagesStep, DanglingStep, ViewStep, SuccessStep
     DEF Inv
<1> QED BY <1>1, InitInv, PTL DEF Spec

-----------------------------------------------------------------------------
(***************************************************************************)
(* What follows from the invariant.                                        *)
(***************************************************************************)
\* Type correctness, for every number of works, workers, uploads and claims.
THEOREM TypeCorrect == Spec => []TypeOK
<1>1. Inv => TypeOK
  BY DEF Inv
<1> QED BY <1>1, Invariance, PTL

\* What a worker loaded stays what the row holds for as long as it owns the
\* row, so fillMirrorIllust may write image_files_json as a whole.
THEOREM HoldersAreFresh == Spec => []HolderViewFresh
<1>1. Inv => HolderViewFresh
  BY DEF Inv
<1> QED BY <1>1, Invariance, PTL

\* A row that says success has its detail and a stored part for every page, in
\* whichever attempts of whichever workers they were stored.
THEOREM SuccessIsEarned == Spec => []SuccessIsComplete
<1>1. Inv => SuccessIsComplete
  BY DEF Inv
<1> QED BY <1>1, Invariance, PTL

\* No row is left in processing without a lease that can run out: the claim of
\* runProtectedMirror can always be made again.
THEOREM Reclaimable == Spec => []ProcessingCanBeReclaimed
<1>1. Inv => ProcessingCanBeReclaimed
  BY DEF Inv, RowsOK, ProcessingCanBeReclaimed
<1> QED BY <1>1, Invariance, PTL
=============================================================================
