------------------------ MODULE MirrorWorkRefinement ------------------------
(***************************************************************************)
(* Proof that MirrorWork implements the abstract MirrorArchive: every step *)
(* of the workers, the clock and the administrator is a step of the        *)
(* archive, or leaves the archive as it is.                                *)
(***************************************************************************)
EXTENDS MirrorWorkProofs

Removed == {u \in UploadId : upload[u].status = "deleted"}

KeptRow == [exists : BOOLEAN, detail : BOOLEAN, files : [Page -> File]]

LEMMA KeptTyped ==
  ASSUME TypeOK
  PROVE  /\ Kept \in [Work -> KeptRow]
         /\ \A w \in Work : /\ Kept[w].exists = row[w].exists
                            /\ Kept[w].detail = row[w].detail
                            /\ Kept[w].files = row[w].files
  BY DEF TypeOK, Row, Kept, KeptRow

\* Only row w changes: the archive changes at w.
LEMMA KeptStep ==
  ASSUME NEW w \in Work, \A v \in Work \ {w} : row'[v] = row[v]
  PROVE  Kept' = [Kept EXCEPT ![w] = [exists |-> row'[w].exists,
                                      detail |-> row'[w].detail,
                                      files  |-> row'[w].files]]
  BY DEF Kept

LEMMA KeptSame ==
  ASSUME \A v \in Work : /\ row'[v].exists = row[v].exists
                         /\ row'[v].detail = row[v].detail
                         /\ row'[v].files = row[v].files
  PROVE  Kept' = Kept
  BY DEF Kept

\* Replacing one field of an archived row.
LEMMA SetExists ==
  ASSUME NEW k \in [Work -> KeptRow], NEW w \in Work, NEW e \in BOOLEAN, e
  PROVE  [k EXCEPT ![w].exists = TRUE]
           = [k EXCEPT ![w] = [exists |-> e, detail |-> k[w].detail, files |-> k[w].files]]
<1> DEFINE to == [k EXCEPT ![w] = [exists |-> e, detail |-> k[w].detail, files |-> k[w].files]]
<1>1. to \in [Work -> KeptRow] /\ to = [k EXCEPT ![w] = [exists |-> e, detail |-> k[w].detail, files |-> k[w].files]]
  BY DEF KeptRow
<1> HIDE DEF to
<1>2. to = [k EXCEPT ![w].exists = TRUE]
  BY <1>1, ZenonT(40) DEF KeptRow
<1> QED BY <1>2 DEF to

LEMMA SetDetail ==
  ASSUME NEW k \in [Work -> KeptRow], NEW w \in Work, NEW e \in BOOLEAN, e
  PROVE  [k EXCEPT ![w].detail = TRUE]
           = [k EXCEPT ![w] = [exists |-> k[w].exists, detail |-> e, files |-> k[w].files]]
<1> DEFINE to == [k EXCEPT ![w] = [exists |-> k[w].exists, detail |-> e, files |-> k[w].files]]
<1>1. to \in [Work -> KeptRow] /\ to = [k EXCEPT ![w] = [exists |-> k[w].exists, detail |-> e, files |-> k[w].files]]
  BY DEF KeptRow
<1> HIDE DEF to
<1>2. to = [k EXCEPT ![w].detail = TRUE]
  BY <1>1, ZenonT(40) DEF KeptRow
<1> QED BY <1>2 DEF to

\* The statuses of the uploads are as they were, or none was nor is removed.
LEMMA RemovedSame ==
  ASSUME \A u \in UploadId : (upload'[u].status = "deleted") <=> (upload[u].status = "deleted")
  PROVE  Removed' = Removed
  BY DEF Removed

\* EnsureMirror*Queued opens the archive of a work, or leaves it as it is.
LEMMA OpenStep ==
  ASSUME Inv, NEW x \in Worker, EnsureQueued(x)
  PROVE  Removed' = Removed /\ (Kept' = Kept \/ \E w \in Work : Archive!Open(w))
<1> DEFINE w == run[x].work
<1>1. w \in Work /\ UNCHANGED upload /\ TypeOK'
  BY EnsureQueuedEffect, TypeStep DEF Inv, Next, Execute
<1>2. Removed' = Removed
  BY <1>1 DEF Removed
<1>3. CASE row[w].exists
  BY <1>1, <1>2, <1>3, EnsureQueuedEffect, KeptSame DEF Inv, RowIs
<1>4. CASE ~row[w].exists
  <2>1. row[w].detail = FALSE /\ row[w].files = [p \in Page |-> NoFile]
    BY <1>1, <1>4 DEF Inv, RowsOK, NoRow
  <2>2. row'[w].exists \in BOOLEAN /\ row'[w].detail \in BOOLEAN
    BY <1>1 DEF TypeOK, Row
  <2>3. /\ \A v \in Work \ {w} : row'[v] = row[v]
        /\ row'[w].exists = TRUE /\ row'[w].detail = row[w].detail
        /\ row'[w].files = row[w].files
    BY <1>1, <1>4, <2>1, <2>2, EnsureQueuedEffect DEF Inv
  <2>4. Kept' = [Kept EXCEPT ![w].exists = TRUE] /\ ~Kept[w].exists
    <3>1. /\ Kept \in [Work -> KeptRow] /\ ~Kept[w].exists
          /\ Kept[w].detail = row[w].detail /\ Kept[w].files = row[w].files
      BY <1>1, <1>4, KeptTyped DEF Inv
    <3>2. Kept' = [Kept EXCEPT ![w] = [exists |-> row'[w].exists, detail |-> Kept[w].detail,
                                       files |-> Kept[w].files]]
      BY <1>1, <2>3, <3>1, KeptStep
    <3>3. Kept' = [Kept EXCEPT ![w].exists = TRUE]
      BY <1>1, <2>2, <2>3, <3>1, <3>2, SetExists
    <3> QED BY <3>1, <3>3
  <2>5. Archive!Open(w)
    BY <1>2, <2>4 DEF Archive!Open, Removed
  <2> QED BY <1>1, <1>2, <2>5
<1> QED BY <1>3, <1>4

\* SaveDetail stores the detail of a row that has none.
LEMMA DescribeStep ==
  ASSUME Inv, NEW x \in Worker, SaveDetail(x)
  PROVE  Removed' = Removed /\ (Kept' = Kept \/ \E w \in Work : Archive!Describe(w))
<1> DEFINE w == run[x].work
<1>1. w \in Work /\ UNCHANGED upload
  BY SaveDetailEffect DEF Inv
<1>2. Removed' = Removed
  BY <1>1 DEF Removed
<1>3. CASE ~Owns(x)
  BY <1>1, <1>2, <1>3, SaveDetailEffect, KeptSame DEF Inv
<1>4. CASE Owns(x)
  <2>1. ~row[w].detail
    BY <1>4, SaveDetailEffect DEF Inv, HolderViewFresh, Loaded
  <2>2. row[w].exists
    BY <1>1, <1>4 DEF Inv, RowsOK, Owns, NoRow
  <2>3. /\ \A v \in Work \ {w} : row'[v] = row[v]
        /\ row'[w].exists = row[w].exists /\ row'[w].detail = TRUE
        /\ row'[w].files = row[w].files
    BY <1>4, SaveDetailEffect DEF Inv, RowIs
  <2>4. /\ Kept' = [Kept EXCEPT ![w].detail = TRUE]
        /\ Kept[w].exists /\ ~Kept[w].detail
    <3>1. /\ Kept \in [Work -> KeptRow] /\ Kept[w].exists = row[w].exists
          /\ Kept[w].detail = row[w].detail /\ Kept[w].files = row[w].files
      BY <1>1, KeptTyped DEF Inv
    <3>2. Kept' = [Kept EXCEPT ![w] = [exists |-> Kept[w].exists, detail |-> row'[w].detail,
                                       files |-> Kept[w].files]]
      BY <1>1, <2>3, <3>1, KeptStep
    <3>3. Kept' = [Kept EXCEPT ![w].detail = TRUE]
      BY <1>1, <2>3, <3>1, <3>2, SetDetail
    <3> QED BY <2>1, <2>2, <3>1, <3>3
  <2>5. Archive!Describe(w)
    BY <1>2, <2>4 DEF Archive!Describe, Removed
  <2> QED BY <1>1, <1>2, <2>5
<1> QED BY <1>3, <1>4

\* SavePage fills in a page that was missing, and only that one: the worker's
\* view is the row's (HolderViewFresh), and the page it fetched was no longer
\* valid in that view (PagesOK), so it was never saved or its upload is gone.
LEMMA KeepStep ==
  ASSUME Inv, ~ReadsMayFail, NEW x \in Worker, SavePage(x)
  PROVE  /\ Removed' = Removed
         /\ \/ Kept' = Kept
            \/ \E w \in Work, p \in Page, f \in UploadId \cup {Inline} : Archive!Keep(w, p, f)
<1> DEFINE w == run[x].work
           p == run[x].next
           f == run[x].got
<1>1. w \in Work /\ UNCHANGED upload /\ run[x].pc = "save"
  BY SavePageEffect DEF Inv
<1>2. Removed' = Removed
  BY <1>1 DEF Removed
<1>3. CASE ~Owns(x)
  BY <1>1, <1>2, <1>3, SavePageEffect, KeptSame DEF Inv
<1>4. CASE Owns(x)
  <2>1. /\ row[w].files = run[x].view /\ row[w].detail
        /\ row[w].files \in [Page -> File]
    BY <1>1, <1>4, RunTyped DEF Inv, HolderViewFresh, Loaded, Run
  <2>2. row[w].exists
    BY <1>1, <1>4 DEF Inv, RowsOK, Owns, NoRow
  <2>3. /\ p \in Pages(w) /\ ~Valid(run[x].view[p]) /\ f # NoFile
    BY <1>1 DEF Inv, PagesOK, LooksInvalid
  <2>4. p \in Page /\ f \in UploadId \cup {Inline} /\ f \in File
    BY <1>1, <2>3, PagesInPage, RunTyped DEF Inv, Run, File
  <2>5. row[w].files[p] \in Removed \cup {NoFile}
    <3>1. row[w].files[p] \in UploadId =>
            upload[row[w].files[p]].status \notin {"free", "active"}
      BY <1>1, <2>1, <2>3, <2>4 DEF Inv, NoDangling, Valid
    <3>2. \A u \in UploadId : upload[u].status \in {"free", "active", "deleted"}
      BY DEF Inv, TypeOK, Upload
    <3> QED BY <2>1, <2>3, <2>4, <3>1, <3>2 DEF Valid, Removed, File
  <2>6. /\ \A v \in Work \ {w} : row'[v] = row[v]
        /\ row'[w].exists = row[w].exists /\ row'[w].detail = row[w].detail
        /\ row'[w].files = [row[w].files EXCEPT ![p] = f]
    BY <1>4, <2>1, SavePageEffect DEF Inv, RowIs
  <2>7. /\ Kept' = [Kept EXCEPT ![w].files[p] = f]
        /\ Kept[w].exists /\ Kept[w].detail /\ Kept[w].files[p] \in Removed \cup {NoFile}
    <3>1. /\ Kept \in [Work -> KeptRow] /\ Kept[w].exists = row[w].exists
          /\ Kept[w].detail = row[w].detail /\ Kept[w].files = row[w].files
      BY <1>1, KeptTyped DEF Inv
    <3>2. Kept' = [Kept EXCEPT ![w] = [exists |-> Kept[w].exists, detail |-> Kept[w].detail,
                                       files |-> [Kept[w].files EXCEPT ![p] = f]]]
      BY <1>1, <2>6, <3>1, KeptStep, SMTT(30)
    <3>3. Kept' = [Kept EXCEPT ![w].files[p] = f]
      <4> DEFINE k == Kept
                 to == Kept'
      <4>1. /\ k \in [Work -> KeptRow]
            /\ to = [k EXCEPT ![w] = [exists |-> k[w].exists, detail |-> k[w].detail,
                                      files |-> [k[w].files EXCEPT ![p] = f]]]
        BY <3>1, <3>2
      <4>2. w \in Work /\ p \in Page /\ f \in File
        BY <1>1, <2>4
      <4> HIDE DEF k, to, w, p, f
      <4>3. to \in [Work -> KeptRow]
        BY <4>1, <4>2 DEF KeptRow
      <4>4. to = [k EXCEPT ![w].files[p] = f]
        BY <4>1, <4>2, <4>3, ZenonT(40) DEF KeptRow
      <4> QED BY <4>4 DEF k, to, w, p, f
    <3>4. Kept[w].exists /\ Kept[w].detail
      BY <2>1, <2>2, <3>1
    <3> QED BY <2>5, <3>1, <3>3, <3>4
  <2>8. Archive!Keep(w, p, f)
    BY <1>2, <2>7 DEF Archive!Keep, Removed
  <2> QED BY <1>1, <1>2, <2>4, <2>8
<1> QED BY <1>3, <1>4

\* The closing update and the release write nothing new.
LEMMA QuietWorkerStep ==
  ASSUME Inv, NEW x \in Worker, ActsAs(x),
         ~(EnsureQueued(x) \/ SaveDetail(x) \/ SavePage(x))
  PROVE  Kept' = Kept /\ Removed' = Removed
<1>1. ASSUME UNCHANGED row PROVE Kept' = Kept
  BY <1>1, KeptSame
<1>2. ASSUME UNCHANGED upload PROVE Removed' = Removed
  BY <1>2 DEF Removed
<1>3. CASE StorePage(x)
  <2>1. \A u \in UploadId : (upload'[u].status = "deleted") <=> (upload[u].status = "deleted")
    BY <1>3, StorePageEffect DEF Inv
  <2> QED BY <1>1, <1>3, <2>1, RemovedSame DEF StorePage
<1>4. CASE Claim(x)
  BY <1>2, <1>4, ClaimEffect, KeptSame DEF Inv, RowIs
<1>5. CASE Finish(x)
  <2>1. CASE Owns(x)
    <3>1. row[run[x].work].files = run[x].view
      BY <1>5, <2>1, FinishEffect DEF Inv, HolderViewFresh, Loaded
    <3> QED BY <1>2, <1>5, <2>1, <3>1, FinishEffect, KeptSame DEF Inv, RowIs
  <2> QED BY <1>1, <1>2, <1>5, <2>1, FinishEffect DEF Inv
<1>6. CASE Cleanup(x)
  BY <1>1, <1>2, <1>6, CleanupEffect, KeptSame DEF Inv, RowIs
<1> QED
  BY <1>1, <1>2, <1>3, <1>4, <1>5, <1>6
     DEF ActsAs, Execute, EnsureRead, PassGate, CheckNeeded, ClaimMissed, FailBefore,
         LoadSnapshot, ReusePage, FetchPage, MissPage, Close, FailFill, Crash, Deliver

\* A deleted mirror is dropped; nothing else the clock or the administrator
\* does reaches the rows.
LEMMA DropStep ==
  ASSUME TypeOK, NEW w \in Work, Write(w, NoRow)
  PROVE  Kept' = [Kept EXCEPT ![w] = Archive!Nothing]
  BY WriteFacts, KeptStep DEF NoRow, Archive!Nothing

LEMMA RemoveStep ==
  ASSUME TypeOK, NEW u \in UploadId, SoftDelete(u)
  PROVE  Removed' = Removed \cup {u}
<1>1. upload'[u] = [upload[u] EXCEPT !.status = "deleted"]
      /\ \A t \in UploadId \ {u} : upload'[t] = upload[t]
  BY DEF SoftDelete, TypeOK
<1>2. upload'[u].status = "deleted"
  BY <1>1 DEF TypeOK, Upload
<1> QED BY <1>1, <1>2 DEF Removed

LEMMA ElsewhereStep ==
  ASSUME Inv, Elsewhere
  PROVE  Archive!ANext \/ (Kept' = Kept /\ Removed' = Removed)
<1>1. ASSUME UNCHANGED row PROVE Kept' = Kept
  BY <1>1, KeptSame
<1>2. ASSUME UNCHANGED upload PROVE Removed' = Removed
  BY <1>2 DEF Removed
<1>3. ASSUME NEW w \in Work, Write(w, NoRow), UNCHANGED upload PROVE Archive!ANext
  <2>1. Archive!Drop(w)
    BY <1>2, <1>3, DropStep DEF Inv, Archive!Drop, Removed
  <2> QED BY <2>1 DEF Archive!ANext
<1>4. ASSUME NEW u \in UploadId, SoftDelete(u), UNCHANGED row PROVE Archive!ANext
  <2>1. Archive!Remove(u)
    BY <1>1, <1>4, RemoveStep DEF Inv, Archive!Remove, Removed
  <2> QED BY <2>1 DEF Archive!ANext
<1>5. ASSUME NEW w \in Work, \/ LapseLease(w) \/ Age(w)
                             \/ \E x \in Worker : Heartbeat(x) /\ run[x].work = w
      PROVE  Kept' = Kept /\ Removed' = Removed
  BY <1>2, <1>5, LeaseEffect, KeptSame DEF Inv, RowsOK, RowIs
<1>6. CASE \E x \in Worker : Heartbeat(x)
  BY <1>5, <1>6 DEF Heartbeat, Owns
<1>7. CASE Admin
  <2>1. DeleteRow => deletion.work \in Work
    BY DEF DeleteRow, Inv, TypeOK
  <2> QED BY <1>1, <1>2, <1>3, <1>4, <1>7, <2>1
       DEF Admin, DeleteRow, DeleteAbort, DeleteBegin, DeleteNovel, DeleteUpload, RemoveUpload
<1> QED BY <1>1, <1>2, <1>5, <1>6, <1>7 DEF Elsewhere, vars

LEMMA InitStep == Init => Archive!AInit
<1> SUFFICES ASSUME Init PROVE Archive!AInit
  OBVIOUS
<1>1. Kept = [w \in Work |-> Archive!Nothing]
  BY DEF Init, Kept, NoRow, Archive!Nothing
<1>2. Removed = {}
  BY DEF Init, Removed
<1> QED BY <1>1, <1>2 DEF Archive!AInit, Removed

\* The mirrors implement the archive that only grows (section 8.2 of the
\* design): however workers, leases, crashes and deletions interleave, a stored
\* page that is still readable is never replaced or lost, provided that the
\* read of validMirrorFile does not fail (see the run misread).
THEOREM Refinement == ASSUME ~ReadsMayFail PROVE Spec => ArchiveOnlyGrows
<1>1. Inv /\ [Next]_vars => [Archive!ANext]_(Archive!avars)
  <2> SUFFICES ASSUME Inv, [Next]_vars
               PROVE  Archive!ANext \/ (Kept' = Kept /\ Removed' = Removed)
    BY DEF Archive!avars, Removed
  <2>1. ASSUME NEW x \in Worker, ActsAs(x)
        PROVE  Archive!ANext \/ (Kept' = Kept /\ Removed' = Removed)
    BY <2>1, OpenStep, DescribeStep, KeepStep, QuietWorkerStep DEF Archive!ANext
  <2> QED BY <2>1, ElsewhereStep, NextCases
<1> QED BY <1>1, InitStep, Invariance, PTL DEF Spec, ArchiveOnlyGrows, Archive!ASpec
=============================================================================
