----------------------------- MODULE MirrorWork -----------------------------
(***************************************************************************)
(* The execution of one mirror (backup) of a Pixiv work.                   *)
(*                                                                         *)
(* A work is one row of mirror_illust or mirror_novel.  Any number of      *)
(* Asynq workers may be handed a task for the same work: bookmark          *)
(* auto-enqueue, artist subscription scans, the HTTP API and Asynq's own   *)
(* at-least-once redelivery all lead to MirrorTaskHandler.Execute.  The    *)
(* row carries an execution token and a lease; a worker claims the row     *)
(* with one conditional UPDATE, renews the lease from a heartbeat          *)
(* goroutine, and every write of content is conditional on the token.      *)
(*                                                                         *)
(* One action is one database access (each is atomic), so the interleaving *)
(* of the accesses of different workers is the interleaving of the         *)
(* actions.  The clock appears only as the step LapseLease: a lease may    *)
(* run out at any moment, which covers a crashed worker, a paused process  *)
(* and a heartbeat that cannot reach the database.                         *)
(***************************************************************************)
EXTENDS Integers, FiniteSets

CONSTANTS
  Work,       \* all works, illustrations and novels
  Novel,      \* the works kept in mirror_novel
  PageCount,  \* PageCount[w]: pages of an illustration; a novel has one part, its text
  Hash,       \* the SHA-256 hashes an image can have
  Served,     \* Served[w][p]: hashes of the images Pixiv may serve for that page
  UploadId,   \* ids of w_uploads rows
  Worker,     \* Asynq worker goroutines
  ReadsMayFail, \* a failed database read may be taken for missing content
  Limit,      \* pixez_mirror_{illust,novel}_concurrency
  MaxToken,   \* bound: claims explored (uuid.NewString never repeats)
  NoWork,     \* the work of an idle worker
  NoFile,     \* no mapping saved for a page
  Inline      \* a novel's text: stored in the row itself, in no upload

Page == UNION {1..PageCount[w] : w \in Work}

ASSUME ConstantsOK ==
  /\ Novel \subseteq Work
  /\ PageCount \in [Work -> Nat \ {0}]
  /\ \A w \in Novel : PageCount[w] = 1
  /\ Served \in [Work -> [Page -> SUBSET Hash]]
  /\ ReadsMayFail \in BOOLEAN
  /\ Limit \in Nat
  /\ MaxToken \in Nat
  /\ NoWork \notin Work
  /\ {NoFile, Inline} \cap UploadId = {}
  /\ NoFile # Inline

VARIABLES
  row,        \* row[w]: the mirror_illust / mirror_novel row of w
  upload,     \* upload[u]: the w_uploads row u
  run,        \* run[x]: what worker x is executing
  nextToken,  \* the token the next claim will write
  deletion    \* the administrator's delete request in progress

vars == <<row, upload, run, nextToken, deletion>>

-----------------------------------------------------------------------------
File     == UploadId \cup {NoFile, Inline}
NoToken  == 0                                   \* execution_token = ''
Lease    == {"none", "held", "lapsed"}          \* NULL, in the future, in the past
Status   == {"queued", "processing", "success", "failed"}

Row == [exists : BOOLEAN, token : Nat, lease : Lease, status : Status,
        recent : BOOLEAN,   \* updated_at lies within the last 15 minutes
        detail : BOOLEAN,   \* detail_json holds a trustworthy snapshot
        files  : [Page -> File]]

NoRow == [exists |-> FALSE, token |-> NoToken, lease |-> "none",
          status |-> "queued", recent |-> FALSE, detail |-> FALSE,
          files |-> [p \in Page |-> NoFile]]

Upload == [status : {"free", "active", "deleted"}, hash : Hash]

\* Program counters, in the order Execute goes through them.
Before == {"ensure", "queue", "gate", "check", "claim"}   \* nothing claimed yet
Loaded == {"detail", "pages", "store", "save", "final"}   \* past the snapshot
Filling == {"load"} \cup Loaded                           \* inside process(leaseCtx)
PC == {"idle", "cleanup"} \cup Before \cup Filling

Run == [pc : PC, work : Work \cup {NoWork}, token : Nat,
        view : [Page -> File],  \* mergeMirrorFiles(oldFiles, files)
        next : Nat,             \* the page the loop has reached
        got  : File,            \* the file registered for that page
        missed : BOOLEAN,       \* some page could not be fetched
        err : BOOLEAN]          \* process returned an error

Idle == [pc |-> "idle", work |-> NoWork, token |-> NoToken,
         view |-> [p \in Page |-> NoFile], next |-> 1, got |-> NoFile,
         missed |-> FALSE, err |-> FALSE]

TypeOK ==
  /\ row \in [Work -> Row]
  /\ upload \in [UploadId -> Upload]
  /\ run \in [Worker -> Run]
  /\ \A x \in Worker : run[x].pc # "idle" => run[x].work \in Work
  /\ nextToken \in Nat \ {NoToken}
  /\ deletion \in [work : Work \cup {NoWork}, files : SUBSET UploadId]

-----------------------------------------------------------------------------
Pages(w) == 1..PageCount[w]

\* A saved mapping counts only while its upload row is pending or used.
Valid(f) == f = Inline \/ (f \in UploadId /\ upload[f].status = "active")

Complete(w) ==
  /\ row[w].exists /\ row[w].detail
  /\ \A p \in Pages(w) : Valid(row[w].files[p])

\* validMirrorFile reports a failed COUNT as a mapping that is not valid, so a
\* valid one may look invalid and a complete illustration incomplete.
LooksInvalid(f)    == ~Valid(f) \/ (ReadsMayFail /\ f \in UploadId)
LooksIncomplete(w) == ~Complete(w) \/ (ReadsMayFail /\ w \notin Novel)

SameTable(w) == {v \in Work : v \in Novel <=> w \in Novel}

\* The worker whose token is on the row: its conditional writes succeed.
Owns(x) == /\ run[x].work \in Work
           /\ run[x].token # NoToken
           /\ row[run[x].work].token = run[x].token

\* One database write, and the next state of one worker.
Write(w, r)  == row' = [row EXCEPT ![w] = r]
Become(x, r) == run' = [run EXCEPT ![x] = r]

Goto(x, pc) == Become(x, [run[x] EXCEPT !.pc = pc])
Leave(x)    == Become(x, Idle)
GiveUp(x)   == Become(x, [run[x] EXCEPT !.pc = "cleanup", !.err = TRUE])

SoftDelete(u) == upload' = [upload EXCEPT ![u] = [@ EXCEPT !.status = "deleted"]]

\* The transaction of EnsureMirror{Illust,Novel}Queued.
Ensured(r) ==
  IF ~r.exists THEN [NoRow EXCEPT !.exists = TRUE, !.recent = TRUE]
  ELSE IF r.lease = "held" THEN r
  ELSE [r EXCEPT !.status = "queued", !.recent = TRUE]

-----------------------------------------------------------------------------

\* The age of a processing row is not looked at.
PassGateAnyAge(x) ==
  LET busy == {v \in SameTable(run[x].work) \ {run[x].work} :
                 row[v].exists /\ row[v].status = "processing"}
  IN /\ run[x].pc = "gate"
     /\ Cardinality(busy) < Limit
     /\ Goto(x, "check")
     /\ UNCHANGED <<row, upload, nextToken, deletion>>

\* The token is derived from the task instead of being drawn anew.
ClaimSameToken(x) ==
  LET w == run[x].work
  IN /\ run[x].pc = "claim"
     /\ row[w].exists /\ row[w].lease # "held"
     /\ nextToken <= MaxToken
     /\ Write(w, [row[w] EXCEPT !.token = nextToken, !.lease = "held",
                                !.status = "processing"])
     /\ Become(x, [run[x] EXCEPT !.pc = "load", !.token = nextToken])
     /\ UNCHANGED <<upload, nextToken, deletion>>

\* The saved files are not merged into the worker's list.
LoadNothing(x) ==
  LET w == run[x].work
  IN /\ run[x].pc = "load"
     /\ row[w].exists
     /\ Goto(x, IF row[w].detail THEN "pages" ELSE "detail")
     /\ UNCHANGED <<row, upload, nextToken, deletion>>

\* A page is written without the token condition.
SavePageUnprotected(x) ==
  LET w == run[x].work
      merged == [run[x].view EXCEPT ![run[x].next] = run[x].got]
  IN /\ run[x].pc = "save"
     /\ Write(w, [row[w] EXCEPT !.files = merged])
     /\ Become(x, [run[x] EXCEPT !.pc = "pages", !.view = merged,
                                 !.next = @ + 1, !.got = NoFile])
     /\ UNCHANGED <<upload, nextToken, deletion>>

\* A missed page does not make the attempt fail.
FinishAnyway(x) ==
  LET w == run[x].work
  IN /\ run[x].pc = "pages"
     /\ run[x].next > PageCount[w]
     /\ IF Owns(x)
        THEN /\ Write(w, [row[w] EXCEPT !.recent = TRUE, !.status = "success"])
             /\ Goto(x, "final")
        ELSE GiveUp(x) /\ UNCHANGED row
     /\ UNCHANGED <<upload, nextToken, deletion>>

\* The lease is released without the token condition.
CleanupUnprotected(x) ==
  LET w == run[x].work
  IN /\ run[x].pc = "cleanup"
     /\ Write(w, [row[w] EXCEPT !.token = NoToken, !.lease = "none",
                                !.status = IF run[x].err THEN "failed" ELSE @])
     /\ Leave(x)
     /\ UNCHANGED <<upload, nextToken, deletion>>

-----------------------------------------------------------------------------
Init ==
  /\ row = [w \in Work |-> NoRow]
  /\ upload \in [UploadId -> [status : {"free"}, hash : Hash]]
  /\ run = [x \in Worker |-> Idle]
  /\ nextToken = 1
  /\ deletion = [work |-> NoWork, files |-> {}]

\* Asynq hands worker x a mirror task for w: new, retried or redelivered.  The
\* dispatchers also call EnsureMirror*Queued themselves; that is a delivery that
\* ends (FailBefore) right after EnsureQueued.
Deliver(x, w) ==
  /\ run[x].pc = "idle"
  /\ Become(x, [Idle EXCEPT !.pc = "ensure", !.work = w])
  /\ UNCHANGED <<row, upload, nextToken, deletion>>

\* EnsureMirror*Queued, first read: a complete work is left as it is.  A read
\* that fails is no reason to stop.
EnsureRead(x) ==
  /\ run[x].pc = "ensure"
  /\ \/ Complete(run[x].work) /\ Goto(x, "gate")
     \/ (~Complete(run[x].work) \/ ReadsMayFail) /\ Goto(x, "queue")
  /\ UNCHANGED <<row, upload, nextToken, deletion>>

\* EnsureMirror*Queued, the transaction.
EnsureQueued(x) ==
  /\ run[x].pc = "queue"
  /\ Write(run[x].work, Ensured(row[run[x].work]))
  /\ Goto(x, "gate")
  /\ UNCHANGED <<upload, nextToken, deletion>>

\* waitMirrorConcurrencyLimit: fewer than Limit other works of the table are
\* processing and were updated in the last 15 minutes.
PassGate(x) ==
  LET w == run[x].work
      busy == {v \in SameTable(w) \ {w} :
                 row[v].exists /\ row[v].status = "processing" /\ row[v].recent}
  IN /\ run[x].pc = "gate"
     /\ Cardinality(busy) < Limit
     /\ Goto(x, "check")
     /\ UNCHANGED <<row, upload, nextToken, deletion>>

\* MirrorNeedsWork: a complete work, or one somebody holds, ends the task
\* without an error.
CheckNeeded(x) ==
  LET w == run[x].work
  IN /\ run[x].pc = "check"
     /\ \/ row[w].exists /\ (Complete(w) \/ row[w].lease = "held") /\ Leave(x)
        \/ /\ ~row[w].exists \/ (LooksIncomplete(w) /\ row[w].lease # "held")
           /\ Goto(x, "claim")
     /\ UNCHANGED <<row, upload, nextToken, deletion>>

\* runProtectedMirror: the conditional UPDATE that takes the lease.
Claim(x) ==
  LET w == run[x].work
  IN /\ run[x].pc = "claim"
     /\ row[w].exists /\ row[w].lease # "held"
     /\ nextToken <= MaxToken
     /\ Write(w, [row[w] EXCEPT !.token = nextToken, !.lease = "held",
                                !.status = "processing"])
     /\ Become(x, [run[x] EXCEPT !.pc = "load", !.token = nextToken])
     /\ nextToken' = nextToken + 1
     /\ UNCHANGED <<upload, deletion>>

\* The conditional UPDATE matched no row: the task ends without an error.
ClaimMissed(x) ==
  LET w == run[x].work
  IN /\ run[x].pc = "claim"
     /\ ~row[w].exists \/ row[w].lease = "held"
     /\ Leave(x)
     /\ UNCHANGED <<row, upload, nextToken, deletion>>

\* A database error, or a context cancelled while waiting, before the claim.
FailBefore(x) ==
  /\ run[x].pc \in Before
  /\ Leave(x)
  /\ UNCHANGED <<row, upload, nextToken, deletion>>

\* fillMirror{Illust,Novel} reads the row (the read is not token-conditional).
LoadSnapshot(x) ==
  LET w == run[x].work
  IN /\ run[x].pc = "load"
     /\ row[w].exists
     /\ Become(x, [run[x] EXCEPT !.pc = IF row[w].detail THEN "pages" ELSE "detail",
                                 !.view = row[w].files])
     /\ UNCHANGED <<row, upload, nextToken, deletion>>

\* Pixiv returned a trustworthy detail; it is stored if x still owns the row.
SaveDetail(x) ==
  LET w == run[x].work
  IN /\ run[x].pc = "detail"
     /\ IF Owns(x)
        THEN /\ Write(w, [row[w] EXCEPT !.detail = TRUE])
             /\ Goto(x, "pages")
        ELSE GiveUp(x) /\ UNCHANGED row
     /\ UNCHANGED <<upload, nextToken, deletion>>

\* savedMirrorPage / validText: the part is already archived and is reused.
ReusePage(x) ==
  /\ run[x].pc = "pages"
  /\ run[x].next \in Pages(run[x].work)
  /\ Valid(run[x].view[run[x].next])
  /\ Become(x, [run[x] EXCEPT !.next = @ + 1])
  /\ UNCHANGED <<row, upload, nextToken, deletion>>

\* DownloadFile and registerMirrorUpload: Ingest with PolicyResolveExisting
\* looks for a live upload with the image's hash ...
FetchPage(x) ==
  LET w == run[x].work
      same(h) == {u \in UploadId : upload[u].status = "active" /\ upload[u].hash = h}
  IN /\ run[x].pc = "pages"
     /\ run[x].next \in Pages(w)
     /\ LooksInvalid(run[x].view[run[x].next])
     /\ \/ /\ w \in Novel        \* GetNovelText: the text goes into the row
           /\ Become(x, [run[x] EXCEPT !.pc = "save", !.got = Inline])
        \/ /\ w \notin Novel
           /\ \E h \in Served[w][run[x].next] :
                \/ \E u \in same(h) : Become(x, [run[x] EXCEPT !.pc = "save", !.got = u])
                \/ same(h) = {} /\ Goto(x, "store")
     /\ UNCHANGED <<row, upload, nextToken, deletion>>

\* ... and stores a new one when it found none.  Nothing stops two workers
\* that both found none, so a live upload with the same hash may exist by now
\* whichever image was served; access mode and metadata are not told apart.
StorePage(x) ==
  /\ run[x].pc = "store"
  /\ run[x].next \in Pages(run[x].work)
  /\ \E u \in UploadId, h \in Served[run[x].work][run[x].next] :
       /\ upload[u].status = "free"
       /\ upload' = [upload EXCEPT ![u] = [status |-> "active", hash |-> h]]
       /\ Become(x, [run[x] EXCEPT !.pc = "save", !.got = u])
  /\ UNCHANGED <<row, nextToken, deletion>>

\* A page that cannot be downloaded or ingested is recorded and skipped; for a
\* novel the same error ends the attempt (FailFill).
MissPage(x) ==
  LET w == run[x].work
  IN /\ run[x].pc \in {"pages", "store"}
     /\ w \notin Novel
     /\ run[x].next \in Pages(w)
     /\ LooksInvalid(run[x].view[run[x].next])
     /\ Become(x, [run[x] EXCEPT !.pc = "pages", !.next = @ + 1, !.missed = TRUE])
     /\ UNCHANGED <<row, upload, nextToken, deletion>>

\* The page is persisted at once, merged into the worker's view of the row.
SavePage(x) ==
  LET w == run[x].work
      merged == [run[x].view EXCEPT ![run[x].next] = run[x].got]
  IN /\ run[x].pc = "save"
     /\ IF Owns(x)
        THEN /\ Write(w, [row[w] EXCEPT !.files = merged])
             /\ Become(x, [run[x] EXCEPT !.pc = "pages", !.view = merged,
                                         !.next = @ + 1, !.got = NoFile])
        ELSE GiveUp(x) /\ UNCHANGED row
     /\ UNCHANGED <<upload, nextToken, deletion>>

\* The closing update of fillMirror*: an illustration's files again, and success
\* only when no page was missed (a novel's text is not written again).
Finish(x) ==
  LET w == run[x].work
  IN /\ run[x].pc = "pages"
     /\ run[x].next > PageCount[w]
     /\ IF Owns(x)
        THEN /\ Write(w, [row[w] EXCEPT
                    !.recent = TRUE,
                    !.files  = IF w \in Novel THEN @ ELSE run[x].view,
                    !.status = IF run[x].missed THEN "failed" ELSE "success"])
             /\ Become(x, [run[x] EXCEPT !.pc = "final", !.err = run[x].missed])
        ELSE GiveUp(x) /\ UNCHANGED row
     /\ UNCHANGED <<upload, nextToken, deletion>>

\* updateBookmarkMirrorStatus has run (its table is no part of this module).
Close(x) ==
  /\ run[x].pc = "final"
  /\ Goto(x, "cleanup")
  /\ UNCHANGED <<row, upload, nextToken, deletion>>

\* Any error inside process: the row is gone, Pixiv or the index failed, the
\* heartbeat found another token and cancelled the context, or shutdown did.
FailFill(x) ==
  /\ run[x].pc \in Filling \ {"final"}
  /\ GiveUp(x)
  /\ UNCHANGED <<row, upload, nextToken, deletion>>

\* The heartbeat goroutine renews the lease while process runs.
Heartbeat(x) ==
  /\ run[x].pc \in Filling
  /\ Owns(x)
  /\ row[run[x].work].lease = "lapsed"
  /\ Write(run[x].work, [row[run[x].work] EXCEPT !.lease = "held"])
  /\ UNCHANGED <<upload, run, nextToken, deletion>>

\* The token-conditional release after process returned.
Cleanup(x) ==
  LET w == run[x].work
  IN /\ run[x].pc = "cleanup"
     /\ IF Owns(x)
        THEN Write(w, [row[w] EXCEPT !.token = NoToken, !.lease = "none",
                                     !.status = IF run[x].err THEN "failed" ELSE @])
        ELSE UNCHANGED row
     /\ Leave(x)
     /\ UNCHANGED <<upload, nextToken, deletion>>

\* The process dies, or the release itself fails: the row stays as it is.
Crash(x) ==
  /\ run[x].pc # "idle"
  /\ Leave(x)
  /\ UNCHANGED <<row, upload, nextToken, deletion>>

\* Fifteen minutes pass without a renewal / an update of the row.
LapseLease(w) ==
  /\ row[w].lease = "held"
  /\ Write(w, [row[w] EXCEPT !.lease = "lapsed"])
  /\ UNCHANGED <<upload, run, nextToken, deletion>>

Age(w) ==
  /\ row[w].recent
  /\ Write(w, [row[w] EXCEPT !.recent = FALSE])
  /\ UNCHANGED <<upload, run, nextToken, deletion>>

\* deleteMirroredIllust reads the row and its mappings ...
DeleteBegin(w) ==
  /\ deletion.work = NoWork
  /\ w \notin Novel /\ row[w].exists
  /\ deletion' = [work |-> w,
                  files |-> {row[w].files[p] : p \in Page} \cap UploadId]
  /\ UNCHANGED <<row, upload, run, nextToken>>

\* ... soft-deletes each upload that is still live (an error is only logged) ...
DeleteUpload(u) ==
  /\ deletion.work # NoWork /\ u \in deletion.files
  /\ \/ upload[u].status = "active" /\ SoftDelete(u)
     \/ UNCHANGED upload
  /\ deletion' = [deletion EXCEPT !.files = @ \ {u}]
  /\ UNCHANGED <<row, run, nextToken>>

\* ... and deletes the row, whatever happened to it meanwhile.
DeleteRow ==
  /\ deletion.work # NoWork /\ deletion.files = {}
  /\ Write(deletion.work, NoRow)
  /\ deletion' = [work |-> NoWork, files |-> {}]
  /\ UNCHANGED <<upload, run, nextToken>>

\* The request ends early: a database error, or the process dies.
DeleteAbort ==
  /\ deletion.work # NoWork
  /\ deletion' = [work |-> NoWork, files |-> {}]
  /\ UNCHANGED <<row, upload, run, nextToken>>

\* DeleteMirroredNovel is a single DELETE.
DeleteNovel(w) ==
  /\ w \in Novel /\ row[w].exists
  /\ Write(w, NoRow)
  /\ UNCHANGED <<upload, run, nextToken, deletion>>

\* The file manager removes an upload a mirror may refer to.
RemoveUpload(u) ==
  /\ upload[u].status = "active"
  /\ SoftDelete(u)
  /\ UNCHANGED <<row, run, nextToken, deletion>>

-----------------------------------------------------------------------------
Execute(x) ==
  \/ EnsureRead(x) \/ EnsureQueued(x) \/ PassGate(x) \/ CheckNeeded(x)
  \/ Claim(x) \/ ClaimMissed(x) \/ FailBefore(x)
  \/ LoadSnapshot(x) \/ SaveDetail(x) \/ ReusePage(x) \/ FetchPage(x)
  \/ StorePage(x) \/ MissPage(x) \/ SavePage(x) \/ Finish(x) \/ Close(x) \/ FailFill(x)
  \/ Cleanup(x)

Admin ==
  \/ DeleteRow \/ DeleteAbort
  \/ \E w \in Work : DeleteBegin(w) \/ DeleteNovel(w)
  \/ \E u \in UploadId : DeleteUpload(u) \/ RemoveUpload(u)

Next ==
  \/ \E x \in Worker : Execute(x) \/ Heartbeat(x) \/ Crash(x)
  \/ \E x \in Worker, w \in Work : Deliver(x, w)
  \/ \E w \in Work : LapseLease(w) \/ Age(w)
  \/ Admin

Spec == Init /\ [][Next]_vars

\* A worker waiting for a slot polls every two seconds, and the clock runs.
\* Nothing else is promised: workers may crash, be paused or be given nothing.
Fairness == /\ \A x \in Worker : WF_vars(PassGate(x))
            /\ \A w \in Work : WF_vars(Age(w))

FairSpec == Spec /\ Fairness

-----------------------------------------------------------------------------
(***************************************************************************)
(* Correctness.                                                            *)
(***************************************************************************)
\* While a worker owns the row, the snapshot it loaded and merged its pages
\* into is exactly what the row holds, so that writing the whole list of files
\* loses nobody's page (fillMirrorIllust writes image_files_json as a whole).
HolderViewFresh ==
  \A x \in Worker :
    Owns(x) /\ run[x].pc \in Loaded
      => /\ row[run[x].work].files = run[x].view
         /\ row[run[x].work].detail <=> run[x].pc # "detail"

\* The status success means what section 8.1 of the design asks for: a detail
\* and a stored part for every page, whoever stored them and in whichever run.
SuccessIsComplete ==
  \A w \in Work :
    row[w].status = "success"
      => row[w].detail /\ \A p \in Pages(w) : row[w].files[p] # NoFile

\* A row in processing carries a token and a lease that can run out, so no
\* interleaving of claims, late releases and deletions leaves a row in
\* processing that no worker could ever claim again.
ProcessingCanBeReclaimed ==
  \A w \in Work :
    row[w].status = "processing" => row[w].token # NoToken /\ row[w].lease # "none"

\* A worker waiting for a slot gets one, whatever the workers that fill the
\* slots do: a crashed one keeps its row in processing, but the row ages and no
\* longer counts (the comment in waitMirrorConcurrencyLimit).  Within MaxToken
\* claims: an endless stream of them may always beat the poller.
SlotIsGranted ==
  \A x \in Worker : run[x].pc = "gate" ~> run[x].pc # "gate"

-----------------------------------------------------------------------------
\* The inductive invariant.
TokensOK ==
  /\ \A w \in Work : row[w].token < nextToken
  /\ \A x \in Worker : run[x].token < nextToken
  /\ \A x \in Worker :
       run[x].token # NoToken <=> run[x].pc \in Filling \cup {"cleanup"}
  /\ \A x, y \in Worker :
       run[x].token # NoToken /\ run[x].token = run[y].token => x = y
  /\ \A x \in Worker, w \in Work :
       run[x].token # NoToken /\ row[w].token = run[x].token => w = run[x].work

RowsOK ==
  \A w \in Work :
    /\ row[w].lease = "none" <=> row[w].token = NoToken
    /\ ~row[w].exists => row[w] = NoRow
    /\ row[w].status = "processing" => row[w].token # NoToken

\* A worker that is done with its pages has not left its row in processing.
DoneOK ==
  \A x \in Worker :
    /\ run[x].pc = "final" => run[x].err = run[x].missed
    /\ Owns(x) /\ run[x].pc \in {"final", "cleanup"} /\ ~run[x].err
         => row[run[x].work].status # "processing"

\* What a worker has behind it is stored; what it is about to store was missing.
PagesOK ==
  \A x \in Worker :
    LET r == run[x] IN
    /\ r.pc \in Before \cup {"load", "detail"} => r.next = 1
    /\ r.pc \in Loaded /\ ~r.missed
         => \A p \in Pages(r.work) : p < r.next => r.view[p] # NoFile
    /\ r.pc \in {"store", "save"}
         => r.next \in Pages(r.work) /\ LooksInvalid(r.view[r.next])
    /\ r.pc = "save" => r.got # NoFile

\* Nothing refers to an upload that does not exist yet.
NoDangling ==
  LET Known(f) == f \in UploadId => upload[f].status # "free"
  IN /\ \A w \in Work, p \in Page : Known(row[w].files[p])
     /\ \A x \in Worker : Known(run[x].got) /\ \A p \in Page : Known(run[x].view[p])

Inv == /\ TypeOK
       /\ TokensOK /\ RowsOK /\ DoneOK /\ PagesOK /\ NoDangling
       /\ HolderViewFresh /\ SuccessIsComplete

-----------------------------------------------------------------------------
\* The executions, seen through the rows and the removed uploads only.
Kept == [w \in Work |-> [exists |-> row[w].exists, detail |-> row[w].detail,
                         files |-> row[w].files]]

Archive == INSTANCE MirrorArchive WITH
  archive <- Kept,
  removed <- {u \in UploadId : upload[u].status = "deleted"}

\* Whatever workers, crashes, lapsed leases and deletions do, a mirror behaves
\* like the archive of section 8.2: it only grows until the user deletes it.
ArchiveOnlyGrows == Archive!ASpec
=============================================================================
