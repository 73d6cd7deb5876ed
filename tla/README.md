# A formal model of PixivSync

PixivSync (the Go module `Rain-kl/Wavelet` with the `pixez` application) keeps
private backups ("mirrors") of Pixiv works.  This directory holds TLA+ models of
its concurrent core, TLC configurations that check them on small instances, and
TLAPS proofs of the theorems that hold for every instance.

All paths below are relative to the repository's root; `pixez/` abbreviates
`src/internal/service/pixez/`, `api/` abbreviates `src/internal/apps/pixez/`, and
a path that begins otherwise is below `src/internal/`.

## 1. The system

| part | state it keeps | operations | talks to |
|---|---|---|---|
| mirror execution (`pixez/mirror.go`, `pixez/mirror_safety.go`) | a row per work: detail JSON, image-file list or text, status, execution token, lease | queue, process, heartbeat, release, delete | task framework, uploads, Pixiv, bookmarks |
| artist directory and subscription (`pixez/artist_scan.go`, `api/artist_tasks.go`) | subscription row (switch, revision, reservation, due time), runs (status, token, lease, cursor), works (last run that saw them, not-returned mark) | switch, reserve, scan a page, index, arrange mirrors, finish, fail, due check | Pixiv, task framework, mirrors |
| bookmark export and auto-enqueue (`pixez/bookmarks.go`, `api/tasks.go`) | bookmark rows stamped with the last run, mirror status | export, mark missing, enqueue mirrors | Pixiv, mirrors |
| Pixiv client and synchronised data (`pixez/client.go`, `api/routers.go`) | access and refresh tokens; histories, tags, bans of an account | exchange a token, replace tables, import, delete the account | Pixiv, apps on phones |
| task framework and scheduler (`task/`) | `w_task_executions`, log lines in Redis, schedules | dispatch, deliver, execute, record, flush, retry by hand, reload | Asynq (Redis) |
| upload store (`apps/upload/`) | `w_uploads`, statistics, objects in a backend, storage settings | ingest, remove, rebuild statistics, migrate, serve | object storage, Redis |
| caches (`apps/*/cache.go`, `repository/*_cache.go`, `src/pkg/cache/`) | copies of rows in memory, in Redis, of images on disk | look up, fill, invalidate, broadcast, expire, evict | database, Redis |
| platform (`apps/oauth`, `apps/user`, `apps/cap`, `apps/admin`) | users, identities, sessions, tokens, captcha nonces, push events and channels, settings, the program itself | login, bind, edit, redeem, notify, upgrade | database, Redis, services on the internet |
| access log (`db/batchwriter`, `apps/risk_control`) | a bounded queue in memory | enqueue, flush, stop | database |

The parts meet in the database and through tasks: a scan dispatches mirror tasks;
mirror tasks are delivered at least once, in any order and to several workers;
uploads found by hash are shared between mirrors; request handlers run beside all
of them, in several processes that keep copies of the same rows.

### What is hard

* **Concurrency.** No lock is held across statements.  Ownership is a token plus
  a lease in a row, and every protected write is `UPDATE ... WHERE token = ?`.
* **Crashes.** A worker may die after any statement; the page list, the cursor,
  the record and the lease it leaves behind must be usable by the next attempt.
* **Time.** Leases, locks, nonces and copies run out under a process that is still
  alive.
* **Check-then-act, whole-row saves.** Completeness, a hash, a count, a row are
  read in one statement and acted on in a later one.
* **Partial failure.** Some pages of a work, objects of a batch, or statements of
  a request fail.
* **Several stores.** The record of a task is in the database, its message and its
  log in Redis; a row is in the database, its copies in Redis and in memories.

`PROJECT.json` lists the hazards line by line with the properties that cover them.

## 2. Modules

| module | what it models | proofs |
|---|---|---|
| `MirrorWork` | mirror tasks, one action per database access | `MirrorWorkProofs` |
| `MirrorArchive` | what a mirror promises: an archive that only grows | `MirrorWorkRefinement` |
| `ArtistScan` | subscription, scan runs and directory of one artist and one kind | `ArtistScanProofs` |
| `BookmarkSync` | bookmarks of one Pixiv account: exports, removal marks, automatic enqueueing | `BookmarkSyncProofs` |
| `TaskExecution` | dispatch, delivery, record, log and retry of tasks | `TasksProofs` |
| `TaskSchedules` | schedules and the schedulers that processes rebuild from them | `TasksProofs` |
| `PushNotify` | push events and channels, and the notifications sent | `TasksProofs` |
| `UploadStore` | uploads of one content, their shared objects, the statistics | `FilesProofs` |
| `StorageMigration` | migration between backends beside uploads in flight | `FilesProofs` |
| `DiskCache` | files, index and eviction order of the disk cache | `FilesProofs` |
| `FileServing` | requests for a compressed image | `FilesProofs` |
| `TableWalks` | paged lists, batch walks, the dashboard's counts | `FilesProofs` |
| `PixivAccount` | the exchange of an account's tokens | `CachesProofs` |
| `SyncData` | transactions that replace synchronised tables | `CachesProofs` |
| `SettingsCache` | copies of settings in every process | `CachesProofs` |
| `RowCaches` | copies of users, tokens, uploads, sources, push rows, issuers, captcha settings, whitelist | `CachesProofs` |
| `Accounts` | accounts and the external identities bound to them | `ServerProofs` |
| `Sessions` | login, sessions, access tokens, the change of the password | `ServerProofs` |
| `Captcha` | challenge, redemption, token | `ServerProofs` |
| `AccessLogWriter` | the queue, batches and shutdown of the access log | `ServerProofs` |
| `Updater` | the program that replaces itself | `ServerProofs` |

Instances for TLC are `MC_MirrorWork`, `MC_MirrorHistory` (with a history
variable), `MC_ArtistScan`, `MC_StorageMigration`, and four *suites*,
`MC_Progress`, `MC_Tasks`, `MC_Files` and `MC_Server`.  A suite takes several
modules that share no state.  Its variable `focus`, chosen in the first state,
picks the module that takes the steps while the others stay as they began: every
behaviour of the suite is a behaviour of one module, and the states are those of
each and not of their product.  A property `X` of a suite is the module's `X`,
with the module's `TypeOK` where it is an invariant.  Proofs about these modules
extend the suite, prove the module's invariant for the module's own specification,
and conclude `SuiteSpec => []X`.

Throughout, a database statement or transaction, an access to Redis, to a memory
or to an object is one step, and everything a process does in between belongs to
it.  The code runs on SQLite (one connection) or PostgreSQL; transactions are
atomic except in `SyncData`, which is about what happens inside them.

### MirrorWork and MirrorArchive

`row[w]` is the mirror row of work `w`, `upload[u]` a row of `w_uploads`, `run[x]`
what Asynq worker `x` is executing (its program counter and its local variables),
`deletion` the delete request of an administrator.  A worker goes through
`Deliver`, `EnsureRead`, `EnsureQueued` (`EnsureMirror*Queued`), `PassGate`
(`waitMirrorConcurrencyLimit`), `CheckNeeded` (`MirrorNeedsWork`), `Claim`
(`runProtectedMirror`), `LoadSnapshot`, `SaveDetail` (`loadMirrorIllustSnapshot`),
the page loop `ReusePage` / `FetchPage` / `StorePage` / `SavePage` / `MissPage`
(`fillMirrorIllust`), `Finish`, `Close` and `Cleanup`; `Heartbeat` runs beside it,
`FailBefore`, `FailFill` and `Crash` end it anywhere.

* Time is the steps `LapseLease` and `Age`: a lease may run out at any moment,
  whatever the heartbeat does, which includes paused processes.
* Tokens are numbers drawn in order (`uuid.NewString` never repeats).  A detail
  snapshot is trusted or absent; an image is its hash; a file list is a function
  from pages to upload ids.  A novel has a single part, its text (`Inline`).
* `StorePage` may store any of the images served for the page, also one whose
  hash has become live since it was looked up, as nothing stops two workers that
  both found none.
* One deletion request at a time; it proceeds statement by statement.
* `ReadsMayFail` says whether a failing COUNT may be taken for a missing file
  (`validMirrorFile` drops the error).
* The mirror's effects on bookmark rows and the artist directory are left out
  (`BookmarkSync` and `ArtistScan` have their other ends).

`MirrorArchive` knows only what each work keeps: content is added once, replaced
only where its upload is gone, and deleted by the user.

### ArtistScan

`sub` is the subscription row, `scan[r]` the run row `r`, `work[w]` a directory
row, `proc[x]` what worker or caller `x` executes.  Callers reserve (`Create`,
`CheckDue`) and dispatch (`Dispatch`: queued, lost, or queued but reported lost);
workers `Read`, `Claim`, choose the `Account`, and loop over `RenewRun`,
`RenewSub`, `Fetch`, `Index`, `Arrange`, `Save`, until `Finish` or `Cancel`, then
`Release`; a failure goes through `FailRead`, `FailRun`, `FailSub` and for callers
`Redue`.  `SetSubscription` switches at any moment.

The catalogue does not change during the run and its pages come in order; the
works of a page are taken in any order; `arranged` says that the work was found
backed up or that a mirror task was sent; a delivery's number is its token; the
final attempt of a task is a free choice (`TaskExecution` has the counter).

### BookmarkSync

`shelf` and `hidden` are the environment: what Pixiv lists as bookmarked and what
it shows with a placeholder.  `row[w]` is the bookmark row of a work, `saved` the
account's row.  `export[x]` is what export worker `x` executes: `ReadUser`,
`Start`, `Fetch` (a page), `Look` and `Write` for each work of it, `MarkMissing`
and `CloseRun`; `FailExport` ends it anywhere.  `feed[f]` is an execution of the
automatic enqueueing (`Load`, `Dispatch`, `Note`), `queued` the works a mirror task
waits for, and `mine[m]` a mirror task of which only the outcome is kept.
`Bookmark`, `Unbookmark`, `Hide`, `Show`, `SaveUser`, `DeleteUser`, `Request` and
`DeleteMirror` happen at any moment.

One account, one kind, one restrict.  Pixiv's cursor is the set `older` of works
still to come, a page any `PageSize` of them.  `last_export_run_id` is only
compared with the running export's id, so that `stamp` is the worker whose current
run wrote the row.  The export-run rows, the retry counter, `removed_at` and the
order of the candidates are left out.  `steady` is a history variable.

### TaskExecution and TaskSchedules

`row[t]` is the execution record, `msg[t]` the Asynq message, `sender[t]` the call
that dispatches or retries, `run[t]` the worker's call of `ProcessTask`, `buf[t]`
and `stored[t]` the log in Redis and in the column.  A task `<<r, n>>` is the
`n`-th retry by hand of `r`.  `DispatchTask` and `RetryTask` write the row, then
enqueue, then log; the scheduler's `Fire` enqueues without a row; an attempt goes
through `Load`, `Begin`, `Execute`, `Record`, `Flush`, `ClearBuffer`, `Return`, and
`Cut` ends it anywhere (a crash, a time-out, a lost lease of Asynq's).  `astray`
marks tasks whose last attempt or dispatch left no true record, which the
properties leave out.  Log lines are the kinds that tell the attempts apart.

In `TaskSchedules` every process reloads its scheduler after a change of the table
(`ReloadScheduler`, under a mutex: `Shutdown`, `LoadSchedules`, `StartNew`);
`stale` are the processes whose table was changed by another one, which nothing
tells them.

### PushNotify

`event` and `channel` are the rows, `req[a]` an administrator's request between
its read and its write, `mixed` the mark of a toggle that overlapped an update.
`left` are the channels a triggered event has still to be sent to, `note[c]` the
task that sends through channel `c`: its attempts, how often the message left,
whether an answer was lost, and the history's lines.  Each sender's verdict
(`CustomTakes`, `LarkTakes`, `TelegramTakes`, `EmailTakes`) is an operator of its
own.  Messages and templates are left out.

### UploadStore, StorageMigration, DiskCache, FileServing

`UploadStore` looks at uploads of one content.  `call[c]` stores an object or finds
one by hash, writes row and counter in a transaction, and deletes the object when
that fails; removals read the row before their transaction; `RebuildUploadStats`
counts anew.  `twice` and `taken` record the two known gaps: an upload counted as
removed twice, an object deleted on behalf of a failed upload that shared it.
The cleanup of pending uploads finds none, since nothing asks `Ingest` for that
status.

`StorageMigration` has objects in the order of their keys, `at[b]` what backend
`b` holds under which key, the `worker` with its cursor and its page, the Redis
lock (which may lapse), the execution record that makes the store read-only, and
uploads that act on a cached answer (`view`).  There may be any set of backends.
`crossed` are uploads that ran beside a dispatch or a change of driver, which the
code does not promise to move; `waived` says that a failed migration was declared
resolved, or followed by one to another backend, which the code does not protect.

`DiskCache` is the cache under its mutex, with the read of `Get` outside it; a
value stands for its size.  `order` is the list of tracked keys as the pairs of a key
and one behind it, and a sum of sizes is the number of the bytes counted: with
neither a sequence nor a recursive sum, the account can be proved.  `FileServing`
is one upload in one quality, with requests that join the flight of another, whose
client may leave.

### TableWalks

A row is its key, `order` what one statement would return.  A `walk` counts and
then reads page after page, or batch after batch behind a cursor, while rows enter,
leave and move as each list's `List` record allows; the dashboard counts bookmarks
status by status.  The record per list (how it is sorted, where rows enter, whether
they leave) is what is taken from the handlers.

### PixivAccount, SyncData

`PixivAccount` numbers the exchanges; a call reads the row, asks Pixiv, reloads,
exchanges, and stores what it got.  Pixiv either revokes a refresh token with every
exchange or never.  `SyncData` has PostgreSQL's READ COMMITTED: a DELETE sees what
was committed when it began and waits for rows another transaction is deleting.

### SettingsCache, RowCaches

Both have copies that a late reader may fill after an invalidation.  In
`SettingsCache` copies never expire, are refilled key by key, and broadcasts go
through queues that a restart loses; `overtaken` records who was overtaken.
`RowCaches` treats eight kinds of rows with one machine, `kind` chooses which, and
a copy is `fresh`, `stale` (the row has changed, the copy's removal is still due)
or `late` (its removal has been missed).  The operators named after the source's
functions (`GetCachedUser`, `GetUploadByID`, `InvalidateCachedToken`, ...) say which
steps a kind has and in which order.

### Accounts, Sessions, Captcha

`Accounts` has requests that count, read and write users, identities and e-mail
codes in separate statements; names and passwords are not told apart.  `Sessions`
has one user, whose password is the number of those there have been; a session
keeps the password's number, as the code keeps its hash; the cache of the user is
one copy that may be missing, and `old` when a request wrote it that had read the
row before a change.  `Captcha` has a bounded clock and a store that forgets an
entry at its time or just after it.

### AccessLogWriter, Updater

`AccessLogWriter` has the channel, the goroutine with its batch, requests between
their check and their send, calls of `Stop`, and the shutdown of the process.
`Updater` has paths (the program and its `.old` copies), the process and the
goroutine of the upgrade; `harmed` records a failure after which the installed
program may not start.

## 3. What the runs check

| run | instance | shows |
|---|---|---|
| `mirror_safety` | an illustration of 2 pages or a novel, 2 workers, 3 uploads, 2 claims | `HolderViewFresh`, `SuccessIsComplete`, `ProcessingCanBeReclaimed`, the inductive invariant `Inv` (with the types), and that `MirrorArchive` is implemented (`ArchiveOnlyGrows`) |
| `artist_resume` | 2 pages, 1 run, 2 deliveries, 2 workers, 1 switch | `SuccessCoversAll`, `SuccessIsFinal` |
| `artist_ends` | 2 runs, 2 switches, 1 worker, 1 caller, fairness | `ReservationIsCurrent`, `ReservationEnds` |
| `progress` | exports of 2 works on pages of 1; one work with exporter, feeder and mirror worker; 2 novels and 1 slot; fairness | `SteadyIsKept`, `ListedIsShown`, `GoneIsRemoved`, `EveryCandidateIsOffered`, `SlotIsGranted` |
| `tasks` | a task and a retry, 2 attempts each; 2 processes with 2 calls each; 2 overlapping requests on an event and a channel; a notification with a retry | `RecordAgrees`, `OutcomeIsKept`, `QueuedIsSettled`, `ReloadCatchesUp`, `EnabledHasChannels`, `HistoryIsHonest` |
| `files` | 3 uploads by 2 calls; 3 backends, 2 objects, 2 migrations, 2 faults; 2 keys and 1 reader; 3 requests; 4 rows on pages of 2, 3 bookmarks | `StatsFollow`, `UsedIsStored`, `MigratedIsReadable`, `OnlyMissingIsMarked`, `DiskIsAccounted`, `ServedWasThere`, `MadeOnce`, `MissedIsExplained`, `ShareIsAShare` |
| `server` | 3 log items, a queue and batches of 2; 2 processes; 2 requests at a time; 3 transactions on 2 tables; 3 versions | `StopMeansFlushed`, `StaleWasOvertaken`, `StoredIsLive`, `LastReplaces`, `SomeGoesOn`, `OldCopiesGo`, `UndoneByOverlapOnly`, `IdentityLeadsSomewhere`, `SessionsEnd`, `RedeemedOnce`, `UpgradeIsRecoverable` |
| `mirror_downgrade`, `mirror_misread`, `artist_missing`, `bookmark_overlap`, `storage_resolved` | as small as the case allows | claims of the documents that the code does not keep (section 5) |

Several properties name an exception (`mixed`, `taken`, `twice`, `overtaken`,
`late`, `harmed`, `unheard`, `lost`, `crossed`, `waived`, `torn`).  The exception is
what the code really lets happen, made precise: a history variable is set by the
steps that cause it and by no other, and the property says that nothing else goes
wrong.

**Bounds.** Two workers, calls or processes are the smallest number that races; a
third adds another loser of the same race, since ownership is one token, one row or
one lock.  Two pages give a page before and a page after a crash; two claims a
stale and a current token; three uploads a page's upload and its replacement, or
two that share an object and one that is removed.  Two runs and two switches give a
reservation that is lost, taken over and lost again.  In `RowCaches` one request
writes at a time, as writers of a row only add removals, and two processes give
one that hears and one that does not.  Two requests of `PushNotify` may overlap, as
`gone` records deletions between the read and the write of one of them.  In
`TableWalks` four rows on pages of two with two writes shift a page boundary once
in each direction.  The clock of `Captcha` goes to 5 with life times of 3 and 2,
so that both run out; an access-token limit of 1 with three tokens exceeds it;
three exchanges give `PixivAccount` a token that is spent, its successor and the
successor's; three transactions on two tables may close a circle; three versions
and three paths a second upgrade after a failed one.  A queue and a batch of 2 with
three items fill the queue and leave a batch half full.  Counters bounded in guards:
`MaxToken`, `MaxRun`, `MaxTries`, `MaxRevision`, `MaxRetry`, `MaxTurn`, `MaxTurns`,
`MaxFaults`, `MaxFills`, `MaxQueue`, `MaxWrites`, `MaxPassword`, `MaxTime`, `MaxPath`.

**Deadlock** is checked but for three cases.  In `ArtistScan` the bounded numbers
of runs, deliveries and switches are used up, and a disabled subscription without a
due scan may rest.  In the suites `Tasks` and `Files` tasks end, and the bounded
turns, faults and writes are used up.

**Symmetry** is used in safety runs only (workers, works and upload ids are
interchangeable), never where liveness is checked.

**Fairness.** `SlotIsGranted`: a worker waiting for a slot keeps polling
(`waitMirrorConcurrencyLimit`, every two seconds) and time passes (`Age`); nothing
is assumed of the workers that hold the slots.  `ReservationEnds`: time passes
(`LapseSub`, `FallDue`) and the due check is scheduled (cron, every five minutes)
and its caller executes its steps; workers need not do anything.  The bookmark
properties: exports and the enqueueing are started again and again (schedules,
daily and every ten minutes), and a task goes on or fails.  It may fail every time,
so `ListedIsShown` and `GoneIsRemoved` speak of behaviours in which exports keep
coming to their end, and `EveryCandidateIsOffered` needs that the queue does not
refuse a work for ever although executions reach it again and again (SF of
`Dispatch`).  `QueuedIsSettled`: Asynq delivers what is queued and a worker goes on
or is cut off (WF of `Deliver` and `Processing`).

**Mutants.** Each property of a passing run has a mutated definition in the module
it speaks about, marked as a mutant there: a dropped guard, an unprotected write, a
reset that is forgotten, a swapped order.  With it in the place of the original TLC
refutes the property, so that none of them holds by the shape of the model.

## 4. What is proved

Every invariant and every action property of a passing run is stated by a theorem,
for every value of the constants that meets the modules' named assumptions:
`ConstantsOK`, `ScanConstantsOK`, `BookmarkConstantsOK`, `MigrationAssumption`,
`MaxRetryIsNat`, `MaxTurnIsNat`, `MaxFaultsIsNat`, and the `ConstantsFit` of
`MC_Tasks`, `MC_Files` and `MC_Server`, which collect those of their modules (bounds
are natural numbers, sets that are counted are finite, default elements are
elements).  An invariant is proved by one lemma for each action, from an inductive
invariant whose parts are named here.

**`MirrorWorkProofs`**: `Spec => []Inv`.  That the owner's view equals the row
(`HolderViewFresh`) needs that a token is written by one claim only, is held by
one worker and sits on that worker's row only (`TokensOK`).  That success implies
a stored part for each page needs that every page behind the loop's position is
stored in the view (`PagesOK`).  That a row in `processing` can be claimed again
needs that token and lease go together and that an owner in its release has
finished or failed (`RowsOK`, `DoneOK`).

**`MirrorWorkRefinement`**: every step of `MirrorWork` is a step of
`MirrorArchive` or leaves the archive unchanged, under `~ReadsMayFail`.  The two
steps that matter are `SavePage` and `Finish`, which write the whole list of
files: only because the owner's view is the row's list does this change the one
missing page, or nothing.  Without the assumption the theorem is false
(`mirror_misread`).

**`ArtistScanProofs`**: types, `ReservationIsCurrent`, `SuccessCoversAll`,
`SuccessIsFinal`.  `UpTo(r, c)` says that the works of the pages before `c` are
indexed, and arranged if `r` downloads.  The invariant carries it from the page
being worked on (`ProcsOK`) over the saved cursor (`ScansOK`) to the success
(`SuccessOK`); deliveries never share a token (`TokensOK`), so that no cursor but
the owner's is saved; nobody scans for a run that has succeeded and still owns it
(`SettledOK`).

**`BookmarkSyncProofs`**: types without condition, and under `[]Alone` (exports
of the account do not overlap) the invariant behind `SteadyIsKept`: what Pixiv
listed all along is ahead of the cursor, on the page, being saved, or stamped
(`SteadyOK`), and at the end of the list nothing is ahead (`CursorOK`).  Without
`Alone` the property is false (`bookmark_overlap`).

**`TasksProofs`**
* `TaskExecution`, `IInv`: `RecordAgrees`, `OutcomeIsKept`, for any number of tasks,
  retries, turns and faults.  The message and its worker go together (`PlaceOK`), a
  worker past its read has a record unless it is astray (`RecordOK`), the outcome of
  the attempt is in the buffer until it has been copied (`LogOK`), and this survives
  the end (`SettledOK`).
* `PushNotify`, `PushInv`: `EnabledHasChannels`, `HistoryIsHonest`, for any number
  of channels and administrators (that the model tells exactly which deletions fell
  between a read and a write is argued for two requests only, the bound above).
  A row about to be saved is valid; one about to be toggled lists the channels it
  listed when it was read, unless it is gone or a save came between (`PushEditOK`).
  What was sent twice, or sent and tried again, had an answer lost (`PushNoteOK`).
* `TaskSchedules`, `SchedInv`: `ReloadCatchesUp`.  The reload that holds the
  mutex has read the table as it is, unless another one is to follow
  (`ReloadIsCurrent`).

**`CachesProofs`**
* `RowCaches`, `RowInv`: types and `OldCopiesGo`, for any number of processes.  A
  reader that is about to fill a copy must be counted like a copy: what it holds is
  no older than what may still be there (`RowNodeOK`, `RowRedisOK`), and kinds without
  a memory or without Redis have nothing there (`RowPlaceOK`).
* `PixivAccount`, `AccInv`: `StoredIsLive`.  What a call has read is known; the
  refresh token it was answered is good, and known to nobody else before it is
  stored (`AccOK`); no two calls were answered the same one (`AccApart`).
* `SyncData`, `SynInv`: `LastReplaces`, `SomeGoesOn`.  Tables are deleted from
  in one order (`SynOrder`), so that the transaction that waits for the last of them
  waits for nobody; a row that a transaction has not deleted, nor will, was put there
  beside it (`SynSees`).
* `SettingsCache`, `SetInv`: `StaleWasOvertaken`.  A copy that differs from its
  row was overtaken, or the change is on its way to the process or about to be
  (`SetKey`).

**`FilesProofs`**
* `UploadStore`, `UploadInv`: `StatsFollow`, `UsedIsStored`, for any number of
  uploads, calls and failures.  Calls make different uploads, what a call is about to
  record is stored, rows name objects of known uploads, and a counter that is not
  there counts nothing.
* `StorageMigration`, `MoveInv`: `MigratedIsReadable`, `OnlyMissingIsMarked`, for any
  set of backends and any number of objects, batches, migrations and faults.  A live
  file is in the active backend or, until the migration has ended, in its target,
  under the row's key, and what the scan has passed is in the target (`MoveFileOK`);
  what the worker copied is there (`MoveWorkerOK`); and an upload beside which nothing
  ran puts its file where it will be looked for (`MoveCallOK`).
* `DiskCache`, `DiskInv` and `DiskAccounts`: `ServedWasThere` and `DiskIsAccounted`,
  for any number of keys, sizes and readers.  The account needs that the order lists
  exactly the tracked keys and that the size kept is their sum; that an eviction
  leaves no more than the limit follows from the last key it keeps: all keys behind it
  are gone, and it was kept because the sum without them was within the limit.
* `FileServing`, `ImageInv`: `MadeOnce`; one request at a time leads, has found
  nothing kept, and nobody waits when nobody leads.
* `TableWalks`, `DashInv` and `WalkInv`: `ShareIsAShare`, `MissedIsExplained`, for
  lists, pages and batches of any size.  A row of a list by pages that has not been
  seen stands behind the offset, since rows only move towards the end unless one has
  left or moved; one of a walk with a cursor stands beyond the cursor
  or has left.

**`ServerProofs`**
* `Captcha`, `CaptchaInv`: types and `RedeemedOnce`, for any life times.  A nonce
  about to be set lasts as long as the challenge (`CaptchaNonceLastsOn`), and so does
  one that was set (`CaptchaNonceLasts`).
* `Accounts`, `AcctInv`: `IdentityLeadsSomewhere`, `UndoneByOverlapOnly`.  What a
  request has read still holds, or somebody overlapped it.
* `Sessions`, `SessInv`: `SessionsEnd`.  What was read of the row before a change of
  the password, by a request or into the cache, is known to be old once the change is
  done.
* `Updater`, `UpInv`: `UpgradeIsRecoverable`.  The file of the running program is
  kept (`UpKept`), an upgrade has moved it aside or not and put the new one there or
  not (`UpJobOK`), and while nothing has gone wrong the program runs from where it is
  installed, or is being replaced there (`UpUnharmed`).
* `AccessLogWriter`, `LogInv`: `StopMeansFlushed`.  What was accepted is in the
  channel, in the batch or handed over, in one place (`LogPlaced`), and the goroutine
  ends when nothing more can come (`LogEnds`).

**Only model-checked:** `SlotIsGranted`, `ReservationEnds`, `ListedIsShown`,
`GoneIsRemoved`, `EveryCandidateIsOffered` and `QueuedIsSettled`, since liveness under
fairness and ENABLED are out of the prover's reach, and the five runs of section 5.

## 5. Where the code and the documents disagree

1. `docs/design/artist-subscriptions.md:186`: a complete backup is never degraded
   to failed.  `pixez/mirror_safety.go:145` writes failed on whatever row the token
   owns; a worker whose completeness check is stale owns a complete one
   (`mirror_downgrade`).
2. `docs/design/artist-subscriptions.md:180`: an existing snapshot is not replaced
   by a new response.  `pixez/mirror_safety.go:37` takes a failed read for a missing
   file (`mirror_misread`).
3. `docs/design/artist-subscriptions.md:165`: only works a complete scan did not
   return are marked.  `pixez/artist_scan.go:271` lets the worker of a replaced run
   stamp works after the current one did (`artist_missing`).
4. `README.md:175`: only what a complete round did not return is marked as
   removed.  `pixez/bookmarks.go:436` compares with the last run that stamped the
   row, which may be another export running at the same time (`bookmark_overlap`).
5. `apps/admin/system_config/logics.go:123` declares a failed migration resolved
   when the storage settings are saved; files whose keys the migration rewrote
   cannot be read then (`storage_resolved`).

Met on the way, and part of the models, without a run of its own:

* The concurrency limit of mirrors is counted in one statement and taken in a later
  one (`pixez/mirror.go:573`), so that more than the limit may run.
* The auto-enqueue writes processing over the worker's answer (`api/tasks.go:478`);
  such a bookmark is never offered again.
* `TryEnqueue` after `Stop` sends on a closed channel and panics, where its comment
  (`db/batchwriter/writer.go:126`) says it returns false.
* The migration's last attempt, cut off, leaves its execution running: uploads stay
  refused and no other migration may be dispatched.
* A migration may be dispatched to a third driver after one that failed
  (`apps/upload/task/storage_migration.go:187` refuses only pending and running ones).
  Of a file whose key the failed one rewrote, it looks in the source under the
  rewritten key, finds nothing, and marks the uploads deleted as missing
  (`:268`), although the source (under the old key) and the first target hold it.
* The failure of an upload that was found by hash deletes the object it shares with
  a live one (`apps/upload/ingest/helpers.go:107`).
* Every process that serves the API reloads a scheduler of its own after a change
  of the schedules, so that a schedule may fire in several processes.
* A push channel that is created disabled is stored enabled (the column's default
  replaces the zero value).
* The task that sends notifications itself ends in the event "task completed".

## 6. Not modelled, and why

* **Object storage backends** are I/O behind Put, Get and Delete; what matters of
  them, the key they answer with, is in `StorageMigration`.
* **Risk control rules** and **other administration handlers** (database console,
  logs, templates, status) are queries and validation, without a protocol of
  several steps.
* **Bootstrap, schema migrations and connections** run before anything else does.
* **Legacy import of mirrors and accounts**: an administrator's one-off action that
  upserts whole rows and ignores tokens and leases of running mirrors; its
  transaction over the synchronised tables is in `SyncData`.
* **Retry counters and order of bookmark candidates** need a clock in every row;
  with more failing bookmarks than the limit, the older ones may starve.
* **A scan's redelivery before the lease of a crashed one runs out** ends as a
  success without scanning; that the scan itself is resumed is not promised, only
  that its reservation ends.
* **Message texts, templates, signed addresses, byte ranges, image codecs, the
  front end, generated API documentation and third-party libraries.**
* **Induction over data** is out of the prover's reach.  No module that is proved
  about computes anything by recursion: sums are numbers of elements, orders are
  sets of pairs, batches are told by how many rows come before them.
