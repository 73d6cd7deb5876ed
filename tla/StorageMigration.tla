--------------------------- MODULE StorageMigration ---------------------------
(***************************************************************************)
(* The migration of stored files from the active backend to another        *)
(* (src/internal/apps/upload/task/storage_migration.go) against the        *)
(* uploads that other processes have in flight (ingest/helpers.go) and the *)
(* read-only state and the active backend they cache (storage/*.go).       *)
(* Objects are numbered in the order of their keys: the migration walks    *)
(* them page by page with a cursor, the objects of a page all at a time.   *)
(***************************************************************************)
EXTENDS Integers, FiniteSets

CONSTANTS
  Count,      \* objects are 1 .. Count
  BatchSize,  \* of a page
  Backend,    \* storage backends, of different drivers
  Prefixing,  \* those configured to keep every key under a prefix
  First,      \* the backend that is active at the start
  MaxFaults,  \* bound on failed calls, crashes and lapsed locks
  MaxTurns    \* bound on dispatched migrations

ASSUME MigrationAssumption ==
  /\ Count \in Nat /\ BatchSize \in Nat \ {0} /\ First \in Backend
  /\ MaxFaults \in Nat /\ MaxTurns \in Nat

VARIABLES
  active,  \* driver of the stored configuration
  at,      \* objects in each backend, by the key they are kept under
  row,     \* w_uploads: status and file_path
  task,    \* the latest migration execution: its status and target
  worker,  \* the Execute call: where it is, source, cursor, page, what of it is copied or failed
  locked,  \* lock:storage:migrate
  view,    \* the uploading process's cached answers: read-only, backend
  call,    \* uploads in flight: where they are, the backend they took
  admin,   \* a change of driver in the settings, between its check and its save
  crossed, \* uploads that a migration or a change of driver ran beside
  waived,  \* a failed migration was declared resolved, or another target was tried after it
  turns, faults

vars == <<active, at, row, task, worker, locked, view, call, admin, crossed, waived, turns, faults>>

Object == 1 .. Count
Key    == {"plain", "prefixed"}

\* s3Backend.key: idempotent; localBackend keeps a key as it is.
KeyAt(b, k)  == IF b \in Prefixing THEN "prefixed" ELSE k
Has(b, o, k) == <<o, KeyAt(b, k)>> \in at[b]
Live(o)      == row[o].status = "live"

Settled  == task.status \in {"none", "succeeded"}
ReadOnly == ~ Settled
Idle     == [at |-> "idle", source |-> First, cursor |-> 0, page |-> {}, copied |-> {}, failed |-> FALSE]

TypeOK ==
  /\ active \in Backend
  /\ at     \in [Backend -> SUBSET (Object \X Key)]
  /\ row    \in [Object -> [status : {"none", "live", "deleted"}, key : Key]]
  /\ task   \in [status : {"none", "pending", "running", "failed", "succeeded"}, target : Backend]
  /\ worker \in [at : {"idle", "locked", "scan", "switched"}, source : Backend, cursor : 0 .. Count,
                 page : SUBSET Object, copied : SUBSET Object, failed : BOOLEAN]
  /\ locked \in BOOLEAN
  /\ view   \in [readOnly : {"unknown", "yes", "no"}, backend : SUBSET Backend]
  /\ call   \in [Object -> [at : {"idle", "allowed", "chosen", "stored"}, backend : Backend]]
  /\ admin \in SUBSET Backend /\ crossed \in SUBSET Object /\ waived \in BOOLEAN
  /\ turns \in 0 .. MaxTurns /\ faults \in 0 .. MaxFaults

Init ==
  /\ active = First
  /\ at     = [b \in Backend |-> {}]
  /\ row    = [o \in Object |-> [status |-> "none", key |-> "plain"]]
  /\ task   = [status |-> "none", target |-> First]
  /\ worker = Idle
  /\ locked = FALSE
  /\ view   = [readOnly |-> "unknown", backend |-> {}]
  /\ call   = [o \in Object |-> [at |-> "idle", backend |-> First]]
  /\ admin = {} /\ crossed = {} /\ waived = FALSE /\ turns = 0 /\ faults = 0

Fault == faults < MaxFaults /\ faults' = faults + 1

-----------------------------------------------------------------------------
(* An upload: createNewUpload, storeObject and the row.                    *)

\* LoadMigrationAccessState: the cached answer, or the latest execution row.
AskReadOnly(o) ==
  LET known == view.readOnly # "unknown"
      says  == IF known THEN view.readOnly ELSE IF ReadOnly THEN "yes" ELSE "no"
  IN /\ call[o].at = "idle" /\ row[o].status = "none"
     /\ view' = [view EXCEPT !.readOnly = says]
     /\ call' = [call EXCEPT ![o].at = IF says = "no" THEN "allowed" ELSE "idle"]
     /\ crossed' = IF says = "no" /\ (ReadOnly \/ admin # {}) THEN crossed \cup {o} ELSE crossed
     /\ UNCHANGED <<active, at, row, task, worker, locked, admin, waived, turns, faults>>

\* storage.Active: the cached backend, or the stored configuration.
ChooseBackend(o) ==
  /\ call[o].at = "allowed"
  /\ view' = [view EXCEPT !.backend = IF @ = {} THEN {active} ELSE @]
  /\ \E b \in view'.backend : call' = [call EXCEPT ![o] = [at |-> "chosen", backend |-> b]]
  /\ UNCHANGED <<active, at, row, task, worker, locked, admin, crossed, waived, turns, faults>>

PutObject(o) ==
  LET b == call[o].backend IN
  /\ call[o].at = "chosen"
  /\ at' = [at EXCEPT ![b] = @ \cup {<<o, KeyAt(b, "plain")>>}]
  /\ call' = [call EXCEPT ![o].at = "stored"]
  /\ UNCHANGED <<active, row, task, worker, locked, view, admin, crossed, waived, turns, faults>>

\* persistUploadRecord: the row keeps the key the backend answered with.
InsertRow(o) ==
  /\ call[o].at = "stored"
  /\ row' = [row EXCEPT ![o] = [status |-> "live", key |-> KeyAt(call[o].backend, "plain")]]
  /\ call' = [call EXCEPT ![o].at = "idle"]
  /\ UNCHANGED <<active, at, task, worker, locked, view, admin, crossed, waived, turns, faults>>

\* The row cannot be written: the object is deleted from what is active now.
InsertFails(o) ==
  LET b == IF view.backend = {} THEN active ELSE CHOOSE c \in view.backend : TRUE IN
  /\ call[o].at = "stored" /\ Fault
  /\ at' = [at EXCEPT ![b] = @ \ {<<o, KeyAt(b, KeyAt(call[o].backend, "plain"))>>}]
  /\ call' = [call EXCEPT ![o].at = "idle"]
  /\ UNCHANGED <<active, row, task, worker, locked, view, admin, crossed, waived, turns>>

\* AccessCacheTTL and the TTL of storage.Active run out.
Expire ==
  /\ \/ view' = [view EXCEPT !.readOnly = "unknown"]
     \/ view' = [view EXCEPT !.backend = {}]
  /\ UNCHANGED <<active, at, row, task, worker, locked, call, admin, crossed, waived, turns, faults>>

-----------------------------------------------------------------------------
(* The migration.                                                          *)

InFlight == {o \in Object : call[o].at # "idle"}

\* ValidatePayload refuses while the latest execution is pending or running.  After a
\* failed one any target will do, though rows may hold the keys of the one that failed.
Dispatch(b) ==
  /\ task.status \notin {"pending", "running"} /\ b # active
  /\ turns < MaxTurns /\ turns' = turns + 1
  /\ task' = [status |-> "pending", target |-> b]
  /\ crossed' = crossed \cup InFlight
  /\ waived' = (waived \/ (task.status = "failed" /\ b # task.target))
  /\ UNCHANGED <<active, at, row, worker, locked, view, call, admin, faults>>

\* The delivery of the task, or of a retry of it, takes the lock with SetNX.
\* Asynq's retry comes also when the record was declared resolved meanwhile.
Lock ==
  /\ worker.at = "idle"
  /\ \/ task.status \in {"pending", "failed", "running"}
     \/ task.status = "succeeded" /\ waived
  /\ IF locked
     THEN task' = [task EXCEPT !.status = "failed"] /\ UNCHANGED <<worker, locked>>
     ELSE /\ task' = [task EXCEPT !.status = "running"]
          /\ worker' = [Idle EXCEPT !.at = "locked"]
          /\ locked' = TRUE
  /\ UNCHANGED <<active, at, row, view, call, admin, crossed, waived, turns, faults>>

\* SaveActiveConfig, with the eviction it broadcasts.
Activate ==
  /\ active' = task.target
  /\ view'   = [view EXCEPT !.backend = {}]
  /\ worker' = [worker EXCEPT !.at = "switched"]

\* Nothing to copy: the target is active already, or there is no live upload.
SwitchAtOnce ==
  /\ worker.at = "locked" /\ (task.target = active \/ \A o \in Object : ~ Live(o))
  /\ Activate
  /\ UNCHANGED <<at, row, task, locked, call, admin, crossed, waived, turns, faults>>

Scan ==
  /\ worker.at = "locked" /\ task.target # active /\ \E o \in Object : Live(o)
  /\ worker' = [Idle EXCEPT !.at = "scan", !.source = active]
  /\ UNCHANGED <<active, at, row, task, locked, view, call, admin, crossed, waived, turns, faults>>

\* The live rows beyond the cursor, in the order of their keys; no more than a page.
Beyond == {o \in Object : o > worker.cursor /\ Live(o)}
Page   == {o \in Beyond : Cardinality({p \in Beyond : p <= o}) <= BatchSize}
Waited == worker.at = "scan" /\ worker.page = {} /\ worker.copied = {}

NextPage ==
  /\ Waited /\ ~ worker.failed /\ Page # {}
  /\ worker' = [worker EXCEPT !.page = Page, !.cursor = CHOOSE o \in Page : \A p \in Page : p <= o]
  /\ UNCHANGED <<active, at, row, task, locked, view, call, admin, crossed, waived, turns, faults>>

\* migrateSingleObject is over for o; the key it has in hand is the page's.
Over(o) == worker' = [worker EXCEPT !.page = @ \ {o}, !.copied = @ \ {o}]

\* shouldSkipMigration: the target has it.
Skip(o) ==
  /\ o \in worker.page /\ Has(task.target, o, row[o].key)
  /\ Over(o)
  /\ UNCHANGED <<active, at, row, task, locked, view, call, admin, crossed, waived, turns, faults>>

\* Get from the source, Put to the target, and the verification.
Copy(o) ==
  LET b == task.target IN
  /\ o \in worker.page /\ ~ Has(b, o, row[o].key) /\ Has(worker.source, o, row[o].key)
  /\ at' = [at EXCEPT ![b] = @ \cup {<<o, KeyAt(b, row[o].key)>>}]
  /\ worker' = [worker EXCEPT !.page = @ \ {o}, !.copied = @ \cup {o}]
  /\ UNCHANGED <<active, row, task, locked, view, call, admin, crossed, waived, turns, faults>>

\* The row gets the key under which the target keeps the object.
Rekey(o) ==
  /\ o \in worker.copied
  /\ row' = IF Live(o) THEN [row EXCEPT ![o].key = KeyAt(task.target, @)] ELSE row
  /\ Over(o)
  /\ UNCHANGED <<active, at, task, locked, view, call, admin, crossed, waived, turns, faults>>

\* A mutant of MarkMissing: it does not look into the target.
MarkUnlooked(o) ==
  /\ o \in worker.page /\ ~ Has(worker.source, o, row[o].key)
  /\ row' = [row EXCEPT ![o].status = "deleted"]
  /\ Over(o)
  /\ UNCHANGED <<active, at, task, locked, view, call, admin, crossed, waived, turns, faults>>

\* markMissingMigrationObjectDeleted
MarkMissing(o) ==
  /\ o \in worker.page
  /\ ~ Has(task.target, o, row[o].key) /\ ~ Has(worker.source, o, row[o].key)
  /\ row' = [row EXCEPT ![o].status = "deleted"]
  /\ Over(o)
  /\ UNCHANGED <<active, at, task, locked, view, call, admin, crossed, waived, turns, faults>>

\* One object cannot be copied; the others of its page go on.
FailObject(o) ==
  /\ o \in worker.page \cup worker.copied /\ Fault
  /\ worker' = [worker EXCEPT !.page = @ \ {o}, !.copied = @ \ {o}, !.failed = TRUE]
  /\ UNCHANGED <<active, at, row, task, locked, view, call, admin, crossed, waived, turns>>

\* A mutant of Switch: the last page is not waited for.
SwitchUnwaited ==
  /\ worker.at = "scan" /\ ~ worker.failed /\ Page = {}
  /\ Activate
  /\ UNCHANGED <<at, row, task, locked, call, admin, crossed, waived, turns, faults>>

\* There is no other page.
Switch ==
  /\ Waited /\ ~ worker.failed /\ Page = {}
  /\ Activate
  /\ UNCHANGED <<at, row, task, locked, call, admin, crossed, waived, turns, faults>>

\* The deferred Del of the lock, and the executor's record.
Succeed ==
  /\ worker.at = "switched"
  /\ task' = [task EXCEPT !.status = "succeeded"]
  /\ worker' = Idle /\ locked' = FALSE
  /\ UNCHANGED <<active, at, row, view, call, admin, crossed, waived, turns, faults>>

\* An object of the page failed, or a call outside of the pages does.
Fail ==
  /\ \/ Waited /\ worker.failed /\ UNCHANGED faults
     \/ worker.at # "idle" /\ worker.page \cup worker.copied = {} /\ Fault
  /\ task' = [task EXCEPT !.status = "failed"]
  /\ worker' = Idle /\ locked' = FALSE
  /\ UNCHANGED <<active, at, row, view, call, admin, crossed, waived, turns>>

\* The worker dies: lock and row stay as they are.
Crash ==
  /\ worker.at # "idle" /\ Fault
  /\ worker' = Idle
  /\ UNCHANGED <<active, at, row, task, locked, view, call, admin, crossed, waived, turns>>

\* The hour of the lock of a worker that died is over.
LapseLock ==
  /\ locked /\ worker.at = "idle"
  /\ locked' = FALSE
  /\ UNCHANGED <<active, at, row, task, worker, view, call, admin, crossed, waived, turns, faults>>

-----------------------------------------------------------------------------
(* Changes of the storage settings by an administrator.                    *)

\* updateSystemConfig with the driver unchanged: failed migrations are resolved.
UpdateConfig ==
  /\ task.status = "failed"
  /\ task' = [task EXCEPT !.status = "succeeded"]
  /\ waived' = TRUE
  /\ view' = [readOnly |-> "unknown", backend |-> {}]
  /\ UNCHANGED <<active, at, row, worker, locked, call, admin, crossed, turns, faults>>

\* validateMergedStorageConfig lets another driver pass while nothing is stored ...
CheckNoUploads(b) ==
  /\ admin = {} /\ b # active /\ turns < MaxTurns
  /\ \A o \in Object : ~ Live(o)
  /\ admin' = {b} /\ turns' = turns + 1
  /\ crossed' = crossed \cup InFlight
  /\ UNCHANGED <<active, at, row, task, worker, locked, view, call, waived, faults>>

\* ... and the driver is saved afterwards.
ChangeDriver ==
  /\ \E b \in admin : active' = b
  /\ admin' = {}
  /\ view' = [readOnly |-> "unknown", backend |-> {}]
  /\ UNCHANGED <<at, row, task, worker, locked, call, crossed, waived, turns, faults>>

Migrate ==
  \/ Lock \/ SwitchAtOnce \/ Scan \/ NextPage \/ Switch \/ Succeed \/ Fail \/ Crash \/ LapseLock
  \/ \E o \in Object : Skip(o) \/ Copy(o) \/ Rekey(o) \/ MarkMissing(o) \/ FailObject(o)

Next ==
  \/ \E o \in Object : AskReadOnly(o) \/ ChooseBackend(o) \/ PutObject(o) \/ InsertRow(o) \/ InsertFails(o)
  \/ \E b \in Backend : Dispatch(b)
  \/ \E b \in Backend : CheckNoUploads(b)
  \/ Expire \/ Migrate \/ UpdateConfig \/ ChangeDriver

Spec == Init /\ [][Next]_vars

-----------------------------------------------------------------------------
Readable(o) == Has(active, o, row[o].key)

\* However often a migration fails, dies and starts over, and whichever keys it
\* rewrote before, a file stored before it was dispatched is served by the
\* backend that is active after it
\* (src/internal/apps/upload/task/storage_migration.go:141).
MigratedIsReadable ==
  Settled /\ ~ waived => \A o \in Object \ crossed : Live(o) => Readable(o)

\* A row is only given up when neither backend has its object: the key that an
\* earlier attempt rewrote is found in the target again
\* (src/internal/apps/upload/task/storage_migration.go:255).
OnlyMissingIsMarked ==
  [][\A o \in Object \ crossed :
       Live(o) /\ row'[o].status = "deleted" /\ ~ waived
         => \A b \in Backend : \A k \in Key : <<o, k>> \notin at[b]]_vars

\* "故障迁移任务自动标记为已解决": when the storage is declared writable again after
\* a failed migration, what is stored can be read
\* (src/internal/apps/admin/system_config/logics.go:123).
ResolvedIsReadable ==
  Settled => \A o \in Object \ crossed : Live(o) => Readable(o)
=============================================================================
