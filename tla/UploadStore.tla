----------------------------- MODULE UploadStore -----------------------------
(***************************************************************************)
(* Uploads of one content: rows, the objects they share, and the running   *)
(* statistics (src/internal/apps/upload/ingest/*.go, stats/*.go).  A new   *)
(* row may reuse the object of an earlier one, so that the object, the row *)
(* and the counter are each changed by calls that know of the others only  *)
(* what they read before.  No caller of Ingest asks for the status         *)
(* pending, so that the cleanup of pending uploads finds none.             *)
(***************************************************************************)
EXTENDS Integers, FiniteSets

CONSTANTS
  Upload,    \* identifiers of rows; an object is named by the row it was stored for
  Caller,    \* calls in flight
  MaxFaults  \* bound on transactions that fail

UploadAssumption == IsFiniteSet(Upload) /\ MaxFaults \in Nat

VARIABLES
  row,     \* w_uploads: status, and file_path as the upload that stored it
  object,  \* objects in the storage
  stat,    \* w_upload_stats, dimension total: there or not, file_count
  call,    \* calls in flight: what they do, for which upload, with which path
  twice,   \* an upload was counted as removed twice since the last rebuild
  taken,   \* objects that the failure of another upload deleted
  faults

vars == <<row, object, stat, call, twice, taken, faults>>

Idle == [at |-> "idle", up |-> {}, path |-> {}]

TypeOK ==
  /\ row    \in [Upload -> [status : {"none", "used", "deleted"}, path : SUBSET Upload]]
  /\ object \in SUBSET Upload
  /\ stat   \in [there : BOOLEAN, n : -1 .. Cardinality(Upload)]
  /\ call   \in [Caller -> [at : {"idle", "store", "persist", "failed", "remove"},
                            up : SUBSET Upload, path : SUBSET Upload]]
  /\ twice  \in BOOLEAN
  /\ taken  \in SUBSET Upload
  /\ faults \in 0 .. MaxFaults

Init ==
  /\ row    = [u \in Upload |-> [status |-> "none", path |-> {}]]
  /\ object = {}
  /\ stat   = [there |-> FALSE, n |-> 0]
  /\ call   = [c \in Caller |-> Idle]
  /\ twice  = FALSE
  /\ taken  = {}
  /\ faults = 0

Active == {u \in Upload : row[u].status = "used"}

\* idgen.NextUint64ID: an identifier no row and no other call has.
Fresh(u) == row[u].status = "none" /\ \A c \in Caller : call[c].up # {u}

\* A mutant of Counted: a row of the statistics that is missing starts at 0.
CountedFromZero(s, delta) ==
  [there |-> TRUE, n |-> IF ~ s.there \/ s.n + delta < 0 THEN 0 ELSE s.n + delta]

\* upsertUploadStatDelta: the insert of a missing row takes the delta as it is.
Counted(s, delta) ==
  [there |-> TRUE, n |-> IF s.there /\ s.n + delta < 0 THEN 0 ELSE s.n + delta]

-----------------------------------------------------------------------------
\* No upload has the hash (PolicyCreate, which does not ask, has no caller): an object
\* of its own.
IngestNew(c, u) ==
  /\ call[c] = Idle /\ Fresh(u)
  /\ call' = [call EXCEPT ![c] = [at |-> "store", up |-> {u}, path |-> {u}]]
  /\ UNCHANGED <<row, object, stat, twice, taken, faults>>

\* A mutant of IngestDedup: the record names an object of its own.
IngestDedupOwn(c, u, found) ==
  /\ call[c] = Idle /\ Fresh(u) /\ found \in Active
  /\ call' = [call EXCEPT ![c] = [at |-> "persist", up |-> {u}, path |-> {u}]]
  /\ UNCHANGED <<row, object, stat, twice, taken, faults>>

\* createDedupRecord: the path of the upload that FindReusableUploadByHash found.
IngestDedup(c, u, found) ==
  /\ call[c] = Idle /\ Fresh(u) /\ found \in Active
  /\ call' = [call EXCEPT ![c] = [at |-> "persist", up |-> {u}, path |-> row[found].path]]
  /\ UNCHANGED <<row, object, stat, twice, taken, faults>>

\* PolicyDedupNewRecord: an upload that has the hash lends its object.
UploadFile(c, u) ==
  \/ Active = {} /\ IngestNew(c, u)
  \/ \E found \in Active : IngestDedup(c, u, found)

\* PolicyResolveExisting: an upload that has the hash is used as it is.
MirrorFile(c, u) == Active = {} /\ IngestNew(c, u)

\* storeObject; on an error nothing is left behind.
StoreObject(c) ==
  /\ call[c].at = "store"
  /\ \/ /\ object' = object \cup call[c].path
        /\ call' = [call EXCEPT ![c].at = "persist"]
     \/ call' = [call EXCEPT ![c] = Idle] /\ UNCHANGED object
  /\ UNCHANGED <<row, stat, twice, taken, faults>>

\* createUploadWithStats: row and counter in one transaction.
Persist(c) ==
  /\ call[c].at = "persist"
  /\ row'  = [u \in Upload |-> IF u \in call[c].up
                               THEN [status |-> "used", path |-> call[c].path] ELSE row[u]]
  /\ stat' = Counted(stat, 1)
  /\ call' = [call EXCEPT ![c] = Idle]
  /\ UNCHANGED <<object, twice, taken, faults>>

\* The transaction fails ...
PersistFails(c) ==
  /\ call[c].at = "persist"
  /\ faults < MaxFaults /\ faults' = faults + 1
  /\ call' = [call EXCEPT ![c].at = "failed"]
  /\ UNCHANGED <<row, object, stat, twice, taken>>

\* ... and persistUploadRecord deletes the object, be it the call's own or not.
DeleteObject(c) ==
  /\ call[c].at = "failed"
  /\ object' = object \ call[c].path
  /\ taken'  = IF call[c].path = call[c].up THEN taken ELSE taken \cup call[c].path
  /\ call'   = [call EXCEPT ![c] = Idle]
  /\ UNCHANGED <<row, stat, twice, faults>>

\* Remove and RemoveOwned read the upload ...
FindRemoved(c, u) ==
  /\ call[c] = Idle /\ u \in Active
  /\ call' = [call EXCEPT ![c] = [at |-> "remove", up |-> {u}, path |-> {}]]
  /\ UNCHANGED <<row, object, stat, twice, taken, faults>>

DeleteFile(c, u)   == FindRemoved(c, u)
DeleteMyFile(c, u) == FindRemoved(c, u)

\* ... and softDeleteUploadWithStats writes by its id, counting what was read.
Remove(c) ==
  /\ call[c].at = "remove"
  /\ row'   = [u \in Upload |-> IF u \in call[c].up THEN [row[u] EXCEPT !.status = "deleted"] ELSE row[u]]
  /\ stat'  = Counted(stat, -1)
  /\ twice' = (twice \/ ~ (call[c].up \subseteq Active))
  /\ call'  = [call EXCEPT ![c] = Idle]
  /\ UNCHANGED <<object, taken, faults>>

\* RebuildUploadStats: the lock on the total row keeps it apart from the others.
RebuildUploadStats ==
  /\ stat'  = [there |-> Active # {}, n |-> Cardinality(Active)]
  /\ twice' = FALSE
  /\ UNCHANGED <<row, object, call, taken, faults>>

Next ==
  \/ \E c \in Caller :
       \/ StoreObject(c) \/ Persist(c) \/ PersistFails(c) \/ DeleteObject(c) \/ Remove(c)
       \/ \E u \in Upload : \/ UploadFile(c, u) \/ MirrorFile(c, u)
                           \/ DeleteFile(c, u) \/ DeleteMyFile(c, u)
  \/ RebuildUploadStats

Spec == Init /\ [][Next]_vars

-----------------------------------------------------------------------------
\* The statistics follow the rows: they count every upload once, whatever fails
\* and interleaves, but for uploads that two calls removed at a time; and even
\* then they never count more than there is
\* (src/internal/apps/upload/ingest/remove.go:45).
StatsFollow ==
  /\ stat.n <= Cardinality(Active)
  /\ ~ twice => stat.n = Cardinality(Active)

\* An upload that is in use can be read: taking back a failed upload deletes
\* nothing of another, unless the failed one reused its object
\* (src/internal/apps/upload/ingest/helpers.go:103).
UsedIsStored == \A u \in Active : row[u].path \subseteq object \cup taken
=============================================================================
