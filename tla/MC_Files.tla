------------------------------- MODULE MC_Files -------------------------------
(***************************************************************************)
(* StorageMigration, UploadStore, DiskCache, FileServing and TableWalks    *)
(* checked in one run.  They share no state: the first state picks the one *)
(* that takes the steps, and the states to explore are those of each, not  *)
(* of their product.  The storages are a local disk, an S3 bucket with a   *)
(* key prefix and a WebDAV server, the sizes of cached files 1 and 2; four *)
(* rows are listed two to a page, three are counted.                       *)
(***************************************************************************)
EXTENDS StorageMigration

CONSTANTS
  Upload, Caller,                   \* UploadStore
  Cached, Value, Limit, Reader,     \* DiskCache
  Request,                          \* FileServing
  Listed, Bookmark,                  \* TableWalks: the rows of a list, and of the dashboard
  PageSize, MaxWrites

VARIABLES uRow, uObject, uStat, uCall, uTwice, uTaken, uFaults,
          dFile, dItem, dOrder, dSize, dPolicy, dGet, dSeen, dLeaked, dTorn, dFaults,
          iEntry, iReq, iLeft, iFlight, iAnswer,
          tList, tFilter, tOrder, tWalk, tGone, tUnsteady, tWrites, tStatus, tFigures, tCame,
          focus

U == INSTANCE UploadStore WITH
       row <- uRow, object <- uObject, stat <- uStat, call <- uCall, twice <- uTwice,
       taken <- uTaken, faults <- uFaults

D == INSTANCE DiskCache WITH
       Key <- Cached,
       file <- dFile, item <- dItem, order <- dOrder, size <- dSize, policy <- dPolicy,
       get <- dGet, seen <- dSeen, leaked <- dLeaked, torn <- dTorn, faults <- dFaults

I == INSTANCE FileServing WITH
       entry <- iEntry, req <- iReq, left <- iLeft, flight <- iFlight, answer <- iAnswer

T == INSTANCE TableWalks WITH
       Row <- Listed,
       list <- tList, filter <- tFilter, order <- tOrder, walk <- tWalk, gone <- tGone,
       unsteady <- tUnsteady, writes <- tWrites, status <- tStatus, figures <- tFigures,
       came <- tCame

C == INSTANCE TableWalks WITH
       Row <- Bookmark,
       list <- tList, filter <- tFilter, order <- tOrder, walk <- tWalk, gone <- tGone,
       unsteady <- tUnsteady, writes <- tWrites, status <- tStatus, figures <- tFigures,
       came <- tCame

uploadVars == <<uRow, uObject, uStat, uCall, uTwice, uTaken, uFaults>>
diskVars   == <<dFile, dItem, dOrder, dSize, dPolicy, dGet, dSeen, dLeaked, dTorn, dFaults>>
imageVars  == <<iEntry, iReq, iLeft, iFlight, iAnswer>>
tableVars  == <<tList, tFilter, tOrder, tWalk, tGone, tUnsteady, tWrites, tStatus, tFigures, tCame>>
allVars    == <<vars, uploadVars, diskVars, imageVars, tableVars, focus>>

SuiteInit ==
  /\ focus \in {"migration", "uploads", "disk", "images", "lists", "dashboard"}
  /\ Init /\ U!Init /\ D!Init /\ I!Init
  /\ IF focus = "dashboard" THEN C!Init ELSE T!Init
  /\ focus # "images" => ~iEntry
  /\ focus # "lists" => tList = T!ListUsers /\ ~tFilter /\ tOrder = <<>>
  /\ focus # "dashboard" => \A r \in DOMAIN tStatus : tStatus[r] = "absent"

SuiteNext ==
  \/ focus = "migration" /\ Next   /\ UNCHANGED <<uploadVars, diskVars, imageVars, tableVars, focus>>
  \/ focus = "uploads"   /\ U!Next /\ UNCHANGED <<vars, diskVars, imageVars, tableVars, focus>>
  \/ focus = "disk"      /\ D!Next /\ UNCHANGED <<vars, uploadVars, imageVars, tableVars, focus>>
  \/ focus = "images"    /\ I!Next /\ UNCHANGED <<vars, uploadVars, diskVars, tableVars, focus>>
  \/ focus = "lists"     /\ T!Walking  /\ UNCHANGED <<vars, uploadVars, diskVars, imageVars, focus>>
  \/ focus = "dashboard" /\ C!Counting /\ UNCHANGED <<vars, uploadVars, diskVars, imageVars, focus>>

SuiteSpec == SuiteInit /\ [][SuiteNext]_allVars

\* What the modules ask of their constants.
ASSUME ConstantsFit ==
  U!UploadAssumption /\ D!DiskAssumption /\ T!WalksAssumption /\ C!WalksAssumption

\* UploadStore's: the statistics count every upload once
\* (src/internal/apps/upload/ingest/remove.go:45).
StatsFollow == U!StatsFollow

\* UploadStore's: an upload that is in use can be read
\* (src/internal/apps/upload/ingest/helpers.go:103).
UsedIsStored == focus = "uploads" => U!TypeOK /\ U!UsedIsStored

\* DiskCache's: the accounts of the cache are those of the disk
\* (src/pkg/cache/disk/cache.go:284).
DiskIsAccounted == focus = "disk" => D!TypeOK /\ D!DiskIsAccounted

\* DiskCache's: Get returns a value its key had while the call was in flight
\* (src/pkg/cache/disk/cache.go:164).
ServedWasThere == D!ServedWasThere

\* FileServing's: an image that is kept is not made again
\* (src/internal/apps/upload/filesrv/file_server.go:220).
MadeOnce == focus = "images" => I!TypeOK /\ I!MadeOnce

\* TableWalks': a walk through a list misses only rows it has a reason to miss
\* (src/internal/apps/pixez/management.go:496).
MissedIsExplained == focus = "lists" => T!TypeOK /\ T!MissedIsExplained

\* TableWalks': the dashboard shows at most all bookmarks as mirrored
\* (src/internal/apps/pixez/management.go:369).
ShareIsAShare == focus = "dashboard" => C!TypeOK /\ C!ShareIsAShare
=============================================================================
