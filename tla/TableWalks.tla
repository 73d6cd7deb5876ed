------------------------------ MODULE TableWalks ------------------------------
(***************************************************************************)
(* Reading a table in several statements while others write to it: the     *)
(* paged lists of the API, where a client asks for page after page; the    *)
(* tasks that go through a table in batches after a cursor; and the        *)
(* dashboard, which counts bookmarks status by status.                     *)
(* A row is its key and nothing else; order is the list as one statement   *)
(* would return it, with the rows the filter lets through.                 *)
(***************************************************************************)
EXTENDS Integers, Sequences, SequencesExt, FiniteSets

CONSTANTS Row,      \* keys, numbers
          PageSize,
          MaxWrites \* rows that enter, leave or move during a walk

WalksAssumption ==
  Row \subseteq Nat \ {0} /\ IsFiniteSet(Row) /\ PageSize \in Nat \ {0} /\ MaxWrites \in Nat

VARIABLES
  list,    \* which list is read
  filter,  \* the request asks for rows in some state, which rows enter and leave
  order,   \* the rows of the list, in its order
  walk,    \* the reader
  gone,    \* rows that have left the list, or moved in it, since the walk began
  unsteady, \* since then rows that sort alike have come in another order, or a
            \* row has come between the total of the answer and its rows
  writes,  \* how many rows have
  status,  \* status[r]: the mirror status of bookmark r, for the dashboard
  figures, \* what the dashboard has counted so far
  came     \* bookmarks that came, or came back, since it counted the total

listVars == <<list, filter, order, walk, gone, unsteady, writes>>
dashVars == <<status, figures, came>>
vars     == <<listVars, dashVars>>

\* How the lists sort, where new rows enter, whether rows leave them, and whether
\* an update of a row moves it to the front.
Facts(sorted, enter, leave, moves) ==
  [sorted |-> sorted, enter |-> enter, leave |-> leave, moves |-> moves]

ListBookmarks   == Facts("strictly", "front", TRUE, FALSE)   \* with their account
ListRemoved     == Facts("strictly", "front", TRUE, TRUE)    \* until Pixiv lists them again
ListExportRuns  == Facts("loosely",  "front", TRUE, FALSE)   \* with their account
ListMirrors     == Facts("loosely",  "front", TRUE, TRUE)
ListArtists     == Facts("strictly", "key",   FALSE, FALSE)
ListArtistWorks == Facts("strictly", "key",   FALSE, FALSE)
ListExecutions  == Facts("strictly", "front", TRUE, FALSE)   \* until they are cleaned up
ListHistories   == Facts("loosely",  "front", TRUE, FALSE)
ListUploads     == Facts("loosely",  "front", TRUE, FALSE)
ListUsers       == Facts("strictly", "key",   TRUE, FALSE)
ListAccessLogs  == Facts("strictly", "any",   FALSE, FALSE)  \* a batch may come late
BackfillArtists == Facts("cursor",   "key",   TRUE, FALSE)
CleanupUploads  == Facts("cursor",   "key",   TRUE, FALSE)
WarmImageCache  == Facts("cursor",   "key",   TRUE, FALSE)

List == {ListBookmarks, ListRemoved, ListExportRuns, ListMirrors, ListArtists, ListArtistWorks,
         ListExecutions, ListHistories, ListUploads, ListUsers, ListAccessLogs,
         BackfillArtists, CleanupUploads, WarmImageCache}

ByCursor == list.sorted = "cursor"
ByKey    == list.enter = "key"
Leaving  == list.leave \/ filter

Begun(rows) == [at |-> IF ByCursor THEN "find" ELSE "count",
                page |-> 1, cursor |-> 0, total |-> 0, began |-> rows, seen |-> {}]
Status  == {"absent", "removed", "none", "processing", "done", "failed"}
Counted == <<"done", "processing", "failed", "none">>   \* in this order

TypeOK ==
  /\ list \in List /\ filter \in BOOLEAN
  /\ IsInjective(order) /\ ToSet(order) \subseteq Row
  /\ walk.at \in {"count", "find", "done"} /\ walk.seen \subseteq Row
  /\ gone \subseteq Row /\ unsteady \in BOOLEAN /\ writes \in 0 .. MaxWrites
  /\ status \in [Row -> Status] /\ came \in BOOLEAN
  /\ figures \in Seq(0 .. Cardinality(Row)) /\ Len(figures) <= 1 + Len(Counted)

Ascending(s) == \A i, j \in DOMAIN s : i < j => s[i] < s[j]

Init ==
  /\ list \in List /\ filter \in (IF list.sorted = "cursor" THEN {FALSE} ELSE BOOLEAN)
  /\ \E n \in 0 .. Cardinality(Row) : order \in {s \in [1 .. n -> Row] : Ascending(s)}
  /\ walk = Begun(ToSet(order)) /\ gone = {} /\ unsteady = FALSE /\ writes = 0
  /\ status \in [Row -> Status] /\ figures = <<>> /\ came = FALSE

-----------------------------------------------------------------------------
\* The writers.
Positions(r) ==
  IF ByKey THEN {Cardinality({x \in ToSet(order) : x < r}) + 1}
  ELSE IF list.enter = "front" /\ (list.moves \/ ~filter) THEN {1}
  ELSE 1 .. Len(order) + 1

\* Only what is written while the reader walks matters to it.
Write == walk.at # "done" /\ writes < MaxWrites /\ writes' = writes + 1

Enter(r) ==
  /\ Write /\ r \in Row \ ToSet(order)
  /\ \E i \in Positions(r) : order' = InsertAt(order, i, r)
  /\ unsteady' = (unsteady \/ (walk.at = "find" /\ ~ByCursor))
  /\ UNCHANGED <<list, filter, walk, gone, dashVars>>

\* Deleted, or in another state than the one asked for.
Leave(i) ==
  /\ Write /\ Leaving
  /\ order' = RemoveAt(order, i)
  /\ gone' = gone \union {order[i]}
  /\ UNCHANGED <<list, filter, walk, unsteady, dashVars>>

\* An update of the row makes it the latest.
Touch(i) ==
  /\ Write /\ list.moves
  /\ order' = <<order[i]>> \o RemoveAt(order, i)
  /\ gone' = gone \union {order[i]}
  /\ UNCHANGED <<list, filter, walk, unsteady, dashVars>>

\* Of rows with the same time the database may return either first.
Swap(i) ==
  /\ Write /\ list.sorted = "loosely"
  /\ order' = [order EXCEPT ![i] = order[i + 1], ![i + 1] = order[i]]
  /\ unsteady' = TRUE
  /\ UNCHANGED <<list, filter, walk, gone, dashVars>>

-----------------------------------------------------------------------------
\* The reader.
CountRows ==
  /\ walk.at = "count"
  /\ walk' = [walk EXCEPT !.at = "find", !.total = Len(order)]
  /\ UNCHANGED <<list, filter, order, gone, unsteady, writes, dashVars>>

\* A mutant of Offset: pages are counted from 0.
OffsetFromZero(page) == page * PageSize

Offset(page) == (page - 1) * PageSize

\* A page of a list; the reader asks for the next one while there is one.
FindPage ==
  /\ walk.at = "find" /\ ~ByCursor
  /\ LET offset == Offset(walk.page)
         rows   == {order[i] : i \in (offset + 1 .. offset + PageSize) \cap DOMAIN order}
     IN walk' = [walk EXCEPT !.at   = IF offset + PageSize < walk.total THEN "count" ELSE "done",
                             !.page = @ + 1,
                             !.seen = @ \union rows]
  /\ UNCHANGED <<list, filter, order, gone, unsteady, writes, dashVars>>

\* A batch: the first rows after the last one of the batch before.
After == {r \in ToSet(order) : r > walk.cursor}
Batch == {r \in After : Cardinality({q \in After : q <= r}) <= PageSize}

FindBatch ==
  /\ walk.at = "find" /\ ByCursor
  /\ walk' = IF Batch = {} THEN [walk EXCEPT !.at = "done"]
             ELSE [walk EXCEPT !.cursor = CHOOSE r \in Batch : \A q \in Batch : q <= r,
                               !.seen = @ \union Batch]
  /\ UNCHANGED <<list, filter, order, gone, unsteady, writes, dashVars>>

-----------------------------------------------------------------------------
\* The bookmarks under the dashboard: listed and taken off the list by exports,
\* mirrored, and given up.
Move(r) ==
  /\ \E s \in Status \ {"absent", status[r]} :
       /\ status' = [status EXCEPT ![r] = s]
       /\ came' = (came \/ (status[r] \in {"absent", "removed"} /\ s # "removed"))
  /\ UNCHANGED <<listVars, figures>>

Having(states) == Cardinality({r \in Row : status[r] \in states})

CountTotal ==
  /\ figures = <<>>
  /\ figures' = <<Having({"none", "processing", "done", "failed"})>>
  /\ came' = FALSE
  /\ UNCHANGED <<listVars, status>>

\* A mutant of StatesOf: removed bookmarks keep their status and are counted.
StatesWithRemoved(s) == {s, "removed"}

StatesOf(s) == {s}

CountStatus ==
  /\ Len(figures) \in 1 .. Len(Counted)
  /\ figures' = Append(figures, Having(StatesOf(Counted[Len(figures)])))
  /\ UNCHANGED <<listVars, status, came>>

Answer ==
  /\ Len(figures) > Len(Counted)
  /\ figures' = <<>>
  /\ UNCHANGED <<listVars, status, came>>

-----------------------------------------------------------------------------
Walking  == \/ \E r \in Row : Enter(r)
            \/ \E i \in 1 .. Len(order) : Leave(i) \/ Touch(i)
            \/ \E i \in 1 .. Len(order) - 1 : Swap(i)
            \/ CountRows \/ FindPage \/ FindBatch
Counting == (\E r \in Row : Move(r)) \/ CountTotal \/ CountStatus \/ Answer

Next == Walking \/ Counting
Spec == Init /\ [][Next]_vars

-----------------------------------------------------------------------------
(***************************************************************************)
(* Properties                                                              *)
(***************************************************************************)
\* A walk through a list that no row leaves misses none that was there when it
\* began, whatever enters; a walk by cursor misses none but those that left
\* (apps/pixez/management.go:496, apps/upload/task/cleanup.go:62).
MissedIsExplained ==
  walk.at = "done" =>
    \/ walk.began \subseteq walk.seen \union gone
    \/ ~ByCursor /\ (gone # {} \/ unsteady)

\* The dashboard shows at most all bookmarks as mirrored, unless some came while
\* it counted (apps/pixez/management.go:369).
ShareIsAShare == Len(figures) > 1 => figures[2] <= figures[1] \/ came
=============================================================================
