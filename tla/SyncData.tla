------------------------------ MODULE SyncData ------------------------------
(***************************************************************************)
(* The tables an account synchronises with its app: every write deletes    *)
(* the account's rows of some tables and inserts others in one transaction *)
(* (src/internal/apps/pixez/routers.go,                                    *)
(* src/internal/service/pixez/legacy_import.go).  The transactions are     *)
(* those of PostgreSQL at its default level, READ COMMITTED: a DELETE sees *)
(* what was committed when it began, and waits for the rows another        *)
(* transaction is deleting.  No table has a unique key but its id.         *)
(***************************************************************************)
EXTENDS Integers, FiniteSets

CONSTANTS
  Table,  \* numbers, in the order deleteUserSyncData and deleteLegacySyncUserRows take them
  Tx      \* transactions; a row is known by the one that inserted it

SyncAssumption == IsFiniteSet(Table) /\ Table = 1 .. Cardinality(Table)

VARIABLES
  rows,  \* committed rows of the account, table by table
  tx,    \* transactions: where they are, their tables, the one being deleted from, ...
  gone,  \* what each has deleted
  last,  \* the last to be committed among those that replaced a table
  met    \* the transactions each ran beside

vars == <<rows, tx, gone, last, met>>

Idle == [at |-> "idle", tables |-> {}, put |-> {}, snap |-> {}, left |-> {}]

TypeOK ==
  /\ rows \in [Table -> SUBSET Tx]
  /\ \A x \in Tx :
       /\ tx[x].at \in {"idle", "delete", "wait", "insert", "done"}
       /\ tx[x].tables \in SUBSET Table  \* those it replaces
       /\ tx[x].put \in SUBSET Table     \* those it has rows for
       /\ tx[x].snap \in SUBSET Tx       \* what the DELETE under way saw
       /\ tx[x].left \in SUBSET Table    \* those it has still to delete from
  /\ gone \in [Tx -> [Table -> SUBSET Tx]]
  /\ last \in [Table -> SUBSET Tx] /\ \A t \in Table : Cardinality(last[t]) <= 1
  /\ met  \in [Tx -> SUBSET Tx]

Empty == [t \in Table |-> {}]

Init ==
  /\ rows = Empty /\ last = Empty
  /\ tx = [x \in Tx |-> Idle]
  /\ gone = [x \in Tx |-> Empty]
  /\ met = [x \in Tx |-> {}]

Active == {x \in Tx : tx[x].at \in {"delete", "wait", "insert"}}

\* Of the others that are over, nothing is asked any more.
Latest(x) == \E t \in Table : x \in last[t]

\* A mutant of Turn: a map is ranged over in any order.
AnyTurn(x, t) == t \in tx[x].left

\* The table whose turn it is: the if statements of deleteUserSyncData.
Turn(x, t) == t \in tx[x].left /\ \A u \in tx[x].left : t <= u

\* A transaction that neither runs nor has rows or a table to its name; which one
\* begins is of no matter.
Free(x) == x \notin Active /\ \A t \in Table : x \notin rows[t] \cup last[t]
NextOne == CHOOSE x \in Tx : Free(x)

-----------------------------------------------------------------------------
\* A transaction that replaces the given tables begins; those in put get rows.
Begin(x, tables, put) ==
  /\ Free(x) /\ x = NextOne
  /\ tx' = [tx EXCEPT ![x] = [at |-> "delete", tables |-> tables, put |-> put, snap |-> {}, left |-> tables]]
  /\ gone' = [gone EXCEPT ![x] = Empty]
  /\ met' = [y \in Tx |-> IF y = x THEN Active
                          ELSE IF y \in Active THEN met[y] \cup {x} ELSE met[y] \ {x}]
  /\ UNCHANGED <<rows, last>>

\* PostUserData: the tables of the payload, some with no rows.
PostUserData(x, tables, put) == tables # {} /\ put \subseteq tables /\ Begin(x, tables, put)

\* DeleteUser: every table, and no rows.
DeleteUser(x) == Begin(x, Table, {})

\* importLegacySyncData: every table, and what the old database has.
ImportLegacy(x, put) == Begin(x, Table, put)

\* One DELETE: what it sees ...
DeleteBegin(x, t) ==
  /\ tx[x].at = "delete" /\ Turn(x, t)
  /\ tx' = [tx EXCEPT ![x].at = "wait", ![x].snap = rows[t]]
  /\ UNCHANGED <<rows, gone, last, met>>

\* ... and what is left of it once the transactions that delete the same are over.
DeleteEnd(x, t) ==
  /\ tx[x].at = "wait" /\ Turn(x, t)
  /\ \A y \in Active \ {x} : gone[y][t] \cap tx[x].snap = {}
  /\ gone' = [gone EXCEPT ![x][t] = tx[x].snap \cap rows[t]]
  /\ tx' = [tx EXCEPT ![x].left = @ \ {t}, ![x].snap = {},
                      ![x].at = IF tx[x].left = {t} THEN "insert" ELSE "delete"]
  /\ UNCHANGED <<rows, last, met>>

\* A mutant of After: what the transaction deleted stays.
AfterInserts(x, t) == rows[t] \cup IF t \in tx[x].put THEN {x} ELSE {}

\* The rows of a table as the commit of x leaves them: without those it deleted,
\* with those of createUserSyncData or copyLegacyRows.
After(x, t) == (rows[t] \ gone[x][t]) \cup IF t \in tx[x].put THEN {x} ELSE {}

Commit(x) ==
  /\ tx[x].at = "insert"
  /\ rows' = [t \in Table |-> After(x, t)]
  /\ last' = [t \in Table |-> IF t \in tx[x].tables THEN {x} ELSE last[t]]
  /\ tx' = [y \in Tx |-> IF y = x THEN [tx[x] EXCEPT !.at = "done"]
                        ELSE IF tx[y].at = "done" /\ ~ Latest(y)' THEN Idle ELSE tx[y]]
  /\ gone' = [gone EXCEPT ![x] = Empty]
  /\ met' = [y \in Tx |-> IF y = x \/ y \in Active \/ Latest(y)' THEN met[y] ELSE {}]

\* A statement fails, perhaps the insert of an id that an import has taken.
Rollback(x) ==
  /\ x \in Active
  /\ tx' = [tx EXCEPT ![x] = Idle]
  /\ gone' = [gone EXCEPT ![x] = Empty]
  /\ UNCHANGED <<rows, last, met>>

\* All names of transactions stand for rows: no write is left to look at.
Exhausted ==
  /\ Active = {} /\ ~ \E x \in Tx : Free(x)
  /\ UNCHANGED vars

Next ==
  \/ Exhausted
  \/ \E x \in Tx :
       \/ \E tables, put \in SUBSET Table : PostUserData(x, tables, put)
       \/ DeleteUser(x)
       \/ \E put \in SUBSET Table : ImportLegacy(x, put)
       \/ \E t \in Table : DeleteBegin(x, t) \/ DeleteEnd(x, t)
       \/ Commit(x) \/ Rollback(x)

Spec == Init /\ [][Next]_vars

-----------------------------------------------------------------------------
\* A table holds all the rows of the write that was committed last, and no other but
\* those of writes that ran beside it: two writes at a time may both stay, one after
\* the other replaces it (src/internal/apps/pixez/routers.go:402).
LastReplaces ==
  \A t \in Table : \A x \in last[t] :
    /\ t \in tx[x].put => x \in rows[t]
    /\ rows[t] \subseteq {x} \cup met[x]

\* The waits for each other's deletions never close a circle: some transaction can
\* take its next step by itself.
SomeGoesOn ==
  Active # {} =>
    \E x \in Active :
      \/ tx[x].at # "wait"
      \/ \E t \in Table : Turn(x, t) /\ \A y \in Active \ {x} : gone[y][t] \cap tx[x].snap = {}
=============================================================================
