---------------------------- MODULE SettingsCache ----------------------------
(***************************************************************************)
(* System settings: rows of w_system_configs, and the copies every node    *)
(* keeps of them in memory without a time limit                            *)
(* (src/internal/repository/system_config*.go, src/pkg/cache/ram).  A      *)
(* reader fills the copy with what it read of the table a while ago; a     *)
(* writer drops its own copy and tells the others over Redis, after its    *)
(* commit or, for the active storage, before it.  A read of several keys   *)
(* is one query, and the fill of each key a step of its own.               *)
(***************************************************************************)
EXTENDS Integers, Sequences, FiniteSets

CONSTANTS
  Node, Key,
  Value, Visible,  \* what a row may hold, and which of that is public
  StorageKey,      \* keys that saveSystemConfig writes
  MaxFills, MaxQueue  \* bounds: reads in flight, broadcasts on their way to a node

SettingsAssumption ==
  IsFiniteSet(Key) /\ StorageKey \subseteq Key /\ MaxFills \in Nat /\ MaxQueue \in Nat

VARIABLES
  row,      \* the table: {} or the value of the row
  ram,      \* copies of each node: {} or the value
  fill,     \* what readers of a node have read and not put into ram yet
  write,    \* writer on each node: where it is, and its key
  queue,    \* broadcasts on their way to a node: sets of keys, oldest first
  hears,    \* nodes whose subscription is up
  start,    \* nodes in preheat, with what they read of the table
  overtaken \* copies of a node that a commit overtook, or whose broadcast it missed

vars == <<row, ram, fill, write, queue, hears, start, overtaken>>

Held  == {{}} \cup {{v} : v \in Value}
Read  == [key : Key, row : Held]
Idle  == [at |-> "idle", key |-> {}]
Empty == [k \in Key |-> {}]

TypeOK ==
  /\ row   \in [Key -> Held]
  /\ ram   \in [Node -> [Key -> Held]]
  /\ \A n \in Node : fill[n] \subseteq Read /\ Cardinality(fill[n]) <= MaxFills
  /\ write \in [Node -> [at : {"idle", "key", "all", "commit"}, key : SUBSET Key]]
  /\ \A n \in Node : queue[n] \in Seq(SUBSET Key) /\ Len(queue[n]) <= MaxQueue
  /\ hears \in SUBSET Node
  /\ \A n \in Node : start[n] = {} \/ \E r \in [Key -> Held] : start[n] = {r}
  /\ overtaken \in [Node -> SUBSET Key]

Init ==
  /\ row \in [Key -> Held]
  /\ ram = [n \in Node |-> Empty]
  /\ fill = [n \in Node |-> {}] /\ write = [n \in Node |-> Idle]
  /\ queue = [n \in Node |-> <<>>] /\ hears = {}
  /\ start = [n \in Node |-> {row}]
  /\ overtaken = [n \in Node |-> {}]

Running(n) == start[n] = {}
Stale(n) == {k \in Key : ram[n][k] # {} /\ ram[n][k] # row[k]}

-----------------------------------------------------------------------------
\* ConfigLoader.LoadAll, then UpdateTypeItems: the preheat replaces all the copies.
Preheat(n) ==
  /\ \E read \in start[n] :
       /\ ram' = [ram EXCEPT ![n] = read]
       /\ overtaken' = [overtaken EXCEPT ![n] = {k \in Key : read[k] # row[k]}]
  /\ start' = [start EXCEPT ![n] = {}]
  /\ UNCHANGED <<row, fill, write, queue, hears>>

\* ensureSystemConfigCacheListener starts a goroutine; its subscription is up later.
Subscribe(n) ==
  /\ n \notin hears /\ hears' = hears \cup {n}
  /\ UNCHANGED <<row, ram, fill, write, queue, start, overtaken>>

\* A miss of GetSystemConfigByGroup (one key) or ListSystemConfigsByKeys (several)
\* reads the table; so does ListVisibleSystemConfigs when there is no copy at all.
ReadRows(n, K) ==
  /\ Running(n) /\ K # {}
  /\ \A k \in K : ram[n][k] = {} /\ row[k] # {}
  /\ Cardinality(fill[n]) + Cardinality(K) <= MaxFills
  /\ fill' = [fill EXCEPT ![n] = @ \cup {[key |-> k, row |-> row[k]] : k \in K}]
  /\ UNCHANGED <<row, ram, write, queue, hears, start, overtaken>>

\* ram.Set of what was read.
Populate(n, f) ==
  /\ f \in fill[n] /\ fill' = [fill EXCEPT ![n] = @ \ {f}]
  /\ ram' = [ram EXCEPT ![n][f.key] = f.row]
  /\ overtaken' = [overtaken EXCEPT ![n] = IF f.row = row[f.key] THEN @ \ {f.key} ELSE @ \cup {f.key}]
  /\ UNCHANGED <<row, write, queue, hears, start>>

-----------------------------------------------------------------------------
\* ram.Delete, or UpdateTypeItems with no items.
Dropped(n, K) == ram' = [ram EXCEPT ![n] = [k \in Key |-> IF k \in K THEN {} ELSE ram[n][k]]]

\* The node's own copies first, then the others are told; who has no subscription
\* yet never hears of it.
Broadcast(n, K) ==
  /\ Dropped(n, K)
  /\ \A m \in hears : Len(queue[m]) < MaxQueue
  /\ queue' = [m \in Node |-> IF m \in hears THEN Append(queue[m], K) ELSE queue[m]]
  /\ overtaken' = [m \in Node |-> IF m = n THEN overtaken[m] \ K
                                  ELSE IF m \in hears THEN overtaken[m]
                                  ELSE overtaken[m] \cup {k \in K : ram[m][k] # {}}]

\* A transaction that writes the row waits for one that holds it.
Unlocked(k) == \A m \in Node : write[m] # [at |-> "commit", key |-> {k}]

\* The transaction of updateSystemConfig, or the write of createSystemConfig and
\* SaveOrUpdateSystemConfig.
Commit(n, k, v) ==
  /\ Running(n) /\ write[n] = Idle /\ Unlocked(k)
  /\ row'   = [row EXCEPT ![k] = {v}]
  /\ write' = [write EXCEPT ![n] = [at |-> "key", key |-> {k}]]
  /\ UNCHANGED <<ram, fill, queue, hears, start, overtaken>>

\* A mutant of InvalidateKey: the other nodes are not told.
InvalidateHere(n) ==
  /\ write[n].at = "key"
  /\ Dropped(n, write[n].key)
  /\ overtaken' = [overtaken EXCEPT ![n] = @ \ write[n].key]
  /\ write' = [write EXCEPT ![n] = Idle]
  /\ UNCHANGED <<row, fill, queue, hears, start>>

\* InvalidateSystemConfigCache; SaveOrUpdateSystemConfig stops after it.
InvalidateKey(n) ==
  /\ write[n].at = "key"
  /\ Broadcast(n, write[n].key)
  /\ \/ write' = [write EXCEPT ![n].at = "all"]
     \/ write' = [write EXCEPT ![n] = Idle]
  /\ UNCHANGED <<row, fill, hears, start>>

\* InvalidateVisibleSystemConfigsCache drops all.
InvalidateAll(n) ==
  /\ write[n].at = "all"
  /\ Broadcast(n, Key)
  /\ write' = [write EXCEPT ![n] = Idle]
  /\ UNCHANGED <<row, fill, hears, start>>

\* saveSystemConfig: upsertSystemConfig writes and invalidates in the transaction ...
SaveInTx(n, k) ==
  /\ Running(n) /\ write[n] = Idle /\ Unlocked(k)
  /\ write' = [write EXCEPT ![n] = [at |-> "commit", key |-> {k}]]
  /\ Broadcast(n, {k})
  /\ UNCHANGED <<row, fill, hears, start>>

\* ... which commits after it, a value that is not public, or is rolled back.
CommitTx(n) ==
  /\ write[n].at = "commit"
  /\ \/ \E v \in Value \ Visible :
          /\ row' = [k \in Key |-> IF k \in write[n].key THEN {v} ELSE row[k]]
          /\ overtaken' = [m \in Node |-> overtaken[m] \cup {k \in write[n].key : ram[m][k] # {}}]
     \/ UNCHANGED <<row, overtaken>>
  /\ write' = [write EXCEPT ![n] = Idle]
  /\ UNCHANGED <<ram, fill, queue, hears, start>>

\* The listener: the copies of the message's keys go.
Hear(n) ==
  /\ queue[n] # <<>>
  /\ Dropped(n, Head(queue[n]))
  /\ overtaken' = [overtaken EXCEPT ![n] = @ \ Head(queue[n])]
  /\ queue' = [queue EXCEPT ![n] = Tail(@)]
  /\ UNCHANGED <<row, fill, write, hears, start>>

\* A message is lost with the connection to Redis.
Lose(n) ==
  /\ queue[n] # <<>>
  /\ overtaken' = [overtaken EXCEPT ![n] = @ \cup {k \in Head(queue[n]) : ram[n][k] # {}}]
  /\ queue' = [queue EXCEPT ![n] = Tail(@)]
  /\ UNCHANGED <<row, ram, fill, write, hears, start>>

\* The process restarts and reads the table for its preheat; a writer that had
\* committed leaves the other nodes untold.
Restart(n) ==
  /\ Running(n)
  /\ ram' = [ram EXCEPT ![n] = Empty] /\ fill' = [fill EXCEPT ![n] = {}]
  /\ write' = [write EXCEPT ![n] = Idle] /\ queue' = [queue EXCEPT ![n] = <<>>]
  /\ hears' = hears \ {n} /\ start' = [start EXCEPT ![n] = {row}]
  /\ overtaken' = [m \in Node |->
       IF m = n THEN {}
       ELSE IF write[n].at = "key" THEN overtaken[m] \cup {k \in write[n].key : ram[m][k] # {}}
       ELSE overtaken[m]]
  /\ UNCHANGED row

Next ==
  \E n \in Node :
    \/ Preheat(n) \/ Subscribe(n) \/ InvalidateKey(n) \/ InvalidateAll(n) \/ CommitTx(n)
    \/ Hear(n) \/ Lose(n) \/ Restart(n)
    \/ \E K \in SUBSET Key : ReadRows(n, K)
    \/ \E f \in fill[n] : Populate(n, f)
    \/ \E k \in Key, v \in Value : Commit(n, k, v)
    \/ \E k \in StorageKey : SaveInTx(n, k)

Spec == Init /\ [][Next]_vars

-----------------------------------------------------------------------------
\* Keys of broadcasts that will reach node n, or that a writer is about to send.
Announced(n) ==
  UNION ({queue[n][j] : j \in DOMAIN queue[n]} \cup {write[m].key : m \in {x \in Node : write[x].at = "key"}})

\* A copy differs from its row only until the broadcast of the change is heard; one
\* that stays behind was filled or preheated by a read that a commit overtook,
\* missed its broadcast, or was dropped before the commit of the active storage.
\* No update is forgotten in another way (src/internal/repository/system_config_cache.go:149).
StaleWasOvertaken == \A n \in Node : Stale(n) \subseteq overtaken[n] \cup Announced(n)
=============================================================================
