------------------------------ MODULE DiskCache ------------------------------
(***************************************************************************)
(* The disk cache behind the file server (src/pkg/cache/disk/cache.go):    *)
(* files written through diskv, and in memory what is tracked of them, in  *)
(* order of use.  Everything is under one mutex but the read of the file   *)
(* in Get, which other calls may overtake.  A value stands for its size; 0 *)
(* is what a write cut short leaves: a file with its header and no more.   *)
(***************************************************************************)
EXTENDS Integers, FiniteSets

CONSTANTS
  Key, Value,  \* Value a set of positive numbers, the sizes of the values
  Limit,       \* sizes the policy may set
  Reader,      \* calls of Get in flight
  MaxFaults    \* bound on failed erasures, failed writes, crashes

DiskAssumption ==
  /\ IsFiniteSet(Key) /\ Value \subseteq Nat \ {0} /\ MaxFaults \in Nat
  /\ IsFiniteSet(Limit) /\ Limit \subseteq Nat /\ Limit # {}

VARIABLES
  file,    \* on disk: the value, {} when there is no file; expired or not
  item,    \* c.items: the tracked size, {} when there is none; expired or not
  order,   \* c.evictList: <<k, l>> when k is in front of l
  size,    \* c.currentSize
  policy,  \* c.maxSize and c.lruEnabled; set: applied since the last start
  get,     \* calls of Get: where they are, for which key, what they read
  seen,    \* values the key of a call had while the call was in flight
  leaked,  \* keys whose file was left behind: its erasure failed
  torn,    \* keys whose file a crash cut short
  faults

vars == <<file, item, order, size, policy, get, seen, leaked, torn, faults>>

None == [value |-> {}, past |-> FALSE]
Idle == [at |-> "idle", key |-> {}, data |-> {}]

Entry == [value : {{}} \cup {{v} : v \in Value \cup {0}}, past : BOOLEAN]

TypeOK ==
  /\ file   \in [Key -> Entry]
  /\ item   \in [Key -> Entry]
  /\ order  \in SUBSET (Key \X Key)
  /\ size   \in Nat
  /\ policy \in [max : Limit, lru : BOOLEAN, set : BOOLEAN]
  /\ get    \in [Reader -> [at   : {"idle", "read", "bump", "drop", "check", "done"},
                            key  : {{}} \cup {{k} : k \in Key},
                            data : {{}} \cup {{v} : v \in Value \cup {0}}]]
  /\ seen   \in [Reader -> SUBSET (Value \cup {0})]
  /\ leaked \in SUBSET Key
  /\ torn   \in SUBSET Key
  /\ faults \in 0 .. MaxFaults

Tracked == {k \in Key : item[k].value # {}}
OnDisk  == {k \in Key : file[k].value # {}}

\* The keys of K, one behind the other.
Lined(o, K) ==
  /\ \A k, l \in K : <<k, l>> \in o <=> k # l /\ <<l, k>> \notin o
  /\ \A k, l, m \in K : <<k, l>> \in o /\ <<l, m>> \in o => <<k, m>> \in o

\* The list with k moved, or pushed, to the front.
Front(k) == {p \in order : p[2] # k} \cup {<<k, l>> : l \in Tracked \ {k}}

\* What the entries e of the keys of S take together, byte by byte.
Bytes(e, k)    == {k} \X UNION {1 .. v : v \in e[k].value}
SumSizes(e, S) == Cardinality(UNION {Bytes(e, k) : k \in S})

\* New: a limit no policy exceeds, least recently used entries evicted.
Default == [max |-> CHOOSE m \in Limit : \A n \in Limit : n <= m, lru |-> TRUE, set |-> FALSE]

Init ==
  /\ file = [k \in Key |-> None] /\ item = [k \in Key |-> None]
  /\ order = {} /\ size = 0
  /\ policy = Default
  /\ get = [r \in Reader |-> Idle] /\ seen = [r \in Reader |-> {}]
  /\ leaked = {} /\ torn = {} /\ faults = 0

-----------------------------------------------------------------------------
\* d.Erase of the keys of S from files f; some of the files may be left behind.
Erase(f, S, l, t) ==
  \E left \in SUBSET {k \in S : f[k].value # {}} :
    /\ faults + Cardinality(left) <= MaxFaults
    /\ faults' = faults + Cardinality(left)
    /\ file'   = [k \in Key |-> IF k \in S \ left THEN None ELSE f[k]]
    /\ leaked' = (l \ S) \cup left
    /\ torn'   = t \ (S \ left)

\* Items and size without the keys of S.
Forget(i, S, o, n) ==
  /\ item'  = [k \in Key |-> IF k \in S THEN None ELSE i[k]]
  /\ order' = {p \in o : p[1] \notin S /\ p[2] \notin S}
  /\ size'  = n - SumSizes(i, S)

\* evict: from the back of the list until the size is within the limit; a key goes
\* when what is left without those behind it is still too much.
Evicted(i, o, n, p) ==
  IF p.lru
  THEN {k \in Key : i[k].value # {} /\ n - SumSizes(i, {l \in Key : <<k, l>> \in o}) > p.max}
  ELSE {}

\* What the calls in flight for key k may return from now on.
Saw(k, new) == [r \in Reader |-> IF get[r].key = {k} THEN seen[r] \cup new ELSE seen[r]]

\* A mutant of Set: it adds to the size what an overwrite replaces.
SetAddsTwice(k, v) ==
  LET i == [item EXCEPT ![k] = [value |-> {v}, past |-> FALSE]]
      o == Front(k)
      S == Evicted(i, o, size + v, policy)
  IN  /\ Erase([file EXCEPT ![k] = [value |-> {v}, past |-> FALSE]], S, leaked \ {k}, torn \ {k})
      /\ Forget(i, S, o, size + v)
      /\ seen' = Saw(k, {v})
      /\ UNCHANGED <<policy, get>>

\* Set, under the lock to the end: the file, the tracker, the eviction.
Set(k, v) ==
  LET i == [item EXCEPT ![k] = [value |-> {v}, past |-> FALSE]]
      o == Front(k)
      n == size + v - SumSizes(item, {k})
      S == Evicted(i, o, n, policy)
  IN  /\ Erase([file EXCEPT ![k] = [value |-> {v}, past |-> FALSE]], S, leaked \ {k}, torn \ {k})
      /\ Forget(i, S, o, n)
      /\ seen' = Saw(k, {v})
      /\ UNCHANGED <<policy, get>>

\* The write fails: diskv removes the file, the tracker is not touched.
SetFails(k) ==
  /\ faults < MaxFaults /\ faults' = faults + 1
  /\ file'   = [file EXCEPT ![k] = None]
  /\ leaked' = leaked \ {k} /\ torn' = torn \ {k}
  /\ UNCHANGED <<item, order, size, policy, get, seen>>

\* The entry runs out.
Expire(k) ==
  /\ k \in Tracked /\ ~ item[k].past
  /\ item' = [item EXCEPT ![k].past = TRUE]
  /\ file' = [file EXCEPT ![k].past = (k \in OnDisk)]
  /\ UNCHANGED <<order, size, policy, get, seen, leaked, torn, faults>>

\* deleteUnlocked; Delete is no more than that.
DeleteUnlocked(k) == Erase(file, {k}, leaked, torn) /\ Forget(item, {k}, order, size)

Delete(k) == DeleteUnlocked(k) /\ UNCHANGED <<policy, get, seen>>

\* Clear: it starts again from 0 and removes every file.
Clear ==
  /\ item = [k \in Key |-> None] => OnDisk # {}
  /\ Erase(file, OnDisk, leaked, torn)
  /\ item' = [k \in Key |-> None] /\ order' = {} /\ size' = 0
  /\ UNCHANGED <<policy, get, seen>>

\* UpdatePolicy evicts what the new limit has no room for.
UpdatePolicy(max, lru) ==
  LET p == [max |-> max, lru |-> lru, set |-> TRUE]
      S == Evicted(item, order, size, p)
  IN  /\ policy' = p
      /\ Erase(file, S, leaked, torn) /\ Forget(item, S, order, size)
      /\ UNCHANGED <<get, seen>>

\* cleanExpired, the periodic sweep.
CleanExpired ==
  LET S == {k \in Tracked : item[k].past}
  IN  /\ S # {}
      /\ Erase(file, S, leaked, torn) /\ Forget(item, S, order, size)
      /\ UNCHANGED <<policy, get, seen>>

-----------------------------------------------------------------------------
\* A mutant of GetLook: it reads the file without looking into the tracker.
GetReadsFirst(r, k) ==
  /\ get[r] = Idle
  /\ get'  = [get EXCEPT ![r] = [at |-> "read", key |-> {k}, data |-> {}]]
  /\ seen' = [seen EXCEPT ![r] = item[k].value]
  /\ UNCHANGED <<file, item, order, size, policy, leaked, torn, faults>>

\* Get, first under the read lock: a miss, an entry that ran out, or a read.
GetLook(r, k) ==
  /\ get[r] = Idle /\ k \in Tracked
  /\ get'  = [get EXCEPT ![r] = [at |-> IF item[k].past THEN "check" ELSE "read",
                                 key |-> {k}, data |-> {}]]
  /\ seen' = [seen EXCEPT ![r] = item[k].value]
  /\ UNCHANGED <<file, item, order, size, policy, leaked, torn, faults>>

\* The file is read outside the lock; the read fails when it is gone.
GetRead(r, k) ==
  /\ get[r].at = "read" /\ get[r].key = {k}
  /\ get' = [get EXCEPT ![r].at = IF k \in OnDisk THEN "bump" ELSE "drop",
                        ![r].data = file[k].value]
  /\ UNCHANGED <<file, item, order, size, policy, seen, leaked, torn, faults>>

\* Under the lock again: the entry moves to the front and the data is returned.
GetBump(r, k) ==
  /\ get[r].at = "bump" /\ get[r].key = {k}
  /\ IF k \in Tracked
     THEN order' = Front(k) /\ get' = [get EXCEPT ![r].at = "done"]
     ELSE UNCHANGED order /\ get' = [get EXCEPT ![r] = Idle]
  /\ UNCHANGED <<file, item, size, policy, seen, leaked, torn, faults>>

\* The file could not be read: the entry goes, one set in the meantime too.
GetDrop(r, k) ==
  /\ get[r].at = "drop" /\ get[r].key = {k}
  /\ IF k \in Tracked
     THEN DeleteUnlocked(k)
     ELSE UNCHANGED <<file, item, order, size, leaked, torn, faults>>
  /\ get' = [get EXCEPT ![r] = Idle]
  /\ UNCHANGED <<policy, seen>>

\* getAndDeleteIfExpired: all of it under the lock.
GetCheck(r, k) ==
  /\ get[r].at = "check" /\ get[r].key = {k}
  /\ IF k \in Tracked /\ (item[k].past \/ k \notin OnDisk)
     THEN DeleteUnlocked(k) /\ get' = [get EXCEPT ![r] = Idle]
     ELSE /\ IF k \in Tracked
             THEN /\ order' = Front(k)
                  /\ get' = [get EXCEPT ![r].at = "done", ![r].data = file[k].value]
             ELSE UNCHANGED order /\ get' = [get EXCEPT ![r] = Idle]
          /\ UNCHANGED <<file, item, size, leaked, torn, faults>>
  /\ UNCHANGED <<policy, seen>>

GetReturn(r) ==
  /\ get[r].at = "done"
  /\ get' = [get EXCEPT ![r] = Idle]
  /\ UNCHANGED <<file, item, order, size, policy, seen, leaked, torn, faults>>

-----------------------------------------------------------------------------
\* The process stops, perhaps in the middle of a write, and New loads the tracker
\* from the files, in the order of their times; it evicts nothing.
Restart(cut) ==
  \E rest \in {None, [value |-> {0}, past |-> FALSE]} :
    LET f == [k \in Key |-> IF k \in cut THEN rest ELSE file[k]]
        K == {k \in Key : f[k].value # {}}
    IN  /\ faults < MaxFaults /\ faults' = faults + 1
        /\ Cardinality(cut) <= 1
        /\ file' = f /\ item' = f
        /\ \E o \in SUBSET (K \X K) : Lined(o, K) /\ order' = o
        /\ size'   = SumSizes(f, K)
        /\ policy' = Default
        /\ get' = [r \in Reader |-> Idle] /\ seen' = [r \in Reader |-> {}]
        /\ leaked' = {} /\ torn' = (torn \cup cut) \cap K

Next ==
  \/ \E k \in Key :
       \/ \E v \in Value : Set(k, v)
       \/ SetFails(k) \/ Expire(k) \/ Delete(k)
       \/ \E r \in Reader : GetLook(r, k) \/ GetRead(r, k) \/ GetBump(r, k) \/ GetDrop(r, k) \/ GetCheck(r, k)
  \/ Clear \/ CleanExpired
  \/ \E max \in Limit, lru \in BOOLEAN : UpdatePolicy(max, lru)
  \/ \E r \in Reader : GetReturn(r)
  \/ \E cut \in SUBSET Key : Restart(cut)

Spec == Init /\ [][Next]_vars

-----------------------------------------------------------------------------
\* The accounts of the cache are those of the disk: the size is that of what is
\* tracked, a file that is not tracked is one that could not be erased, and once
\* the policy is applied the size stays within its limit
\* (src/pkg/cache/disk/cache.go:284).
DiskIsAccounted ==
  /\ size = SumSizes(item, Key)
  /\ order \subseteq Tracked \X Tracked /\ Lined(order, Tracked)
  /\ OnDisk \subseteq Tracked \cup leaked
  /\ policy.lru /\ policy.set => size <= policy.max

\* What Get returns is a value its key had while the call was in flight, though
\* it reads outside the lock; but for a file that a crash cut short, which the
\* next start takes for whole (src/pkg/cache/disk/cache.go:164).
ServedWasThere ==
  \A r \in Reader : get[r].at = "done" =>
    get[r].data \subseteq (seen[r] \cup IF get[r].key \subseteq torn THEN {0} ELSE {})
=============================================================================
