------------------------------ MODULE RowCaches ------------------------------
(***************************************************************************)
(* The copies API processes keep of a row: of a user, an access token, an  *)
(* upload, an authentication source, a push event or channel, the captcha  *)
(* settings and the file whitelist, and of what an OIDC issuer publishes   *)
(* about itself.  A copy is kept in the memory of each process, in Redis,  *)
(* or in both; whoever changes the row removes the copies and broadcasts   *)
(* that the other processes shall remove theirs.                           *)
(* One action is one access to the memory, to Redis or to the database.    *)
(*                                                                         *)
(* A copy is "fresh" while it equals the row, "stale" once the row has     *)
(* changed, and "late" when its removal has been missed: it was put there  *)
(* by a read that the removal overtook, the removal came before the        *)
(* change or never, or Redis failed.  A late copy stays until the next     *)
(* change of the row, or until it expires (Redis) or is evicted (memory).  *)
(***************************************************************************)
CONSTANT Node   \* API processes

VARIABLES
  kind,   \* what the row is
  live,   \* the row is one that readers may use: active, enabled, not deleted
  redis,  \* the copy in Redis
  ram,    \* ram[n]: the copy in the memory of process n
  read,   \* read[n]: a request of process n that looks the row up
  write,  \* the request that changes the row
  news    \* the processes that have yet to hear of the change

vars == <<kind, live, redis, ram, read, write, news>>

Kind == {"user", "token", "upload", "source", "push", "provider", "captcha", "whitelist"}
Copy == {"none", "fresh", "stale", "late"}

TypeOK ==
  /\ kind \in Kind /\ live \in BOOLEAN /\ redis \in Copy
  /\ ram \in [Node -> Copy]
  /\ read \in [Node -> [at : {"idle", "redis", "db", "ram", "set"},
                        ram : Copy, redis : Copy]]  \* what it will put where
  /\ write.at \in {"idle", "row", "ram", "del", "publish"}
  /\ write.node \in Node /\ write.early \in BOOLEAN
  /\ news \in SUBSET Node

\* Push events and channels have no copy in memory, issuers and settings none in
\* Redis; a copy of a source that is found in Redis is written to Redis again.
InRam   == kind # "push"
InRedis == kind \notin {"provider", "captcha", "whitelist"}
Refills == kind = "source"

Idle == [at |-> "idle", ram |-> "none", redis |-> "none"]

Init ==
  /\ kind \in Kind /\ live \in BOOLEAN
  /\ redis = "none" /\ ram = [n \in Node |-> "none"] /\ read = [n \in Node |-> Idle]
  /\ \E n \in Node : write = [at |-> "idle", node |-> n, early |-> FALSE]
  /\ news = {}

-----------------------------------------------------------------------------
\* A request of process n looks the row up; a copy in memory answers it at once.
LookUp(n, k) ==
  /\ kind = k /\ read[n].at = "idle"
  /\ InRam => ram[n] = "none"
  /\ read' = [read EXCEPT ![n].at = IF InRedis THEN "redis" ELSE "db"]
  /\ UNCHANGED <<kind, live, redis, ram, write, news>>

GetCachedToken(n)            == LookUp(n, "token")
GetCachedUser(n)             == LookUp(n, "user")
GetUploadByID(n)             == LookUp(n, "upload")
GetAuthSourceByNameCached(n) == LookUp(n, "source")
GetActivePushEventByKey(n)   == LookUp(n, "push")
GetProvider(n)               == LookUp(n, "provider")
CurrentSettings(n)           == LookUp(n, "captcha")
IsFilePublic(n)              == LookUp(n, "whitelist")

\* The copy in Redis is taken, to be kept in memory too; no copy and an error
\* lead to the database.
GetJSON(n) ==
  /\ read[n].at = "redis"
  /\ \/ /\ redis # "none" /\ InRam
        /\ read' = [read EXCEPT ![n] = [at |-> "ram", ram |-> redis,
                                        redis |-> IF Refills THEN redis ELSE "none"]]
     \/ redis # "none" /\ ~InRam /\ read' = [read EXCEPT ![n] = Idle]
     \/ read' = [read EXCEPT ![n].at = "db"]
  /\ UNCHANGED <<kind, live, redis, ram, write, news>>

\* The row is read; one that may not be used is not kept anywhere.
LoadRow(n, kinds) ==
  /\ kind \in kinds /\ read[n].at = "db"
  /\ read' = [read EXCEPT ![n] =
       IF ~live THEN Idle
       ELSE [at    |-> IF InRam THEN "ram" ELSE "set",
             ram   |-> IF InRam THEN "fresh" ELSE "none",
             redis |-> IF InRedis THEN "fresh" ELSE "none"]]
  /\ UNCHANGED <<kind, live, redis, ram, write, news>>

LoadUser(n)   == LoadRow(n, {"user", "token"})
LoadUpload(n) == LoadRow(n, {"upload"})
LoadSource(n) == LoadRow(n, {"source"})
LoadPush(n)   == LoadRow(n, {"push"})
Discover(n)   == LoadRow(n, {"provider"})

\* Settings come out of SettingsCache, which may hold an old row.
LoadSettings(n) ==
  /\ kind = "captcha" /\ read[n].at = "db"
  /\ \E c \in {"fresh", "late"} : read' = [read EXCEPT ![n] = [at |-> "ram", ram |-> c, redis |-> "none"]]
  /\ UNCHANGED <<kind, live, redis, ram, write, news>>

\* The whitelist is read and kept under the lock that its removal waits for.
LoadWhitelist(n) ==
  /\ kind = "whitelist" /\ read[n].at = "db"
  /\ \E c \in {"fresh", "late"} : ram' = [ram EXCEPT ![n] = c]
  /\ read' = [read EXCEPT ![n] = Idle]
  /\ UNCHANGED <<kind, live, redis, write, news>>

\* A login, a new token and a new upload put the row they have just read or
\* written into the caches, without looking there first.
Login(n) ==
  /\ kind \in {"user", "token", "upload"} /\ read[n].at = "idle" /\ live
  /\ read' = [read EXCEPT ![n] = [at |-> "ram", ram |-> "fresh", redis |-> "fresh"]]
  /\ UNCHANGED <<kind, live, redis, ram, write, news>>

FillRam(n) ==
  /\ read[n].at = "ram"
  /\ ram' = [ram EXCEPT ![n] = read[n].ram]
  /\ read' = [read EXCEPT ![n] = IF @.redis = "none" THEN Idle
                                 ELSE [@ EXCEPT !.at = "set", !.ram = "none"]]
  /\ UNCHANGED <<kind, live, redis, write, news>>

\* An error of Redis is ignored.
SetJSON(n) ==
  /\ read[n].at = "set"
  /\ redis' \in {redis, read[n].redis}
  /\ read' = [read EXCEPT ![n] = Idle]
  /\ UNCHANGED <<kind, live, ram, write, news>>

\* Five minutes to a day have passed; the memory is full.
Expire ==
  /\ redis # "none" /\ redis' = "none"
  /\ UNCHANGED <<kind, live, ram, read, write, news>>

Evict(n) ==
  /\ ram[n] # "none" /\ ram' = [ram EXCEPT ![n] = "none"]
  /\ UNCHANGED <<kind, live, redis, read, write, news>>

-----------------------------------------------------------------------------
Missed(c)     == IF c = "stale" THEN "late" ELSE c
Aged(c, as)   == IF c = "none" THEN c ELSE as
ReadLate(ns)  == [n \in Node |-> IF n \in ns THEN [read[n] EXCEPT !.ram = Missed(@)] ELSE read[n]]

\* The row changes: no copy that exists or is about to be kept equals it.
Change(as) ==
  /\ live' \in BOOLEAN
  /\ redis' = Aged(redis, as)
  /\ ram'   = [n \in Node |-> Aged(ram[n], as)]
  /\ read'  = [n \in Node |-> [read[n] EXCEPT !.ram = Aged(@, as), !.redis = Aged(@, as)]]
  /\ UNCHANGED <<kind, news>>

Goto(at) == write' = [write EXCEPT !.at = at]

\* The row is changed by a request of process n, which then removes the copies.
ChangeFirst(n, k, at) ==
  /\ kind = k /\ write.at = "idle"
  /\ write' = [at |-> at, node |-> n, early |-> FALSE]
  /\ Change("stale")

UpdateUser(n)      == ChangeFirst(n, "user", "ram")
DeleteUser(n)      == ChangeFirst(n, "token", "ram")
RemoveUpload(n)    == ChangeFirst(n, "upload", "ram")
UpdateSource(n)    == ChangeFirst(n, "source", "ram")
SavePushEvent(n)   == ChangeFirst(n, "push", "del")
UpdateProvider(n)  == ChangeFirst(n, "provider", "ram")
UpdateCaptcha(n)   == ChangeFirst(n, "captcha", "publish")
UpdateWhitelist(n) == ChangeFirst(n, "whitelist", "ram")

\* The owner of an upload renames it or lets others read it, a migration names the
\* key it has at the new storage: no copy is removed, and nobody is told.
ChangeUntold ==
  /\ kind = "upload" /\ write.at = "idle" /\ live
  /\ Change("late") /\ live'
  /\ UNCHANGED write

UpdateMyFile == ChangeUntold
RekeyUpload  == ChangeUntold

\* The copies of a token that its owner deletes or rotates are removed first ...
DeleteToken(n) ==
  /\ kind = "token" /\ write.at = "idle" /\ live
  /\ write' = [at |-> "ram", node |-> n, early |-> TRUE]
  /\ UNCHANGED <<kind, live, redis, ram, read, news>>

\* ... then its row, unless that fails: what was kept meanwhile is missed.
DeleteTokenRow ==
  /\ write.at = "row"
  /\ Goto("idle")
  /\ \/ Change("late")
     \/ UNCHANGED <<kind, live, redis, ram, read, news>>

After == IF write.early THEN "row" ELSE "idle"

\* The memory of the request's own process.  Nobody else hears of a new issuer; the
\* captcha settings have been broadcast before.
InvalidateRam ==
  LET n    == write.node
      last == kind \in {"provider", "captcha"}
      deaf == IF last THEN Node \ news ELSE {}
  IN /\ write.at = "ram"
     /\ Goto(IF InRedis THEN "del" ELSE IF last THEN "idle" ELSE "publish")
     /\ ram'  = [m \in Node |-> IF m = n THEN "none" ELSE IF m \in deaf THEN Missed(ram[m]) ELSE ram[m]]
     /\ read' = ReadLate(deaf)
     /\ UNCHANGED <<kind, live, redis, news>>

\* Mutated form of InvalidateRedis, no part of the specification: the broadcast is
\* left out when Redis held no copy.
InvalidateRedisQuietly ==
  /\ write.at = "del"
  /\ Goto(IF InRam /\ redis # "none" THEN "publish" ELSE After)
  /\ redis' = "none"
  /\ read'  = [n \in Node |-> [read[n] EXCEPT !.redis = Missed(@)]]
  /\ UNCHANGED <<kind, live, ram, news>>

\* The copy in Redis.  An error keeps it; for a source it also ends the request,
\* and nobody hears of the change.
InvalidateRedis ==
  /\ write.at = "del"
  /\ \E failed \in BOOLEAN :
       LET silent == failed /\ kind = "source"
           heard  == IF silent THEN Node ELSE {}
       IN /\ Goto(IF InRam /\ ~silent THEN "publish" ELSE After)
          /\ redis' = IF failed THEN Missed(redis) ELSE "none"
          /\ ram'   = [n \in Node |-> IF silent THEN Missed(ram[n]) ELSE ram[n]]
          /\ read'  = [n \in Node |-> [ReadLate(heard)[n] EXCEPT !.redis = Missed(@)]]
  /\ UNCHANGED <<kind, live, news>>

\* The broadcast reaches the processes that listen, the request's own among them;
\* one that has not subscribed yet, or lost its connection, hears nothing.
Publish ==
  /\ write.at = "publish"
  /\ Goto(IF kind = "captcha" THEN "ram" ELSE After)
  /\ \E ns \in SUBSET Node :
       /\ news' = news \cup ns
       /\ ram'  = [n \in Node |-> IF n \in ns \cup news THEN ram[n] ELSE Missed(ram[n])]
       /\ read' = ReadLate(Node \ (ns \cup news))
  /\ UNCHANGED <<kind, live, redis>>

\* The listener of process n clears its memory.
Hear(n, kinds) ==
  /\ kind \in kinds /\ n \in news /\ news' = news \ {n}
  /\ ram'  = [ram EXCEPT ![n] = "none"]
  /\ read' = ReadLate({n})
  /\ UNCHANGED <<kind, live, redis, write>>

HearUser(n)      == Hear(n, {"user", "token"})
HearUpload(n)    == Hear(n, {"upload"})
HearSource(n)    == Hear(n, {"source"})
HearSettings(n)  == Hear(n, {"captcha"})
HearWhitelist(n) == Hear(n, {"whitelist"})

-----------------------------------------------------------------------------
Next ==
  \/ \E n \in Node :
       \/ GetCachedToken(n) \/ GetCachedUser(n) \/ GetUploadByID(n)
       \/ GetAuthSourceByNameCached(n) \/ GetActivePushEventByKey(n) \/ GetProvider(n)
       \/ CurrentSettings(n) \/ IsFilePublic(n) \/ LoadSettings(n) \/ LoadWhitelist(n)
       \/ UpdateCaptcha(n) \/ UpdateWhitelist(n)
       \/ GetJSON(n) \/ LoadUser(n) \/ LoadUpload(n) \/ LoadSource(n) \/ LoadPush(n)
       \/ Discover(n) \/ Login(n) \/ FillRam(n) \/ SetJSON(n) \/ Evict(n)
       \/ UpdateUser(n) \/ DeleteUser(n) \/ RemoveUpload(n) \/ UpdateSource(n)
       \/ SavePushEvent(n) \/ UpdateProvider(n) \/ DeleteToken(n)
       \/ HearUser(n) \/ HearUpload(n) \/ HearSource(n) \/ HearSettings(n) \/ HearWhitelist(n)
  \/ UpdateMyFile \/ RekeyUpload
  \/ DeleteTokenRow \/ InvalidateRam \/ InvalidateRedis \/ Publish \/ Expire

Spec == Init /\ [][Next]_vars

-----------------------------------------------------------------------------
\* A copy that differs from its row is about to be removed, or its removal has been
\* missed: no order of reads, removals and broadcasts leaves another one behind.
OldCopiesGo ==
  /\ redis = "stale" => write.at \in {"ram", "del"}
  /\ \A n \in Node :
       ram[n] = "stale" => n \in news \/ write.at \in {"ram", "del", "publish"}
=============================================================================
