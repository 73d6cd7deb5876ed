----------------------------- MODULE CachesProofs -----------------------------
(***************************************************************************)
(* Proofs about the copies that MC_Server's modules keep of a row, token,  *)
(* table or setting, for any number of processes, callers, devices and     *)
(* keys and all bounds (ConstantsFit of MC_Server).  One part per          *)
(* component: what its variables hold, the inductive invariant, a lemma    *)
(* for every action, and the theorems.                                     *)
(*   RowCaches         RowInv: an old copy has a removal still to come     *)
(*   PixivAccount      AccInv: which token is stored, held and under way   *)
(*   SyncData          SynInv: what a transaction has deleted, inserted    *)
(*                     and locked                                          *)
(*   SettingsCache     SetInv: a stale copy has an invalidation to come,   *)
(*                     or missed it                                        *)
(***************************************************************************)
EXTENDS MC_Server, Sequences, FiniteSetTheorems, WellFoundedInduction, TLAPS

(* Copies of rows *)

RowSlot == [at : {"idle", "redis", "db", "ram", "set"}, ram : R!Copy, redis : R!Copy]

RowTyped ==
  /\ rKind \in R!Kind /\ rLive \in BOOLEAN /\ rRedis \in R!Copy
  /\ rRam \in [Node -> R!Copy] /\ rRead \in [Node -> RowSlot]
  /\ rWrite \in [at : {"idle", "row", "ram", "del", "publish"}, node : Node, early : BOOLEAN]
  /\ rNews \in SUBSET Node

\* What is about to be put into a memory or into Redis is no older than what may
\* still be there.
RowRedisOK == rRedis = "stale" => rWrite.at \in {"ram", "del"}
RowNodeOK(n) ==
  /\ rRam[n] = "stale" \/ rRead[n].ram = "stale" => n \in rNews \/ rWrite.at \in {"ram", "del", "publish"}
  /\ rRead[n].redis = "stale" => rWrite.at \in {"ram", "del"}

\* Who keeps no copy in memory, or none in Redis, has none there.
RowPlaceOK ==
  /\ ~R!InRam => \A n \in Node : rRam[n] = "none" /\ rRead[n].ram = "none" /\ rRead[n].at # "ram"
  /\ ~R!InRedis => rRedis = "none" /\ \A n \in Node : rRead[n].redis = "none"
  /\ rKind \in {"provider", "whitelist"} => rWrite.at \in {"idle", "ram", "publish"}
  /\ rKind = "provider" => rWrite.at # "publish"
  /\ rKind = "captcha" => rWrite.at \in {"idle", "publish", "ram"}
  /\ rKind = "push" => rWrite.at \in {"idle", "del"}
  /\ rKind # "token" => ~rWrite.early \/ rWrite.at = "idle"

RowInv == RowTyped /\ RowRedisOK /\ (\A n \in Node : RowNodeOK(n)) /\ RowPlaceOK

-----------------------------------------------------------------------------
USE DEF R!InRam, R!InRedis, R!Refills, R!Copy, R!Kind, RowSlot

LEMMA RowAgedTyped ==
  ASSUME NEW c \in R!Copy, NEW as \in {"stale", "late"}
  PROVE  /\ R!Aged(c, as) \in R!Copy /\ R!Missed(c) \in R!Copy /\ R!Missed(c) # "stale"
         /\ (R!Aged(c, as) = "stale" => as = "stale") /\ (R!Aged(c, as) = "none" <=> c = "none")
         /\ (R!Missed(c) = "none" <=> c = "none")
  BY DEF R!Aged, R!Missed

\* Reads that look into Redis, the database or nowhere touch no copy.
LEMMA RowReadStep ==
  ASSUME RowInv, NEW n \in Node, NEW s \in RowSlot, rRead' = [rRead EXCEPT ![n] = s],
         UNCHANGED <<rKind, rLive, rRedis, rRam, rWrite, rNews>>,
         s.ram = "stale" => n \in rNews \/ rWrite.at \in {"ram", "del", "publish"},
         s.redis = "stale" => rWrite.at \in {"ram", "del"},
         ~R!InRam => s.ram = "none" /\ s.at # "ram",
         ~R!InRedis => s.redis = "none"
  PROVE  RowInv'
<1>1. rRead' \in [Node -> RowSlot] /\ rRead'[n] = s /\ \A m \in Node : m # n => rRead'[m] = rRead[m]
  BY DEF RowInv, RowTyped
<1>2. RowTyped' /\ RowRedisOK'
  BY <1>1 DEF RowInv, RowTyped, RowRedisOK
<1>3. \A m \in Node : RowNodeOK(m)'
  BY <1>1 DEF RowInv, RowNodeOK
<1>4. RowPlaceOK'
  BY <1>1 DEF RowInv, RowPlaceOK
<1> QED BY <1>2, <1>3, <1>4 DEF RowInv

LEMMA RowLookUpStep == ASSUME RowInv, NEW n \in Node, NEW k, R!LookUp(n, k) PROVE RowInv'
<1> DEFINE s == [rRead[n] EXCEPT !.at = IF R!InRedis THEN "redis" ELSE "db"]
<1>1. rRead[n] \in RowSlot /\ RowNodeOK(n)
  BY DEF RowInv, RowTyped
<1>2. s \in RowSlot /\ s.ram = rRead[n].ram /\ s.redis = rRead[n].redis /\ s.at # "ram"
  BY <1>1
<1>3. rRead' = [rRead EXCEPT ![n] = s] /\ UNCHANGED <<rKind, rLive, rRedis, rRam, rWrite, rNews>>
  BY DEF R!LookUp
<1> HIDE DEF s
<1>4. (~R!InRam => s.ram = "none") /\ (~R!InRedis => s.redis = "none")
  BY <1>2 DEF RowInv, RowPlaceOK
<1> QED BY <1>1, <1>2, <1>3, <1>4, RowReadStep DEF RowNodeOK

LEMMA RowIdleSlot == R!Idle \in RowSlot /\ R!Idle.ram = "none" /\ R!Idle.redis = "none" /\ R!Idle.at = "idle"
  BY DEF R!Idle

LEMMA RowGetJSONStep == ASSUME RowInv, NEW n \in Node, R!GetJSON(n) PROVE RowInv'
<1>1. rRead[n] \in RowSlot /\ RowNodeOK(n) /\ rRedis \in R!Copy /\ RowRedisOK
  BY DEF RowInv, RowTyped
<1>u. UNCHANGED <<rKind, rLive, rRedis, rRam, rWrite, rNews>> /\ rRead[n].at = "redis"
  BY DEF R!GetJSON
<1>2. CASE /\ rRedis # "none" /\ R!InRam
           /\ rRead' = [rRead EXCEPT ![n] = [at |-> "ram", ram |-> rRedis,
                                           redis |-> IF R!Refills THEN rRedis ELSE "none"]]
  <2> DEFINE s == [at |-> "ram", ram |-> rRedis, redis |-> IF R!Refills THEN rRedis ELSE "none"]
  <2>1. s \in RowSlot /\ s.ram = rRedis /\ s.redis \in {rRedis, "none"} /\ s.at = "ram"
    BY <1>1
  <2>2. rRead' = [rRead EXCEPT ![n] = s]
    BY <1>2
  <2> HIDE DEF s
  <2>3. ~R!InRedis => s.redis = "none"
    BY <2>1 DEF RowInv, RowPlaceOK
  <2> QED BY <1>1, <1>2, <1>u, <2>1, <2>2, <2>3, RowReadStep DEF RowRedisOK
<1>3. CASE rRead' = [rRead EXCEPT ![n] = R!Idle]
  BY <1>3, <1>u, RowIdleSlot, RowReadStep
<1>4. CASE rRead' = [rRead EXCEPT ![n].at = "db"]
  <2> DEFINE s == [rRead[n] EXCEPT !.at = "db"]
  <2>1. s \in RowSlot /\ s.ram = rRead[n].ram /\ s.redis = rRead[n].redis /\ s.at = "db"
    BY <1>1
  <2>2. rRead' = [rRead EXCEPT ![n] = s]
    BY <1>4
  <2> HIDE DEF s
  <2>3. (~R!InRam => s.ram = "none") /\ (~R!InRedis => s.redis = "none")
    BY <2>1 DEF RowInv, RowPlaceOK
  <2> QED BY <1>1, <1>u, <2>1, <2>2, <2>3, RowReadStep DEF RowNodeOK
<1> QED BY <1>2, <1>3, <1>4 DEF R!GetJSON

LEMMA RowLoadRowStep == ASSUME RowInv, NEW n \in Node, NEW kinds, R!LoadRow(n, kinds) PROVE RowInv'
<1> DEFINE q == [at    |-> IF R!InRam THEN "ram" ELSE "set",
                 ram   |-> IF R!InRam THEN "fresh" ELSE "none",
                 redis |-> IF R!InRedis THEN "fresh" ELSE "none"]
           s == IF ~rLive THEN R!Idle ELSE q
<1>1. s \in RowSlot /\ s.ram # "stale" /\ s.redis # "stale"
  BY RowIdleSlot
<1>2. (~R!InRam => s.ram = "none" /\ s.at # "ram") /\ (~R!InRedis => s.redis = "none")
  BY RowIdleSlot
<1>3. rRead' = [rRead EXCEPT ![n] = s] /\ UNCHANGED <<rKind, rLive, rRedis, rRam, rWrite, rNews>>
  BY DEF R!LoadRow
<1> HIDE DEF s
<1> QED BY <1>1, <1>2, <1>3, RowReadStep

LEMMA RowLoadSettingsStep == ASSUME RowInv, NEW n \in Node, R!LoadSettings(n) PROVE RowInv'
<1>1. PICK c \in {"fresh", "late"} : rRead' = [rRead EXCEPT ![n] = [at |-> "ram", ram |-> c, redis |-> "none"]]
  BY DEF R!LoadSettings
<1> DEFINE s == [at |-> "ram", ram |-> c, redis |-> "none"]
<1>2. s \in RowSlot /\ s.ram # "stale" /\ s.redis = "none" /\ rRead' = [rRead EXCEPT ![n] = s]
  BY <1>1
<1>3. UNCHANGED <<rKind, rLive, rRedis, rRam, rWrite, rNews>> /\ R!InRam
  BY DEF R!LoadSettings
<1> HIDE DEF s
<1> QED BY <1>2, <1>3, RowReadStep

LEMMA RowLoginStep == ASSUME RowInv, NEW n \in Node, R!Login(n) PROVE RowInv'
<1> DEFINE s == [at |-> "ram", ram |-> "fresh", redis |-> "fresh"]
<1>1. s \in RowSlot /\ s.ram # "stale" /\ s.redis # "stale" /\ rRead' = [rRead EXCEPT ![n] = s]
  BY DEF R!Login
<1>2. UNCHANGED <<rKind, rLive, rRedis, rRam, rWrite, rNews>> /\ R!InRam /\ R!InRedis
  BY DEF R!Login
<1> HIDE DEF s
<1> QED BY <1>1, <1>2, RowReadStep

\* One memory changes, and the request that filled it goes on.
LEMMA RowRamStep ==
  ASSUME RowInv, NEW n \in Node, NEW c \in R!Copy, NEW s \in RowSlot,
         rRam' = [rRam EXCEPT ![n] = c], rRead' = [rRead EXCEPT ![n] = s],
         UNCHANGED <<rKind, rLive, rRedis, rWrite, rNews>>,
         c = "stale" \/ s.ram = "stale" => n \in rNews \/ rWrite.at \in {"ram", "del", "publish"},
         s.redis = "stale" => rWrite.at \in {"ram", "del"},
         ~R!InRam => c = "none" /\ s.ram = "none" /\ s.at # "ram",
         ~R!InRedis => s.redis = "none"
  PROVE  RowInv'
<1>1. /\ rRead' \in [Node -> RowSlot] /\ rRead'[n] = s /\ \A m \in Node : m # n => rRead'[m] = rRead[m]
      /\ rRam' \in [Node -> R!Copy] /\ rRam'[n] = c /\ \A m \in Node : m # n => rRam'[m] = rRam[m]
  BY DEF RowInv, RowTyped
<1>2. RowTyped' /\ RowRedisOK'
  BY <1>1 DEF RowInv, RowTyped, RowRedisOK
<1>3. \A m \in Node : RowNodeOK(m)'
  BY <1>1 DEF RowInv, RowNodeOK
<1>4. RowPlaceOK'
  BY <1>1 DEF RowInv, RowPlaceOK
<1> QED BY <1>2, <1>3, <1>4 DEF RowInv

LEMMA RowLoadWhitelistStep == ASSUME RowInv, NEW n \in Node, R!LoadWhitelist(n) PROVE RowInv'
<1>1. PICK c \in {"fresh", "late"} : rRam' = [rRam EXCEPT ![n] = c]
  BY DEF R!LoadWhitelist
<1>2. /\ rRead' = [rRead EXCEPT ![n] = R!Idle] /\ UNCHANGED <<rKind, rLive, rRedis, rWrite, rNews>> /\ R!InRam
      /\ c \in R!Copy /\ c # "stale"
  BY DEF R!LoadWhitelist
<1> QED BY <1>1, <1>2, RowIdleSlot, RowRamStep

LEMMA RowFillRamStep == ASSUME RowInv, NEW n \in Node, R!FillRam(n) PROVE RowInv'
<1>1. rRead[n] \in RowSlot /\ RowNodeOK(n) /\ RowPlaceOK
  BY DEF RowInv, RowTyped
<1> DEFINE s == IF rRead[n].redis = "none" THEN R!Idle
                ELSE [rRead[n] EXCEPT !.at = "set", !.ram = "none"]
<1>2. s \in RowSlot /\ s.ram = "none" /\ s.redis = rRead[n].redis /\ s.at # "ram"
  BY <1>1, RowIdleSlot
<1>3. rRead' = [rRead EXCEPT ![n] = s] /\ rRam' = [rRam EXCEPT ![n] = rRead[n].ram]
  BY DEF R!FillRam
<1>4. UNCHANGED <<rKind, rLive, rRedis, rWrite, rNews>> /\ rRead[n].ram \in R!Copy
  BY <1>1 DEF R!FillRam
<1> HIDE DEF s
<1>5. (~R!InRam => rRead[n].ram = "none") /\ (~R!InRedis => s.redis = "none")
  BY <1>1, <1>2 DEF RowPlaceOK
<1> QED BY <1>1, <1>2, <1>3, <1>4, <1>5, RowRamStep DEF RowNodeOK

LEMMA RowEvictStep == ASSUME RowInv, NEW n \in Node, R!Evict(n) PROVE RowInv'
<1>1. rRead[n] \in RowSlot /\ RowNodeOK(n) /\ RowPlaceOK /\ rRead \in [Node -> RowSlot]
  BY DEF RowInv, RowTyped
<1>2. /\ rRam' = [rRam EXCEPT ![n] = "none"] /\ rRead' = rRead
      /\ UNCHANGED <<rKind, rLive, rRedis, rWrite, rNews>>
  BY DEF R!Evict
<1>3. rRead' = [rRead EXCEPT ![n] = rRead[n]]
  BY <1>1, <1>2
<1>4. (~R!InRam => rRead[n].ram = "none" /\ rRead[n].at # "ram") /\ (~R!InRedis => rRead[n].redis = "none")
  BY <1>1 DEF RowPlaceOK
<1> QED BY <1>1, <1>2, <1>3, <1>4, RowRamStep, ZenonT(40) DEF RowNodeOK

LEMMA RowSetJSONStep == ASSUME RowInv, NEW n \in Node, R!SetJSON(n) PROVE RowInv'
<1>1. rRead[n] \in RowSlot /\ RowNodeOK(n) /\ RowPlaceOK /\ RowRedisOK /\ rRedis \in R!Copy
  BY DEF RowInv, RowTyped
<1>2. /\ rRedis' \in {rRedis, rRead[n].redis} /\ rRead' = [rRead EXCEPT ![n] = R!Idle]
      /\ UNCHANGED <<rKind, rLive, rRam, rWrite, rNews>>
  BY DEF R!SetJSON
<1>3. rRead' \in [Node -> RowSlot] /\ rRead'[n] = R!Idle /\ \A m \in Node : m # n => rRead'[m] = rRead[m]
  BY <1>2, RowIdleSlot DEF RowInv, RowTyped
<1>4. RowTyped' /\ RowRedisOK'
  BY <1>1, <1>2, <1>3 DEF RowInv, RowTyped, RowRedisOK, RowNodeOK
<1>5. \A m \in Node : RowNodeOK(m)'
  BY <1>2, <1>3, RowIdleSlot DEF RowInv, RowNodeOK
<1>6. RowPlaceOK'
  BY <1>1, <1>2, <1>3, RowIdleSlot DEF RowPlaceOK
<1> QED BY <1>4, <1>5, <1>6 DEF RowInv

LEMMA RowExpireStep == ASSUME RowInv, R!Expire PROVE RowInv'
  BY DEF R!Expire, RowInv, RowTyped, RowRedisOK, RowNodeOK, RowPlaceOK

-----------------------------------------------------------------------------
(***************************************************************************)
(* The row changes, and its copies are removed.                            *)
(***************************************************************************)
RowWriteType == [at : {"idle", "row", "ram", "del", "publish"}, node : Node, early : BOOLEAN]

LEMMA RowChangeTyped ==
  ASSUME RowInv, NEW as \in {"stale", "late"}, R!Change(as)
  PROVE  /\ rLive' \in BOOLEAN /\ rRedis' \in R!Copy /\ rRam' \in [Node -> R!Copy] /\ rRead' \in [Node -> RowSlot]
         /\ rKind' = rKind /\ rNews' = rNews
         /\ rRedis' = R!Aged(rRedis, as)
         /\ \A n \in Node : /\ rRam'[n] = R!Aged(rRam[n], as) /\ rRead'[n].ram = R!Aged(rRead[n].ram, as)
                            /\ rRead'[n].redis = R!Aged(rRead[n].redis, as) /\ rRead'[n].at = rRead[n].at
<1> DEFINE s(n) == [rRead[n] EXCEPT !.ram = R!Aged(rRead[n].ram, as), !.redis = R!Aged(rRead[n].redis, as)]
<1>1. ASSUME NEW n \in Node
      PROVE  /\ rRam[n] \in R!Copy /\ rRead[n] \in RowSlot /\ s(n) \in RowSlot
             /\ s(n).ram = R!Aged(rRead[n].ram, as) /\ s(n).redis = R!Aged(rRead[n].redis, as)
             /\ s(n).at = rRead[n].at
  <2>1. rRam[n] \in R!Copy /\ rRead[n] \in RowSlot
    BY DEF RowInv, RowTyped
  <2>2. R!Aged(rRead[n].ram, as) \in R!Copy /\ R!Aged(rRead[n].redis, as) \in R!Copy
    BY <2>1, RowAgedTyped
  <2> QED BY <2>1, <2>2
<1>2. rRead' = [n \in Node |-> s(n)]
  BY DEF R!Change
<1> HIDE DEF s
<1>3. rRead' \in [Node -> RowSlot] /\ \A n \in Node : rRead'[n] = s(n)
  BY <1>1, <1>2
<1>4. /\ rLive' \in BOOLEAN /\ rRedis' = R!Aged(rRedis, as) /\ rRam' = [n \in Node |-> R!Aged(rRam[n], as)]
      /\ rKind' = rKind /\ rNews' = rNews
  BY DEF R!Change
<1>5. rRedis' \in R!Copy /\ rRam' \in [Node -> R!Copy]
  BY <1>1, <1>4, RowAgedTyped DEF RowInv, RowTyped
<1> QED BY <1>1, <1>3, <1>4, <1>5, ZenonT(40)

LEMMA RowChangePlace ==
  ASSUME RowInv, NEW as \in {"stale", "late"}, R!Change(as)
  PROVE  /\ ~R!InRam => \A n \in Node : rRam'[n] = "none" /\ rRead'[n].ram = "none" /\ rRead'[n].at # "ram"
         /\ ~R!InRedis => rRedis' = "none" /\ \A n \in Node : rRead'[n].redis = "none"
<1>1. /\ rRedis' = R!Aged(rRedis, as)
      /\ \A n \in Node : /\ rRam'[n] = R!Aged(rRam[n], as) /\ rRead'[n].ram = R!Aged(rRead[n].ram, as)
                         /\ rRead'[n].redis = R!Aged(rRead[n].redis, as) /\ rRead'[n].at = rRead[n].at
  BY RowChangeTyped
<1>2. RowPlaceOK
  BY DEF RowInv
<1> QED BY <1>1, <1>2, ZenonT(40) DEF RowPlaceOK, R!Aged

\* After a change that no request will follow up, no copy is stale.
LEMMA RowChangeLate ==
  ASSUME RowInv, R!Change("late"), rWrite' \in RowWriteType,
         rWrite'.at = "idle" \/ (rWrite' = rWrite)
  PROVE  RowInv'
<1>1. /\ rLive' \in BOOLEAN /\ rRedis' \in R!Copy /\ rRam' \in [Node -> R!Copy] /\ rRead' \in [Node -> RowSlot]
      /\ rKind' = rKind /\ rNews' = rNews
      /\ rRedis' # "stale"
      /\ \A n \in Node : rRam'[n] # "stale" /\ rRead'[n].ram # "stale" /\ rRead'[n].redis # "stale"
  BY RowChangeTyped DEF R!Aged
<1>2. RowTyped' /\ RowRedisOK' /\ (\A n \in Node : RowNodeOK(n))'
  BY <1>1 DEF RowInv, RowTyped, RowRedisOK, RowNodeOK, RowWriteType
<1>3. RowPlaceOK'
  BY <1>1, RowChangePlace DEF RowInv, RowPlaceOK
<1> QED BY <1>2, <1>3 DEF RowInv

LEMMA RowChangeFirstStep ==
  ASSUME RowInv, NEW n \in Node,
         NEW k, NEW at,
         \/ k \in {"user", "token", "upload", "source", "provider", "whitelist"} /\ at = "ram"
         \/ k = "push" /\ at = "del"
         \/ k = "captcha" /\ at = "publish",
         R!ChangeFirst(n, k, at)
  PROVE  RowInv'
<1>0. /\ rKind = k /\ rWrite' = [at |-> at, node |-> n, early |-> FALSE] /\ R!Change("stale")
  BY DEF R!ChangeFirst
<1>1. /\ rLive' \in BOOLEAN /\ rRedis' \in R!Copy /\ rRam' \in [Node -> R!Copy] /\ rRead' \in [Node -> RowSlot]
      /\ rKind' = rKind /\ rNews' = rNews
  BY <1>0, RowChangeTyped
<1>2. rWrite' \in RowWriteType /\ rWrite'.at = at /\ rWrite'.early = FALSE /\ at \in {"ram", "del", "publish"}
  BY <1>0 DEF RowWriteType
<1>3. /\ ~R!InRam => \A m \in Node : rRam'[m] = "none" /\ rRead'[m].ram = "none" /\ rRead'[m].at # "ram"
      /\ ~R!InRedis => rRedis' = "none" /\ \A m \in Node : rRead'[m].redis = "none"
  BY <1>0, RowChangePlace
<1>4. RowTyped'
  BY <1>1, <1>2 DEF RowInv, RowTyped, RowWriteType
<1>5. RowRedisOK' /\ (\A m \in Node : RowNodeOK(m))'
  BY <1>0, <1>1, <1>2, <1>3 DEF RowRedisOK, RowNodeOK
<1>6. RowPlaceOK'
  BY <1>0, <1>1, <1>2, <1>3 DEF RowPlaceOK
<1> QED BY <1>4, <1>5, <1>6 DEF RowInv

LEMMA RowUntoldStep == ASSUME RowInv, R!ChangeUntold PROVE RowInv'
  BY RowChangeLate DEF R!ChangeUntold, RowInv, RowTyped, RowWriteType

LEMMA RowDeleteTokenStep == ASSUME RowInv, NEW n \in Node, R!DeleteToken(n) PROVE RowInv'
<1>1. /\ rKind = "token" /\ rWrite.at = "idle" /\ rWrite' = [at |-> "ram", node |-> n, early |-> TRUE]
      /\ UNCHANGED <<rKind, rLive, rRedis, rRam, rRead, rNews>>
  BY DEF R!DeleteToken
<1>2. rWrite' \in RowWriteType /\ rWrite'.at = "ram"
  BY <1>1 DEF RowWriteType
<1> QED BY <1>1, <1>2 DEF RowInv, RowTyped, RowRedisOK, RowNodeOK, RowPlaceOK, RowWriteType

LEMMA RowGotoTyped ==
  ASSUME RowInv, NEW at \in {"idle", "row", "ram", "del", "publish"}, R!Goto(at)
  PROVE  rWrite' \in RowWriteType /\ rWrite'.at = at /\ rWrite'.early = rWrite.early
<1>1. rWrite \in RowWriteType
  BY DEF RowInv, RowTyped, RowWriteType
<1> QED BY <1>1 DEF R!Goto, RowWriteType

LEMMA RowDeleteTokenRowStep == ASSUME RowInv, R!DeleteTokenRow PROVE RowInv'
<1>1. rWrite' \in RowWriteType /\ rWrite'.at = "idle" /\ rWrite.at = "row"
  BY RowGotoTyped DEF R!DeleteTokenRow
<1>2. CASE R!Change("late")
  BY <1>1, <1>2, RowChangeLate
<1>3. CASE UNCHANGED <<rKind, rLive, rRedis, rRam, rRead, rNews>>
  BY <1>1, <1>3 DEF RowInv, RowTyped, RowRedisOK, RowNodeOK, RowPlaceOK, RowWriteType
<1> QED BY <1>2, <1>3 DEF R!DeleteTokenRow

LEMMA RowReadLateTyped ==
  ASSUME RowInv, NEW ns \in SUBSET Node
  PROVE  \A n \in Node :
           /\ R!ReadLate(ns)[n] \in RowSlot /\ R!ReadLate(ns)[n].at = rRead[n].at
           /\ R!ReadLate(ns)[n].redis = rRead[n].redis
           /\ R!ReadLate(ns)[n].ram = (IF n \in ns THEN R!Missed(rRead[n].ram) ELSE rRead[n].ram)
<1> SUFFICES ASSUME NEW n \in Node
             PROVE  /\ R!ReadLate(ns)[n] \in RowSlot /\ R!ReadLate(ns)[n].at = rRead[n].at
                    /\ R!ReadLate(ns)[n].redis = rRead[n].redis
                    /\ R!ReadLate(ns)[n].ram = (IF n \in ns THEN R!Missed(rRead[n].ram) ELSE rRead[n].ram)
  OBVIOUS
<1>1. rRead[n] \in RowSlot
  BY DEF RowInv, RowTyped
<1>2. R!Missed(rRead[n].ram) \in R!Copy
  BY <1>1, RowAgedTyped
<1>3. R!ReadLate(ns)[n] = IF n \in ns THEN [rRead[n] EXCEPT !.ram = R!Missed(rRead[n].ram)] ELSE rRead[n]
  BY DEF R!ReadLate
<1> QED BY <1>1, <1>2, <1>3

\* The memories of some processes are cleared, and those of others have missed it.
LEMMA RowRemoval ==
  ASSUME RowInv, NEW deaf \in SUBSET Node, rRead' = R!ReadLate(deaf), rRam' \in [Node -> R!Copy],
         UNCHANGED <<rKind, rLive, rRedis>>, rNews' \in SUBSET Node, rWrite' \in RowWriteType,
         \A n \in Node : rRam'[n] \in {rRam[n], R!Missed(rRam[n]), "none"},
         rRedis = "stale" => rWrite'.at \in {"ram", "del"},
         \A n \in Node : rRead[n].redis = "stale" => rWrite'.at \in {"ram", "del"},
         \A n \in Node : n \in deaf \/ n \in rNews' \/ rWrite'.at \in {"ram", "del", "publish"}
                         \/ (rRam[n] # "stale" /\ rRead[n].ram # "stale"),
         \A n \in Node : n \in deaf /\ n \notin rNews' => rRam'[n] \in {R!Missed(rRam[n]), "none"},
         rKind \in {"provider", "whitelist"} => rWrite'.at \in {"idle", "ram", "publish"},
         rKind = "provider" => rWrite'.at # "publish",
         rKind = "captcha" => rWrite'.at \in {"idle", "publish", "ram"},
         rKind = "push" => rWrite'.at \in {"idle", "del"},
         rKind # "token" => ~rWrite'.early \/ rWrite'.at = "idle"
  PROVE  RowInv'
<1>1. \A n \in Node : /\ rRead'[n] \in RowSlot /\ rRead'[n].at = rRead[n].at
                      /\ rRead'[n].redis = rRead[n].redis
                      /\ rRead'[n].ram = (IF n \in deaf THEN R!Missed(rRead[n].ram) ELSE rRead[n].ram)
  BY RowReadLateTyped
<1>2. rRead' \in [Node -> RowSlot]
  BY <1>1 DEF R!ReadLate
<1>3. \A c \in R!Copy : R!Missed(c) # "stale" /\ (R!Missed(c) = "none" <=> c = "none")
  BY RowAgedTyped
<1>4. \A n \in Node : rRam[n] \in R!Copy /\ rRead[n].ram \in R!Copy
  BY DEF RowInv, RowTyped
<1>5. RowTyped' /\ RowRedisOK'
  BY <1>2 DEF RowInv, RowTyped, RowRedisOK, RowWriteType
<1>6. ASSUME NEW n \in Node PROVE RowNodeOK(n)'
  <2>1. rRead'[n].redis = "stale" => rWrite'.at \in {"ram", "del"}
    BY <1>1
  <2>2. CASE n \in deaf
    BY <1>1, <1>3, <1>4, <2>1, <2>2 DEF RowNodeOK
  <2>3. CASE n \notin deaf
    BY <1>1, <1>3, <1>4, <2>1, <2>3 DEF RowNodeOK
  <2> QED BY <2>2, <2>3
<1>7. RowPlaceOK'
  BY <1>1, <1>3, <1>4 DEF RowInv, RowPlaceOK
<1> QED BY <1>5, <1>6, <1>7 DEF RowInv

LEMMA RowInvalidateRamStep == ASSUME RowInv, R!InvalidateRam PROVE RowInv'
<1> DEFINE last == rKind \in {"provider", "captcha"}
           deaf == IF last THEN Node \ rNews ELSE {}
           at == IF R!InRedis THEN "del" ELSE IF last THEN "idle" ELSE "publish"
<1>1. /\ rWrite.at = "ram" /\ R!Goto(at) /\ UNCHANGED <<rKind, rLive, rRedis, rNews>> /\ rRead' = R!ReadLate(deaf)
      /\ rRam' = [m \in Node |-> IF m = rWrite.node THEN "none"
                                ELSE IF m \in deaf THEN R!Missed(rRam[m]) ELSE rRam[m]]
  BY DEF R!InvalidateRam
<1>2. rWrite' \in RowWriteType /\ rWrite'.at = at /\ rWrite'.early = rWrite.early
  BY <1>1, RowGotoTyped
<1>3. RowTyped /\ RowPlaceOK /\ (\A n \in Node : RowNodeOK(n)) /\ RowRedisOK
  BY DEF RowInv
<1>4. \A m \in Node : rRam[m] \in R!Copy /\ R!Missed(rRam[m]) \in R!Copy
  BY <1>3, RowAgedTyped DEF RowTyped
<1>5. /\ rRam' \in [Node -> R!Copy] /\ \A m \in Node : rRam'[m] \in {rRam[m], R!Missed(rRam[m]), "none"}
      /\ \A m \in deaf : rRam'[m] \in {R!Missed(rRam[m]), "none"}
  BY <1>1, <1>4
<1>6. /\ rRedis = "stale" => at = "del"
      /\ \A n \in Node : rRead[n].redis = "stale" => at = "del"
  BY <1>3 DEF RowPlaceOK
<1>7. \A n \in Node : n \in deaf \/ n \in rNews \/ at \in {"del", "publish"}
  OBVIOUS
<1>8. /\ rKind # "push" /\ deaf \in SUBSET Node /\ rNews' \in SUBSET Node
      /\ rKind \in {"provider", "captcha"} => at = "idle"
      /\ rKind = "whitelist" => at = "publish"
      /\ rKind # "token" => ~rWrite.early
  BY <1>1, <1>3 DEF RowTyped, RowPlaceOK
<1> HIDE DEF at, deaf, last
<1> QED BY <1>1, <1>2, <1>5, <1>6, <1>7, <1>8, RowRemoval

LEMMA RowPublishStep == ASSUME RowInv, R!Publish PROVE RowInv'
<1>1. PICK ns \in SUBSET Node :
         /\ rNews' = rNews \cup ns
         /\ rRam'  = [n \in Node |-> IF n \in ns \cup rNews THEN rRam[n] ELSE R!Missed(rRam[n])]
         /\ rRead' = R!ReadLate(Node \ (ns \cup rNews))
  BY DEF R!Publish
<1> DEFINE at == IF rKind = "captcha" THEN "ram" ELSE R!After
           deaf == Node \ (ns \cup rNews)
<1>2. rWrite.at = "publish" /\ R!Goto(at) /\ UNCHANGED <<rKind, rLive, rRedis>>
  BY DEF R!Publish
<1>3. at \in {"idle", "row", "ram"}
  BY DEF R!After
<1>4. rWrite' \in RowWriteType /\ rWrite'.at = at /\ rWrite'.early = rWrite.early
  BY <1>2, <1>3, RowGotoTyped
<1>5. RowTyped /\ RowPlaceOK /\ (\A n \in Node : RowNodeOK(n)) /\ RowRedisOK
  BY DEF RowInv
<1>6. \A m \in Node : rRam[m] \in R!Copy /\ R!Missed(rRam[m]) \in R!Copy
  BY <1>5, RowAgedTyped DEF RowTyped
<1>7. /\ rRam' \in [Node -> R!Copy] /\ \A m \in Node : rRam'[m] \in {rRam[m], R!Missed(rRam[m]), "none"}
      /\ \A m \in deaf : rRam'[m] = R!Missed(rRam[m])
  BY <1>1, <1>6
<1>8. rRedis # "stale" /\ \A n \in Node : rRead[n].redis # "stale"
  BY <1>2, <1>5 DEF RowRedisOK, RowNodeOK
<1>9. /\ rKind # "push" /\ rKind # "provider" /\ deaf \in SUBSET Node /\ rNews' \in SUBSET Node
      /\ rKind = "captcha" => at = "ram"
      /\ rKind = "whitelist" => at = "idle"
      /\ rKind # "token" => ~rWrite.early
      /\ \A n \in Node : n \in deaf \/ n \in rNews'
  BY <1>1, <1>2, <1>5 DEF RowTyped, RowPlaceOK, R!After
<1>10. rRead' = R!ReadLate(deaf)
  BY <1>1
<1> HIDE DEF at, deaf
<1> QED BY <1>2, <1>3, <1>4, <1>7, <1>8, <1>9, <1>10, RowRemoval

LEMMA RowHearStep == ASSUME RowInv, NEW n \in Node, NEW kinds, R!Hear(n, kinds) PROVE RowInv'
<1>1. /\ rNews' = rNews \ {n} /\ rRam' = [rRam EXCEPT ![n] = "none"] /\ rRead' = R!ReadLate({n})
      /\ UNCHANGED <<rKind, rLive, rRedis, rWrite>>
  BY DEF R!Hear
<1>2. RowTyped /\ RowPlaceOK /\ (\A m \in Node : RowNodeOK(m)) /\ RowRedisOK
  BY DEF RowInv
<1>3. /\ rRam' \in [Node -> R!Copy] /\ rRam'[n] = "none" /\ \A m \in Node : m # n => rRam'[m] = rRam[m]
      /\ rNews' \in SUBSET Node /\ rWrite' \in RowWriteType /\ rWrite' = rWrite
  BY <1>1, <1>2 DEF RowTyped, RowWriteType
<1>4. \A m \in Node : m \in {n} \/ m \in rNews' \/ rWrite'.at \in {"ram", "del", "publish"}
                      \/ (rRam[m] # "stale" /\ rRead[m].ram # "stale")
  BY <1>1, <1>2 DEF RowNodeOK
<1>5. /\ rRedis = "stale" => rWrite'.at \in {"ram", "del"}
      /\ \A m \in Node : rRead[m].redis = "stale" => rWrite'.at \in {"ram", "del"}
  BY <1>2, <1>3 DEF RowRedisOK, RowNodeOK
<1>6. /\ rKind \in {"provider", "whitelist"} => rWrite'.at \in {"idle", "ram", "publish"}
      /\ rKind = "provider" => rWrite'.at # "publish"
      /\ rKind = "captcha" => rWrite'.at \in {"idle", "publish", "ram"}
      /\ rKind = "push" => rWrite'.at \in {"idle", "del"}
      /\ rKind # "token" => ~rWrite'.early \/ rWrite'.at = "idle"
  BY <1>2, <1>3 DEF RowPlaceOK
<1> QED BY <1>1, <1>3, <1>4, <1>5, <1>6, RowRemoval

LEMMA RowInvalidateRedisStep == ASSUME RowInv, R!InvalidateRedis PROVE RowInv'
<1>1. PICK failed \in BOOLEAN :
        LET silent == failed /\ rKind = "source"
            heard  == IF silent THEN Node ELSE {}
        IN /\ R!Goto(IF R!InRam /\ ~silent THEN "publish" ELSE R!After)
           /\ rRedis' = IF failed THEN R!Missed(rRedis) ELSE "none"
           /\ rRam'   = [n \in Node |-> IF silent THEN R!Missed(rRam[n]) ELSE rRam[n]]
           /\ rRead'  = [n \in Node |-> [R!ReadLate(heard)[n] EXCEPT !.redis = R!Missed(@)]]
  BY DEF R!InvalidateRedis
<1> DEFINE silent == failed /\ rKind = "source"
           heard  == IF silent THEN Node ELSE {}
           at == IF R!InRam /\ ~silent THEN "publish" ELSE R!After
           s(n) == [R!ReadLate(heard)[n] EXCEPT !.redis = R!Missed(R!ReadLate(heard)[n].redis)]
<1>2. RowTyped /\ RowPlaceOK /\ (\A n \in Node : RowNodeOK(n)) /\ RowRedisOK
  BY DEF RowInv
<1>3. rWrite.at = "del" /\ UNCHANGED <<rKind, rLive, rNews>> /\ at \in {"idle", "row", "publish"}
  BY DEF R!InvalidateRedis, R!After
<1>4. rWrite' \in RowWriteType /\ rWrite'.at = at /\ rWrite'.early = rWrite.early
  BY <1>1, <1>3, RowGotoTyped
<1>5. \A c \in R!Copy : R!Missed(c) \in R!Copy /\ R!Missed(c) # "stale" /\ (R!Missed(c) = "none" <=> c = "none")
  BY RowAgedTyped
<1>6. \A n \in Node : rRam[n] \in R!Copy /\ rRead[n] \in RowSlot /\ rRead[n].redis \in R!Copy /\ rRead[n].ram \in R!Copy
  BY <1>2 DEF RowTyped
<1>7. ASSUME NEW n \in Node
      PROVE  /\ s(n) \in RowSlot /\ s(n).at = rRead[n].at /\ s(n).redis = R!Missed(rRead[n].redis)
             /\ s(n).ram = (IF n \in heard THEN R!Missed(rRead[n].ram) ELSE rRead[n].ram)
  <2>1. /\ R!ReadLate(heard)[n] \in RowSlot /\ R!ReadLate(heard)[n].at = rRead[n].at
        /\ R!ReadLate(heard)[n].redis = rRead[n].redis
        /\ R!ReadLate(heard)[n].ram = (IF n \in heard THEN R!Missed(rRead[n].ram) ELSE rRead[n].ram)
    BY RowReadLateTyped
  <2>2. R!Missed(rRead[n].redis) \in R!Copy
    BY <1>5, <1>6
  <2> QED BY <2>1, <2>2
<1>8. rRead' = [n \in Node |-> s(n)]
  BY <1>1
<1>9. /\ rRedis' \in {R!Missed(rRedis), "none"} /\ rRedis \in R!Copy
      /\ rRam' = [n \in Node |-> IF silent THEN R!Missed(rRam[n]) ELSE rRam[n]]
  BY <1>1, <1>2 DEF RowTyped
<1>10. /\ silent => heard = Node
       /\ ~silent /\ R!InRam => at = "publish"
       /\ rKind # "captcha" /\ rKind # "provider" /\ rKind # "whitelist"
       /\ rKind = "push" => at = "idle"
       /\ rKind # "token" => ~rWrite.early
  BY <1>2, <1>3 DEF RowPlaceOK, R!After
<1> HIDE DEF s, at, silent, heard
<1>11. rRead' \in [Node -> RowSlot] /\ \A n \in Node : rRead'[n] = s(n)
  BY <1>7, <1>8
<1>12. rRedis' \in R!Copy /\ rRedis' # "stale" /\ rRam' \in [Node -> R!Copy]
  BY <1>5, <1>6, <1>9
<1>13. RowTyped' /\ RowRedisOK'
  BY <1>2, <1>3, <1>4, <1>11, <1>12 DEF RowTyped, RowRedisOK, RowWriteType
<1>14. ASSUME NEW n \in Node PROVE RowNodeOK(n)'
  <2>1. rRead'[n].redis # "stale"
    BY <1>5, <1>6, <1>7, <1>11
  <2>2. CASE silent
    BY <1>5, <1>6, <1>7, <1>9, <1>10, <1>11, <2>1, <2>2 DEF RowNodeOK
  <2>3. CASE ~silent /\ R!InRam
    BY <1>4, <1>10, <2>1, <2>3 DEF RowNodeOK
  <2>4. CASE ~silent /\ ~R!InRam
    <3>1. rRam'[n] = "none"
      BY <1>2, <1>9, <2>4 DEF RowPlaceOK
    <3>2. rRead'[n].ram = "none"
      BY <1>2, <1>5, <1>7, <1>11, <2>4 DEF RowPlaceOK
    <3> QED BY <2>1, <3>1, <3>2 DEF RowNodeOK
  <2> QED BY <2>2, <2>3, <2>4
<1>15. RowPlaceOK'
  <2>1. ~R!InRam => \A n \in Node : rRam'[n] = "none" /\ rRead'[n].ram = "none" /\ rRead'[n].at # "ram"
    <3> SUFFICES ASSUME ~R!InRam, NEW n \in Node
                 PROVE  rRam'[n] = "none" /\ rRead'[n].ram = "none" /\ rRead'[n].at # "ram"
      OBVIOUS
    <3>1. rRam[n] = "none" /\ rRead[n].ram = "none" /\ rRead[n].at # "ram"
      BY <1>2 DEF RowPlaceOK
    <3> QED BY <1>5, <1>7, <1>9, <1>11, <3>1
  <2>2. R!InRedis
    BY <1>10
  <2> QED BY <1>3, <1>4, <1>10, <2>1, <2>2 DEF RowPlaceOK
<1> QED BY <1>13, <1>14, <1>15 DEF RowInv

-----------------------------------------------------------------------------
LEMMA RowInitHolds == ASSUME R!Init PROVE RowInv
<1>1. PICK n \in Node : rWrite = [at |-> "idle", node |-> n, early |-> FALSE]
  BY DEF R!Init
<1>2. rWrite \in RowWriteType /\ rWrite.at = "idle"
  BY <1>1 DEF RowWriteType
<1> QED BY <1>2, RowIdleSlot DEF R!Init, RowInv, RowTyped, RowRedisOK, RowNodeOK, RowPlaceOK, RowWriteType

LEMMA RowNextKeeps == ASSUME RowInv, [R!Next]_(R!vars) PROVE RowInv'
<1>1. CASE UNCHANGED R!vars
  BY <1>1 DEF R!vars, RowInv, RowTyped, RowRedisOK, RowNodeOK, RowPlaceOK
<1>2. ASSUME NEW n \in Node,
             \/ R!GetCachedToken(n) \/ R!GetCachedUser(n) \/ R!GetUploadByID(n)
             \/ R!GetAuthSourceByNameCached(n) \/ R!GetActivePushEventByKey(n) \/ R!GetProvider(n)
             \/ R!CurrentSettings(n) \/ R!IsFilePublic(n)
      PROVE  RowInv'
  BY <1>2, RowLookUpStep DEF R!GetCachedToken, R!GetCachedUser, R!GetUploadByID, R!GetAuthSourceByNameCached,
     R!GetActivePushEventByKey, R!GetProvider, R!CurrentSettings, R!IsFilePublic
<1>3. ASSUME NEW n \in Node,
             \/ R!LoadUser(n) \/ R!LoadUpload(n) \/ R!LoadSource(n) \/ R!LoadPush(n) \/ R!Discover(n)
      PROVE  RowInv'
  BY <1>3, RowLoadRowStep DEF R!LoadUser, R!LoadUpload, R!LoadSource, R!LoadPush, R!Discover
<1>4. ASSUME NEW n \in Node,
             \/ R!LoadSettings(n) \/ R!LoadWhitelist(n) \/ R!GetJSON(n) \/ R!Login(n) \/ R!FillRam(n)
             \/ R!SetJSON(n) \/ R!Evict(n) \/ R!DeleteToken(n)
      PROVE  RowInv'
  BY <1>4, RowLoadSettingsStep, RowLoadWhitelistStep, RowGetJSONStep, RowLoginStep, RowFillRamStep, RowSetJSONStep,
     RowEvictStep, RowDeleteTokenStep
<1>5. ASSUME NEW n \in Node,
             \/ R!UpdateCaptcha(n) \/ R!UpdateWhitelist(n) \/ R!UpdateUser(n) \/ R!DeleteUser(n)
             \/ R!RemoveUpload(n) \/ R!UpdateSource(n) \/ R!SavePushEvent(n) \/ R!UpdateProvider(n)
      PROVE  RowInv'
  BY <1>5, RowChangeFirstStep DEF R!UpdateCaptcha, R!UpdateWhitelist, R!UpdateUser, R!DeleteUser,
     R!RemoveUpload, R!UpdateSource, R!SavePushEvent, R!UpdateProvider
<1>6. ASSUME NEW n \in Node,
             R!HearUser(n) \/ R!HearUpload(n) \/ R!HearSource(n) \/ R!HearSettings(n) \/ R!HearWhitelist(n)
      PROVE  RowInv'
  BY <1>6, RowHearStep DEF R!HearUser, R!HearUpload, R!HearSource, R!HearSettings, R!HearWhitelist
<1>7. CASE \/ R!UpdateMyFile \/ R!RekeyUpload \/ R!DeleteTokenRow \/ R!InvalidateRam \/ R!InvalidateRedis
           \/ R!Publish \/ R!Expire
  BY <1>7, RowUntoldStep, RowDeleteTokenRowStep, RowInvalidateRamStep, RowInvalidateRedisStep, RowPublishStep,
     RowExpireStep DEF R!UpdateMyFile, R!RekeyUpload
<1> QED BY <1>1, <1>2, <1>3, <1>4, <1>5, <1>6, <1>7 DEF R!Next

LEMMA RowCopiesInvariant == R!Spec => []RowInv
<1>1. R!Init => RowInv
  BY RowInitHolds
<1>2. RowInv /\ [R!Next]_(R!vars) => RowInv'
  BY RowNextKeeps
<1> QED BY <1>1, <1>2, PTL DEF R!Spec

\* The row, its copies, the requests and the writer keep their types.
THEOREM CopiesTypeCorrect == R!Spec => []R!TypeOK
<1>1. RowInv => R!TypeOK
  BY DEF RowInv, RowTyped, R!TypeOK
<1> QED BY <1>1, RowCopiesInvariant, PTL

\* However many processes read, change and hear of the row, a copy that differs
\* from it is about to be removed or its removal is known to have been missed.
THEOREM CopiesGo == R!Spec => []R!OldCopiesGo
<1>1. RowInv => R!OldCopiesGo
  BY DEF RowInv, RowRedisOK, RowNodeOK, R!OldCopiesGo
<1> QED BY <1>1, RowCopiesInvariant, PTL
-----------------------------------------------------------------------------
LEMMA RowRuns == SuiteSpec => R!Spec
<1>1. SuiteInit => R!Init
  BY DEF SuiteInit
<1>2. [SuiteNext]_allVars => [R!Next]_(R!vars)
  BY DEF SuiteNext, allVars, rowVars, R!vars
<1> QED BY <1>1, <1>2, PTL DEF SuiteSpec, R!Spec

\* However many processes read, change and hear of the row, a copy that differs
\* from it is about to be removed or its removal is known to have been missed
\* (oauth/cache.go:201).
THEOREM CopiesOfRowsGo == SuiteSpec => []OldCopiesGo
<1>1. R!TypeOK /\ R!OldCopiesGo => OldCopiesGo
  BY DEF OldCopiesGo
<1> QED BY <1>1, RowRuns, CopiesTypeCorrect, CopiesGo, PTL

HIDE DEF R!InRam, R!InRedis, R!Refills, R!Copy, R!Kind, RowSlot
-----------------------------------------------------------------------------
(* Pixiv accounts *)

AccCall == [at : {"idle", "request", "latest", "reload", "exchange", "given", "login",
                  "persist", "find", "save", "create"},
            read : SUBSET A!Pair, answer : SUBSET A!Pair, spent : SUBSET A!Token]

AccFew(X) == X = {} \/ \E p \in A!Pair : X = {p}

AccTyped ==
  /\ AccFew(aRow) /\ aCall \in [Call -> AccCall]
  /\ \A c \in Call : AccFew(aCall[c].read) /\ AccFew(aCall[c].answer)
  /\ aLive \in SUBSET A!Token /\ aValid \in SUBSET A!Token /\ aLost \in SUBSET A!Token
  /\ aKnown \in SUBSET A!Token /\ aRotates \in BOOLEAN /\ aIssued \in A!Token
  /\ aFaults \in 0 .. MaxLostWrites

AccHolds == {"persist", "find", "save", "create"}

\* What a call has read is known; the refresh token it was answered is good and known to
\* nobody else before it is stored; without one, the token that was given is good.
AccOK(x) ==
  /\ \A p \in x.read : p.refresh \in aKnown
  /\ \A q \in x.answer : q.refresh = 0 \/ (q.refresh \in aLive /\ q.refresh \notin aKnown)
  /\ x.at \notin AccHolds => x.answer = {} /\ x.spent = {}
  /\ ~aRotates => x.spent = {}
  /\ aRotates => \A q \in x.answer : q.refresh # 0
  /\ x.at \in {"find", "save", "create"} =>
       \A q \in x.answer : q.refresh = 0 => \E p \in x.read : x.read = {p} /\ p.refresh \in aLive

\* No two calls were answered the same token.
AccApart ==
  \A c, d \in Call : c # d =>
    \A p \in aCall[c].answer, q \in aCall[d].answer : p.refresh = q.refresh => p.refresh = 0

\* Tokens are numbered as they are issued.
AccIssued == \A t \in aLive \cup aKnown : t <= aIssued

AccInv ==
  /\ AccTyped /\ (\A c \in Call : AccOK(aCall[c])) /\ AccApart /\ AccIssued
  /\ (\A p \in aRow : p.refresh \in aKnown) /\ A!StoredIsLive

LEMMA AccIdle == A!Idle \in AccCall /\ A!Idle.at = "idle" /\ A!Idle.read = {}
                 /\ A!Idle.answer = {} /\ A!Idle.spent = {}
  BY DEF A!Idle, AccCall

\* A call moves on: it knows no new token, and what it has spent is not forgotten.
LEMMA AccOnCall ==
  ASSUME AccInv, NEW c \in Call, NEW x \in AccCall, aCall' = [aCall EXCEPT ![c] = x],
         AccFew(x.read), AccFew(x.answer), AccOK(x), x.answer \subseteq aCall[c].answer,
         aCall[c].spent \subseteq x.spent \cup aLost',
         UNCHANGED <<aRow, aLive, aRotates, aIssued, aKnown>>,
         aValid' \in SUBSET A!Token, aLost' \in SUBSET A!Token, aLost \subseteq aLost',
         aFaults' \in 0 .. MaxLostWrites
  PROVE  AccInv'
<1>1. aCall' \in [Call -> AccCall] /\ aCall'[c] = x /\ \A d \in Call : d # c => aCall'[d] = aCall[d]
  BY DEF AccInv, AccTyped
<1>2. AccTyped'
  BY <1>1 DEF AccInv, AccTyped, AccFew
<1>3. \A d \in Call : AccOK(aCall[d])'
  BY <1>1 DEF AccInv, AccOK
<1>4. AccApart'
  BY <1>1 DEF AccInv, AccApart
<1>5. A!StoredIsLive'
  <2> SUFFICES ASSUME NEW p \in aRow', p.refresh \notin aLive', p.refresh \notin aLost'
               PROVE  \E d \in Call : p.refresh \in aCall'[d].spent
    BY DEF A!StoredIsLive
  <2>1. PICK d \in Call : p.refresh \in aCall[d].spent
    BY DEF AccInv, A!StoredIsLive
  <2> QED BY <1>1, <2>1
<1> QED BY <1>2, <1>3, <1>4, <1>5 DEF AccInv, AccIssued

LEMMA AccGoes ==
  ASSUME AccInv, NEW c \in Call, NEW at, A!Goes(c, at), UNCHANGED <<aRow, aLive, aValid, aRotates, aIssued,
         aKnown, aLost, aFaults>>,
         \/ aCall[c].at \in {"request", "latest"} /\ at \in {"latest", "reload"}
         \/ aCall[c].at = "find" /\ at \in {"save", "create"}
  PROVE  AccInv'
<1>1. aCall[c] \in AccCall /\ AccOK(aCall[c]) /\ AccFew(aCall[c].read) /\ AccFew(aCall[c].answer)
      /\ aFaults \in 0 .. MaxLostWrites /\ aLost \in SUBSET A!Token /\ aValid \in SUBSET A!Token
  BY DEF AccInv, AccTyped
<1>2. PICK x \in AccCall : /\ aCall' = [aCall EXCEPT ![c] = x] /\ x.at = at /\ x.read = aCall[c].read
                           /\ x.answer = aCall[c].answer /\ x.spent = aCall[c].spent
  <2> DEFINE y == [aCall[c] EXCEPT !.at = at]
  <2>1. aCall' = [aCall EXCEPT ![c] = y] /\ at \in {"latest", "reload", "save", "create"}
    BY <1>1 DEF A!Goes, AccInv, AccTyped
  <2>2. /\ y \in AccCall /\ y.at = at /\ y.read = aCall[c].read
        /\ y.answer = aCall[c].answer /\ y.spent = aCall[c].spent
    BY <1>1, <2>1 DEF AccCall
  <2> QED BY <2>1, <2>2
<1>3. AccOK(x)
  BY <1>1, <1>2 DEF AccOK, AccHolds
<1> QED BY <1>1, <1>2, <1>3, AccOnCall

\* A call ends whose spent tokens, if any, are lost.
LEMMA AccEnds ==
  ASSUME AccInv, NEW c \in Call, A!Ends(c), aLost' = aLost \cup aCall[c].spent,
         UNCHANGED <<aRow, aLive, aValid, aRotates, aIssued, aKnown>>, aFaults' \in 0 .. MaxLostWrites
  PROVE  AccInv'
<1>1. aCall[c] \in AccCall /\ aValid \in SUBSET A!Token /\ aLost' \in SUBSET A!Token
  BY DEF AccInv, AccTyped, AccCall
<1>2. AccOK(A!Idle) /\ AccFew(A!Idle.read) /\ AccFew(A!Idle.answer)
  BY AccIdle DEF AccOK, AccFew, AccHolds
<1> QED BY <1>1, <1>2, AccIdle, AccOnCall DEF A!Ends

\* A call stores a row: what it was answered, or what it was given, which is good.
LEMMA AccStores ==
  ASSUME AccInv, NEW c \in Call, A!Ends(c), AccFew(aRow'), aKnown' = A!Shown(aRow'),
         UNCHANGED <<aLive, aValid, aRotates, aIssued, aLost, aFaults>>,
         \A p \in aRow' :
           \/ p.refresh \in aLive /\ p.refresh # 0 /\ \E q \in aCall[c].answer : p.refresh = q.refresh
           \/ p.refresh \in aLive \cap aKnown
           \/ p \in {[access |-> q.access, refresh |-> o.refresh] : o \in aRow, q \in aCall[c].answer}
              /\ aCall[c].spent = {}
  PROVE  AccInv'
<1>0. /\ AccTyped /\ AccApart /\ AccIssued /\ A!StoredIsLive /\ aCall \in [Call -> AccCall]
      /\ \A d \in Call : AccOK(aCall[d]) /\ aCall[d] \in AccCall
      /\ \A p \in aRow : p.refresh \in aKnown
  BY DEF AccInv, AccTyped
<1>1. aCall' \in [Call -> AccCall] /\ aCall'[c] = A!Idle /\ \A d \in Call : d # c => aCall'[d] = aCall[d]
  BY <1>0, AccIdle DEF A!Ends
<1>2. aKnown' = aKnown \cup {p.refresh : p \in aRow'}
  BY DEF A!Shown
<1>3. \A p \in aRow' : p.refresh \in A!Token
  BY DEF AccFew, A!Pair
<1>4. AccTyped'
  BY <1>0, <1>1, <1>2, <1>3, AccIdle DEF AccTyped, AccFew
<1>5. ASSUME NEW p \in aRow' PROVE p.refresh \in aKnown \/ (p.refresh \in aLive /\ p.refresh # 0 /\ \E q \in aCall[c].answer : p.refresh = q.refresh)
  BY <1>0, <1>5
<1>6. ASSUME NEW d \in Call PROVE AccOK(aCall[d])'
  <2>1. CASE d = c
    BY <1>1, <2>1, AccIdle DEF AccOK, AccHolds
  <2>2. CASE d # c
    <3>1. aCall'[d] = aCall[d] /\ AccOK(aCall[d])
      BY <1>0, <1>1, <2>2
    <3>2. ASSUME NEW q \in aCall[d].answer, q.refresh # 0 PROVE q.refresh \notin aKnown'
      BY <1>0, <1>2, <1>5, <2>2, <3>1, <3>2 DEF AccOK, AccApart
    <3> QED BY <1>2, <3>1, <3>2 DEF AccOK
  <2> QED BY <2>1, <2>2
<1>7. AccApart'
  BY <1>0, <1>1, AccIdle DEF AccApart
<1>8. AccIssued'
  BY <1>0, <1>2, <1>5 DEF AccIssued
<1>9. ASSUME NEW p \in aRow', p.refresh \notin aLive, p.refresh \notin aLost
      PROVE  \E d \in Call : p.refresh \in aCall'[d].spent
  <2>1. PICK o \in aRow : p.refresh = o.refresh
    BY <1>9
  <2>2. PICK d \in Call : p.refresh \in aCall[d].spent
    BY <1>0, <1>9, <2>1 DEF A!StoredIsLive
  <2> QED BY <1>1, <1>9, <2>2
<1> QED BY <1>2, <1>4, <1>6, <1>7, <1>8, <1>9 DEF AccInv, A!StoredIsLive

LEMMA AccConstants == MaxToken \in Nat \ {0} /\ MaxLostWrites \in Nat /\ 0 \in A!Token /\ 1 \in A!Token
  BY ConstantsFit DEF A!AccountAssumption, A!Token

\* A call begins, with the row or with a token that is known.
LEMMA AccBegins ==
  ASSUME AccInv, NEW c \in Call, aCall[c] = A!Idle, NEW at \in {"request", "exchange", "given", "login"},
         NEW X \in SUBSET A!Pair, AccFew(X), \A p \in X : p.refresh \in aKnown,
         aCall' = [aCall EXCEPT ![c] = [A!Idle EXCEPT !.at = at, !.read = X]],
         UNCHANGED <<aRow, aLive, aValid, aRotates, aIssued, aKnown, aLost, aFaults>>
  PROVE  AccInv'
<1>1. PICK x \in AccCall : /\ aCall' = [aCall EXCEPT ![c] = x] /\ x.at = at /\ x.read = X
                           /\ x.answer = {} /\ x.spent = {}
  <2> DEFINE y == [A!Idle EXCEPT !.at = at, !.read = X]
  <2>1. y \in AccCall /\ y.at = at /\ y.read = X /\ y.answer = {} /\ y.spent = {}
    BY AccIdle DEF AccCall
  <2> QED BY <2>1
<1>2. AccOK(x) /\ AccFew(x.read) /\ AccFew(x.answer)
  BY <1>1 DEF AccOK, AccHolds, AccFew
<1>3. aCall[c].spent = {} /\ aFaults \in 0 .. MaxLostWrites /\ aLost \in SUBSET A!Token /\ aValid \in SUBSET A!Token
  BY AccIdle DEF AccInv, AccTyped
<1> QED BY <1>1, <1>2, <1>3, AccOnCall

\* Pixiv issues the tokens of number g and revokes those of T; the call goes on as x.
AccAnswered(c, x, T, g, h) ==
  /\ T \subseteq aKnown /\ g \in A!Token /\ h \in {0, g}
  /\ aCall' = [aCall EXCEPT ![c] = x] /\ g = aIssued + 1 /\ aIssued' = g
  /\ aCall[c].at \notin AccHolds /\ x.at \in AccHolds /\ x.read = aCall[c].read
  /\ x.spent = T /\ (T # {} => aRotates)
  /\ x.answer = {[access |-> g, refresh |-> h]} /\ (aRotates => h = g)
  /\ \/ aLive' = (aLive \ T) \cup {g}
     \/ h = 0 /\ T = {} /\ aLive' = aLive
  /\ h = 0 => \E p \in x.read : x.read = {p} /\ p.refresh \in aLive
  /\ aValid' \in SUBSET A!Token
  /\ UNCHANGED <<aRow, aRotates, aKnown, aLost, aFaults>>

LEMMA AccIssues ==
  ASSUME AccInv, NEW c \in Call, NEW x \in AccCall, NEW T, NEW g, NEW h, AccAnswered(c, x, T, g, h)
  PROVE  AccInv'
<1> USE DEF AccAnswered
<1>0. /\ AccTyped /\ AccApart /\ AccIssued /\ A!StoredIsLive /\ aCall \in [Call -> AccCall]
      /\ \A d \in Call : AccOK(aCall[d]) /\ aCall[d] \in AccCall
      /\ aIssued \in Nat /\ g \in Nat /\ aLive \subseteq Nat /\ aKnown \subseteq Nat
  BY AccConstants DEF AccInv, AccTyped, A!Token
<1>1. aCall' \in [Call -> AccCall] /\ aCall'[c] = x /\ \A d \in Call : d # c => aCall'[d] = aCall[d]
  BY <1>0
<1>2. aLive' \in SUBSET A!Token /\ g \notin aKnown /\ g \notin aLive /\ aLive \ T \subseteq aLive'
      /\ (h # 0 => h \in aLive')
  <2>1. \A t \in aLive \cup aKnown : t <= aIssued
    BY <1>0 DEF AccIssued
  <2>2. g \notin aLive \cup aKnown
    BY <1>0, <2>1
  <2> QED BY <1>0, <2>2 DEF AccTyped
<1>3. AccFew(x.answer) /\ AccFew(x.read)
  <2>1. [access |-> g, refresh |-> h] \in A!Pair
    BY AccConstants DEF A!Pair
  <2> QED BY <1>0, <2>1 DEF AccFew, AccTyped
<1>4. AccTyped'
  BY <1>0, <1>1, <1>2, <1>3 DEF AccTyped, AccFew
<1>5. ASSUME NEW d \in Call PROVE AccOK(aCall[d])'
  <2>1. CASE d = c
    <3>1. \A q \in x.answer : q.refresh = h
      OBVIOUS
    <3>2. \A p \in x.read : p.refresh \in aKnown
      BY <1>0 DEF AccOK
    <3>3. h = 0 => ~aRotates /\ T = {} /\ aLive \subseteq aLive'
      BY <1>0, <1>2
    <3>4. AccOK(x)'
      BY <1>2, <3>1, <3>2, <3>3 DEF AccOK
    <3> QED BY <1>1, <2>1, <3>4 DEF AccOK
  <2>2. CASE d # c
    <3>1. aCall'[d] = aCall[d] /\ AccOK(aCall[d])
      BY <1>0, <1>1, <2>2
    <3>2. ~aRotates => aLive \subseteq aLive'
      BY <1>2
    <3>3. \A t \in aLive : t \notin aKnown => t \in aLive'
      BY <1>2
    <3> QED BY <3>1, <3>2, <3>3 DEF AccOK
  <2> QED BY <2>1, <2>2
<1>6. AccApart'
  <2>1. ASSUME NEW d \in Call, d # c, NEW q \in aCall[d].answer PROVE q.refresh = h => h = 0
    BY <1>0, <1>2, <2>1 DEF AccOK
  <2>2. \A q \in x.answer : q.refresh = h
    OBVIOUS
  <2> QED BY <1>0, <1>1, <2>1, <2>2 DEF AccApart
<1>7. AccIssued'
  <2>1. aLive' \subseteq aLive \cup {g}
    OBVIOUS
  <2> QED BY <1>0, <2>1 DEF AccIssued
<1>8. A!StoredIsLive'
  <2> SUFFICES ASSUME NEW p \in aRow, p.refresh \notin aLive', p.refresh \notin aLost
               PROVE  \E d \in Call : p.refresh \in aCall'[d].spent
    BY DEF A!StoredIsLive
  <2>1. CASE p.refresh \in T
    BY <1>1, <2>1
  <2>2. CASE p.refresh \notin T
    <3>1. PICK d \in Call : p.refresh \in aCall[d].spent
      BY <1>0, <1>2, <2>2 DEF A!StoredIsLive
    <3>2. d # c
      BY <1>0, <3>1 DEF AccOK
    <3> QED BY <1>1, <3>1, <3>2
  <2> QED BY <2>1, <2>2
<1> QED BY <1>4, <1>5, <1>6, <1>7, <1>8 DEF AccInv

LEMMA AccStep == ASSUME AccInv, [A!Next]_(A!vars) PROVE AccInv'
<1>0. /\ AccTyped /\ AccApart /\ AccIssued /\ A!StoredIsLive /\ aCall \in [Call -> AccCall]
      /\ \A c \in Call : AccOK(aCall[c]) /\ aCall[c] \in AccCall
      /\ \A c \in Call : AccFew(aCall[c].read) /\ AccFew(aCall[c].answer)
      /\ \A p \in aRow : p.refresh \in aKnown
      /\ AccFew(aRow) /\ aRow \in SUBSET A!Pair
      /\ aKnown \in SUBSET A!Token /\ aLive \in SUBSET A!Token /\ aValid \in SUBSET A!Token
      /\ aIssued \in Nat /\ aFaults \in 0 .. MaxLostWrites
  BY AccConstants DEF AccInv, AccTyped, AccFew, A!Token
<1>1. CASE UNCHANGED A!vars
  BY <1>0, <1>1 DEF A!vars, AccInv, AccTyped, AccFew, AccOK, AccApart, AccIssued, A!StoredIsLive
<1>2. ASSUME NEW c \in Call, A!Load(c) \/ A!GetUserProfile(c) \/ A!RefreshAccount(c) PROVE AccInv'
  <2>1. PICK at \in {"request", "exchange"} :
          aCall' = [aCall EXCEPT ![c] = [A!Idle EXCEPT !.at = at, !.read = aRow]]
    BY <1>2 DEF A!Load, A!GetUserProfile, A!RefreshAccount
  <2>2. aCall[c] = A!Idle /\ UNCHANGED <<aRow, aLive, aValid, aRotates, aIssued, aKnown, aLost, aFaults>>
    BY <1>2 DEF A!Load, A!GetUserProfile, A!RefreshAccount
  <2>3. PICK X \in SUBSET A!Pair : X = aRow
    BY <1>0
  <2> QED BY <1>0, <2>1, <2>2, <2>3, AccBegins
<1>3. ASSUME NEW c \in Call, A!Request(c) \/ A!TryLatest(c) \/ A!Find(c) PROVE AccInv'
  <2>1. UNCHANGED <<aRow, aLive, aValid, aRotates, aIssued, aKnown, aLost, aFaults>>
    BY <1>3 DEF A!Request, A!TryLatest, A!Find
  <2>2. CASE A!Ends(c) /\ aCall[c].at \in {"request", "latest"}
    <3>1. aCall[c].spent = {}
      BY <1>0, <2>2 DEF AccOK, AccHolds
    <3> QED BY <1>0, <2>1, <2>2, <3>1, AccEnds
  <2>3. ASSUME NEW at, A!Goes(c, at),
               \/ aCall[c].at \in {"request", "latest"} /\ at \in {"latest", "reload"}
               \/ aCall[c].at = "find" /\ at \in {"save", "create"}
        PROVE  AccInv'
    BY <2>1, <2>3, AccGoes
  <2>4. CASE A!Request(c)
    BY <2>2, <2>3, <2>4 DEF A!Request
  <2>5. CASE A!TryLatest(c)
    BY <2>2, <2>3, <2>5 DEF A!TryLatest
  <2>6. CASE A!Find(c)
    BY <2>2, <2>3, <2>6 DEF A!Find
  <2> QED BY <1>3, <2>4, <2>5, <2>6
<1>4. ASSUME NEW c \in Call, A!Reload(c) PROVE AccInv'
  <2>1. aCall[c].at = "reload" /\ UNCHANGED <<aRow, aLive, aValid, aRotates, aIssued, aKnown, aLost, aFaults>>
    BY <1>4 DEF A!Reload
  <2> DEFINE X == IF aRow = {} THEN aCall[c].read ELSE aRow
  <2> DEFINE y == [aCall[c] EXCEPT !.at = "exchange", !.read = X]
  <2>2. X \in SUBSET A!Pair /\ AccFew(X) /\ \A p \in X : p.refresh \in aKnown
    BY <1>0 DEF AccOK, AccCall
  <2>3. aCall' = [aCall EXCEPT ![c] = y]
    BY <1>0, <1>4 DEF A!Reload
  <2>4. aCall[c].answer = {} /\ aCall[c].spent = {}
    BY <1>0, <2>1 DEF AccOK, AccHolds
  <2>5. y \in AccCall /\ y.at = "exchange" /\ y.read = X /\ y.answer = {} /\ y.spent = {}
    BY <1>0, <2>2, <2>4 DEF AccCall
  <2> HIDE DEF X, y
  <2>6. PICK x \in AccCall : aCall' = [aCall EXCEPT ![c] = x] /\ x = y
    BY <2>3, <2>5
  <2>7. AccOK(x) /\ AccFew(x.read) /\ AccFew(x.answer)
    BY <2>2, <2>5, <2>6 DEF AccOK, AccHolds, AccFew
  <2> QED BY <1>0, <2>1, <2>4, <2>5, <2>6, <2>7, AccOnCall DEF AccTyped
<1>5. ASSUME NEW c \in Call, NEW t \in aKnown, A!AddUser(c, t) PROVE AccInv'
  <2> DEFINE X == {[access |-> 0, refresh |-> t]}
  <2>1. X \in SUBSET A!Pair /\ AccFew(X) /\ \A p \in X : p.refresh \in aKnown
    BY <1>0, AccConstants DEF A!Pair, AccFew
  <2>2. /\ aCall[c] = A!Idle /\ UNCHANGED <<aRow, aLive, aValid, aRotates, aIssued, aKnown, aLost, aFaults>>
        /\ aCall' = [aCall EXCEPT ![c] = [A!Idle EXCEPT !.at = "given", !.read = X]]
    BY <1>5 DEF A!AddUser
  <2> HIDE DEF X
  <2> QED BY <2>1, <2>2, AccBegins
<1>6. ASSUME NEW c \in Call, A!LoginCallback(c) PROVE AccInv'
  <2> DEFINE y == [A!Idle EXCEPT !.at = "login"]
  <2>1. /\ aCall[c] = A!Idle /\ UNCHANGED <<aRow, aLive, aValid, aRotates, aIssued, aKnown, aLost, aFaults>>
        /\ aCall' = [aCall EXCEPT ![c] = y]
    BY <1>6 DEF A!LoginCallback
  <2>2. y \in AccCall /\ y.at = "login" /\ y.read = {} /\ y.answer = {} /\ y.spent = {}
    BY AccIdle DEF AccCall
  <2> HIDE DEF y
  <2>3. PICK x \in AccCall : x = y
    BY <2>2
  <2>4. AccOK(x) /\ AccFew(x.read) /\ AccFew(x.answer)
    BY <2>2, <2>3 DEF AccOK, AccHolds, AccFew
  <2>5. aCall[c].spent = {} /\ aFaults \in 0 .. MaxLostWrites /\ aLost \in SUBSET A!Token
        /\ aValid \in SUBSET A!Token
    BY <2>1, AccIdle DEF AccInv, AccTyped
  <2> QED BY <2>1, <2>2, <2>3, <2>4, <2>5, AccOnCall
<1>7. ASSUME NEW c \in Call, A!Exchange(c) PROVE AccInv'
  <2>1. PICK p \in aCall[c].read :
          \/ p.refresh \in aLive /\ A!Issue(c, p.refresh, IF aCall[c].at = "given" THEN "find" ELSE "persist")
          \/ p.refresh \notin aLive /\ A!Ends(c) /\ UNCHANGED <<aLive, aValid, aIssued>>
    BY <1>7 DEF A!Exchange
  <2>2. aCall[c].at \in {"exchange", "given"} /\ UNCHANGED <<aRow, aRotates, aKnown, aLost, aFaults>>
    BY <1>7 DEF A!Exchange
  <2>3. CASE A!Ends(c) /\ UNCHANGED <<aLive, aValid, aIssued>>
    <3>1. aCall[c].spent = {}
      BY <1>0, <2>2 DEF AccOK, AccHolds
    <3> QED BY <1>0, <2>2, <2>3, <3>1, AccEnds
  <2>4. CASE p.refresh \in aLive /\ A!Issue(c, p.refresh, IF aCall[c].at = "given" THEN "find" ELSE "persist")
    <3>1. PICK next \in {"find", "persist"} : A!Issue(c, p.refresh, next)
      BY <2>4
    <3>2. PICK g \in A!Token : g = aIssued + 1
      BY <1>0, <3>1, AccConstants DEF A!Issue, A!Token
    <3>3. PICK h \in {0, g} : h = IF aRotates THEN g ELSE 0
      OBVIOUS
    <3>4. PICK T \in SUBSET aKnown : T = IF aRotates THEN {p.refresh} ELSE {}
      BY <1>0 DEF AccOK
    <3> DEFINE y == [aCall[c] EXCEPT !.at = next, !.answer = {[access |-> g, refresh |-> h]}, !.spent = T]
    <3>5. /\ aCall' = [aCall EXCEPT ![c] = y] /\ aIssued' = g /\ aValid' = aValid \cup {g}
          /\ aLive' = IF aRotates THEN (aLive \ {p.refresh}) \cup {g} ELSE aLive
      BY <1>0, <3>1, <3>2, <3>3, <3>4 DEF A!Issue
    <3>6. {[access |-> g, refresh |-> h]} \in SUBSET A!Pair /\ T \in SUBSET A!Token
      BY <1>0, AccConstants DEF A!Pair
    <3>7. y \in AccCall /\ y.at = next /\ y.read = aCall[c].read /\ y.spent = T
          /\ y.answer = {[access |-> g, refresh |-> h]}
      BY <1>0, <3>6 DEF AccCall
    <3> HIDE DEF y
    <3>8. PICK x \in AccCall : x = y
      BY <3>7
    <3>9. aCall[c].read = {p}
      BY <1>0 DEF AccFew
    <3>10. aCall[c].at \notin AccHolds /\ x.at \in AccHolds
      BY <2>2, <3>7, <3>8 DEF AccHolds
    <3>11. \/ aLive' = (aLive \ T) \cup {g}
           \/ h = 0 /\ T = {} /\ aLive' = aLive
      BY <3>3, <3>4, <3>5
    <3>12. h = 0 => \E q \in x.read : x.read = {q} /\ q.refresh \in aLive
      BY <2>4, <3>7, <3>8, <3>9
    <3>13. aValid' \in SUBSET A!Token
      BY <1>0, <3>5
    <3>14. aCall' = [aCall EXCEPT ![c] = x] /\ x.read = aCall[c].read /\ x.spent = T
           /\ x.answer = {[access |-> g, refresh |-> h]} /\ (T # {} => aRotates) /\ (aRotates => h = g)
      BY <3>3, <3>4, <3>5, <3>7, <3>8
    <3>15. AccAnswered(c, x, T, g, h)
      BY <2>2, <3>2, <3>5, <3>10, <3>11, <3>12, <3>13, <3>14 DEF AccAnswered
    <3> QED BY <3>15, AccIssues
  <2> QED BY <2>1, <2>3, <2>4
<1>8. ASSUME NEW c \in Call, A!Authorize(c) PROVE AccInv'
  <2>1. PICK g \in A!Token : g = aIssued + 1 /\ aIssued' = g
    BY <1>0, <1>8, AccConstants DEF A!Authorize, A!Token
  <2> DEFINE y == [aCall[c] EXCEPT !.at = "find", !.answer = {[access |-> g, refresh |-> g]}]
  <2>2. /\ aCall' = [aCall EXCEPT ![c] = y] /\ aValid' = aValid \cup {g} /\ aLive' = aLive \cup {g}
        /\ aCall[c].at = "login" /\ UNCHANGED <<aRow, aRotates, aKnown, aLost, aFaults>>
    BY <1>0, <1>8, <2>1 DEF A!Authorize
  <2>3. {[access |-> g, refresh |-> g]} \in SUBSET A!Pair /\ aCall[c].spent = {}
    BY <1>0, <2>2 DEF A!Pair, AccOK, AccHolds
  <2>4. y \in AccCall /\ y.at = "find" /\ y.read = aCall[c].read /\ y.spent = {}
        /\ y.answer = {[access |-> g, refresh |-> g]}
    BY <1>0, <2>3 DEF AccCall
  <2> HIDE DEF y
  <2>5. PICK x \in AccCall : x = y
    BY <2>4
  <2>6. aCall[c].at \notin AccHolds /\ x.at \in AccHolds
    BY <2>2, <2>4, <2>5 DEF AccHolds
  <2>7. g # 0
    BY <1>0, <2>1
  <2>10. {} \subseteq aKnown /\ g \in {0, g} /\ aLive' = (aLive \ {}) \cup {g}
    BY <2>2
  <2>11. aValid' \in SUBSET A!Token
    BY <1>0, <2>1, <2>2
  <2>8. aCall' = [aCall EXCEPT ![c] = x] /\ x.read = aCall[c].read /\ x.spent = {}
        /\ x.answer = {[access |-> g, refresh |-> g]}
    BY <2>2, <2>4, <2>5
  <2>9. AccAnswered(c, x, {}, g, g)
    BY <2>1, <2>2, <2>6, <2>7, <2>8, <2>10, <2>11 DEF AccAnswered
  <2> QED BY <2>9, AccIssues
<1>9. ASSUME NEW c \in Call, A!Persist(c) PROVE AccInv'
  <2>1. /\ aCall[c].at = "persist" /\ aKnown' = A!Shown(aRow') /\ A!Ends(c)
        /\ aRow' = {[access |-> q.access, refresh |-> IF q.refresh = 0 THEN p.refresh ELSE q.refresh] :
                      p \in aRow, q \in aCall[c].answer}
        /\ UNCHANGED <<aLive, aValid, aRotates, aIssued, aLost, aFaults>>
    BY <1>9 DEF A!Persist
  <2>2. AccFew(aRow')
    <3>1. CASE aRow = {} \/ aCall[c].answer = {}
      BY <2>1, <3>1 DEF AccFew
    <3>2. CASE aRow # {} /\ aCall[c].answer # {}
      <4>1. PICK p \in A!Pair, q \in A!Pair : aRow = {p} /\ aCall[c].answer = {q}
        BY <1>0, <3>2 DEF AccFew
      <4>2. [access |-> q.access, refresh |-> IF q.refresh = 0 THEN p.refresh ELSE q.refresh] \in A!Pair
        BY DEF A!Pair
      <4> QED BY <2>1, <4>1, <4>2 DEF AccFew
    <3> QED BY <3>1, <3>2
  <2>3. ASSUME NEW p \in aRow'
        PROVE  \/ p.refresh \in aLive /\ p.refresh # 0 /\ \E q \in aCall[c].answer : p.refresh = q.refresh
               \/ p \in {[access |-> q.access, refresh |-> o.refresh] : o \in aRow, q \in aCall[c].answer}
                  /\ aCall[c].spent = {}
    <3>1. PICK o \in aRow, q \in aCall[c].answer :
            p = [access |-> q.access, refresh |-> IF q.refresh = 0 THEN o.refresh ELSE q.refresh]
      BY <2>1
    <3>2. q.refresh = 0 => aCall[c].spent = {}
      BY <1>0 DEF AccOK
    <3>3. q.refresh # 0 => q.refresh \in aLive
      BY <1>0 DEF AccOK
    <3>4. CASE q.refresh = 0
      BY <3>1, <3>2, <3>4
    <3>5. CASE q.refresh # 0
      BY <3>1, <3>3, <3>5
    <3> QED BY <3>4, <3>5
  <2> QED BY <2>1, <2>2, <2>3, AccStores
<1>10. ASSUME NEW c \in Call, A!Store(c) PROVE AccInv'
  <2>1. /\ aCall[c].at \in {"save", "create"} /\ A!Ends(c) /\ aKnown' = A!Shown(aRow')
        /\ UNCHANGED <<aLive, aValid, aRotates, aIssued, aFaults>>
    BY <1>10 DEF A!Store
  <2>2. CASE aLost' = aLost \cup aCall[c].spent /\ UNCHANGED aRow
    <3>1. aKnown' = aKnown
      BY <1>0, <2>1, <2>2 DEF A!Shown
    <3> QED BY <1>0, <2>1, <2>2, <3>1, AccEnds
  <2>3. CASE aRow' = A!Tokens(c) /\ UNCHANGED aLost
    <3>1. ASSUME NEW q \in aCall[c].answer, q.refresh = 0
          PROVE  (CHOOSE p \in aCall[c].read : TRUE).refresh \in aLive \cap aKnown
      <4>1. PICK p \in aCall[c].read : aCall[c].read = {p} /\ p.refresh \in aLive
        BY <1>0, <2>1, <3>1 DEF AccOK
      <4>2. (CHOOSE x \in aCall[c].read : TRUE) = p
        BY <4>1
      <4> QED BY <1>0, <4>1, <4>2 DEF AccOK
    <3>2. ASSUME NEW p \in aRow'
          PROVE  \/ p.refresh \in aLive /\ p.refresh # 0 /\ \E q \in aCall[c].answer : p.refresh = q.refresh
                 \/ p.refresh \in aLive \cap aKnown
      <4>1. PICK q \in aCall[c].answer :
              p = [access |-> q.access,
                   refresh |-> IF q.refresh # 0 THEN q.refresh ELSE (CHOOSE x \in aCall[c].read : TRUE).refresh]
        BY <2>3 DEF A!Tokens
      <4>2. CASE q.refresh = 0
        BY <3>1, <4>1, <4>2
      <4>3. CASE q.refresh # 0
        BY <1>0, <4>1, <4>3 DEF AccOK
      <4> QED BY <4>2, <4>3
    <3>3. AccFew(aRow')
      <4>1. CASE aCall[c].answer = {}
        BY <2>3, <4>1 DEF A!Tokens, AccFew
      <4>2. CASE aCall[c].answer # {}
        <5>1. PICK q \in A!Pair : aCall[c].answer = {q}
          BY <1>0, <4>2 DEF AccFew
        <5> DEFINE n == [access |-> q.access,
               refresh |-> IF q.refresh # 0 THEN q.refresh ELSE (CHOOSE x \in aCall[c].read : TRUE).refresh]
        <5>2. aRow' = {n}
          BY <2>3, <5>1 DEF A!Tokens
        <5>3. n.refresh \in A!Token /\ n.access \in A!Token
          BY <1>0, <3>2, <5>1, <5>2 DEF A!Pair
        <5>4. n \in A!Pair
          BY <5>3 DEF A!Pair
        <5> QED BY <5>2, <5>4 DEF AccFew
      <4> QED BY <4>1, <4>2
    <3> QED BY <2>1, <2>3, <3>2, <3>3, AccStores
  <2> QED BY <1>10, <2>2, <2>3 DEF A!Store
<1>11. ASSUME NEW c \in Call, A!Fail(c) PROVE AccInv'
  <2>1. /\ A!Ends(c) /\ aLost' = aLost \cup aCall[c].spent
        /\ UNCHANGED <<aRow, aLive, aValid, aRotates, aIssued, aKnown>>
    BY <1>11 DEF A!Fail
  <2>2. aFaults' \in 0 .. MaxLostWrites
    BY <1>0, <1>11, AccConstants DEF A!Fail
  <2> QED BY <2>1, <2>2, AccEnds
<1>12. ASSUME NEW t \in aKnown, A!UpsertUser(t) PROVE AccInv'
  <2>1. /\ aRow' = {[access |-> t, refresh |-> t]} /\ aLost' = IF t \in aLive THEN aLost ELSE aLost \cup {t}
        /\ UNCHANGED <<aCall, aLive, aValid, aRotates, aIssued, aKnown, aFaults>>
    BY <1>12 DEF A!UpsertUser
  <2>2. [access |-> t, refresh |-> t] \in A!Pair
    BY <1>0 DEF A!Pair
  <2>3. AccTyped'
    BY <1>0, <2>1, <2>2 DEF AccTyped, AccFew
  <2>4. (\A p \in aRow' : p.refresh \in aKnown') /\ A!StoredIsLive'
    BY <2>1 DEF A!StoredIsLive
  <2> QED BY <1>0, <2>1, <2>3, <2>4 DEF AccInv, AccOK, AccApart, AccIssued
<1>13. ASSUME NEW a \in A!Token, A!Expire(a) PROVE AccInv'
  <2>1. aValid' \in SUBSET A!Token /\ UNCHANGED <<aRow, aCall, aLive, aRotates, aIssued, aKnown, aLost, aFaults>>
    BY <1>0, <1>13 DEF A!Expire
  <2> QED BY <1>0, <2>1 DEF AccInv, AccTyped, AccFew, AccOK, AccApart, AccIssued, A!StoredIsLive
<1>14. CASE A!DeleteUser
  <2>1. aRow' = {} /\ UNCHANGED <<aCall, aLive, aValid, aRotates, aIssued, aKnown, aLost, aFaults>>
    BY <1>14 DEF A!DeleteUser
  <2> QED BY <1>0, <2>1 DEF AccInv, AccTyped, AccFew, AccOK, AccApart, AccIssued, A!StoredIsLive
<1> QED BY <1>1, <1>2, <1>3, <1>4, <1>5, <1>6, <1>7, <1>8, <1>9, <1>10, <1>11, <1>12, <1>13, <1>14 DEF A!Next

LEMMA AccInvariant == A!Spec => []AccInv
<1>1. A!Init => AccInv
  <2> SUFFICES ASSUME A!Init PROVE AccInv
    OBVIOUS
  <2>1. \A c \in Call : aCall[c] = A!Idle
    BY DEF A!Init
  <2>2. AccTyped
    BY AccConstants, AccIdle DEF A!Init, AccTyped, AccFew
  <2>3. \A c \in Call : AccOK(aCall[c])
    BY <2>1, AccIdle DEF AccOK, AccHolds
  <2> QED BY <2>1, <2>2, <2>3, AccIdle DEF A!Init, AccInv, AccApart, AccIssued, A!StoredIsLive
<1>2. AccInv /\ [A!Next]_(A!vars) => AccInv'
  BY AccStep
<1> QED BY <1>1, <1>2, PTL DEF A!Spec

LEMMA AccRuns == SuiteSpec => A!Spec
<1>1. SuiteInit => A!Init
  BY DEF SuiteInit
<1>2. [SuiteNext]_allVars => [A!Next]_(A!vars)
  BY DEF SuiteNext, allVars, accountVars, A!vars
<1> QED BY <1>1, <1>2, PTL DEF SuiteSpec, A!Spec

\* However many calls exchange the token of an account, and whether Pixiv rotates them or
\* not, the one that is stored is good, or the call that spent it will store the next,
\* unless that write failed or a client stored an old token (pixez/client.go:283).
THEOREM StoredStaysLive == SuiteSpec => []StoredIsLive
<1>1. AccInv => StoredIsLive
  BY DEF AccInv, AccTyped, AccFew, AccCall, StoredIsLive, A!TypeOK
<1> QED BY <1>1, AccRuns, AccInvariant, PTL
-----------------------------------------------------------------------------
LEMMA GreatestOf ==
  ASSUME NEW N \in Nat, NEW T, T \subseteq 1 .. N, T # {}
  PROVE  \E x \in T : \A y \in T : y <= x
<1> DEFINE Less == OpToRel(<, Nat)
           D == {N - t : t \in T}
<1>1. IsWellFoundedOn(Less, Nat)
  BY NatLessThanWellFounded
<1>2. ASSUME NEW x \in Nat, NEW y \in Nat, y < x PROVE <<y, x>> \in Less
  BY <1>2 DEF OpToRel
<1>3. D \subseteq Nat /\ D # {}
  <2>1. \A t \in T : N - t \in Nat
    OBVIOUS
  <2>2. \E t \in T : N - t \in D
    OBVIOUS
  <2> QED BY <2>1, <2>2
<1> HIDE DEF Less
<1>4. PICK d \in D : \A e \in D : ~ (<<e, d>> \in Less)
  <2> HIDE DEF D
  <2> QED BY <1>1, <1>3, WFMin, Zenon
<1>5. PICK x \in T : d = N - x
  OBVIOUS
<1>6. ASSUME NEW y \in T PROVE y <= x
  <2>1. N - y \in D /\ N - y \in Nat /\ d \in Nat
    BY <1>3
  <2>2. ~ (N - y < d)
    BY <1>2, <1>4, <2>1, Zenon
  <2> HIDE DEF D
  <2> QED BY <1>5, <2>1, <2>2
<1> QED BY <1>6

(* Synchronised tables *)

SynTx == [at : {"idle", "delete", "wait", "insert", "done"}, tables : SUBSET Table,
          put : SUBSET Table, snap : SUBSET Tx, left : SUBSET Table]

SynTyped ==
  /\ yRows \in [Table -> SUBSET Tx] /\ yTx \in [Tx -> SynTx]
  /\ yGone \in [Tx -> [Table -> SUBSET Tx]] /\ yLast \in [Table -> SUBSET Tx]
  /\ \A t \in Table : yLast[t] = {} \/ \E x \in Tx : yLast[t] = {x}
  /\ yMet \in [Tx -> SUBSET Tx]

\* A transaction has deleted from the tables before those that are left to it.
SynOrder(x) ==
  /\ yTx[x].left \subseteq yTx[x].tables /\ yTx[x].put \subseteq yTx[x].tables
  /\ \A t \in Table : yGone[x][t] # {} => x \in Y!Active /\ t \in yTx[x].tables \ yTx[x].left
  /\ \A t \in yTx[x].tables \ yTx[x].left, u \in yTx[x].left : t < u
  /\ yTx[x].at = "wait" => \E t \in Table : Y!Turn(x, t)
  /\ yTx[x].at = "insert" => yTx[x].left = {}

\* Transactions that run at one time have met.
SynMet == \A x, y \in Y!Active : x # y => y \in yMet[x]

\* A row that a transaction has not deleted, nor will, was put there beside it.
SynSees(x) ==
  \A t \in Table :
    /\ t \in yTx[x].tables \ yTx[x].left => yRows[t] \ yGone[x][t] \subseteq yMet[x]
    /\ yTx[x].at = "wait" /\ Y!Turn(x, t) => yRows[t] \ yTx[x].snap \subseteq yMet[x]

SynLast == \A t \in Table : \A x \in yLast[t] : yTx[x].at = "done"

SynInv ==
  /\ SynTyped /\ (\A x \in Tx : SynOrder(x)) /\ SynMet
  /\ (\A x \in Y!Active : SynSees(x)) /\ SynLast /\ Y!LastReplaces

LEMMA SynTables == \E N \in Nat : Table = 1 .. N
<1>1. \A X : Y!Cardinality(X) = Cardinality(X)
  BY Zenon DEF Y!Cardinality, Cardinality
<1>2. \A X : Y!IsFiniteSet(X) = IsFiniteSet(X)
  BY Zenon DEF Y!IsFiniteSet, IsFiniteSet
<1>3. IsFiniteSet(Table) /\ Table = 1 .. Cardinality(Table)
  BY <1>1, <1>2, ConstantsFit DEF Y!SyncAssumption
<1> QED BY <1>3, FS_CardinalityType

\* The transaction that waits for the last table waits for nobody.
LEMMA SynGoesOn == ASSUME SynInv PROVE Y!SomeGoesOn
<1> SUFFICES ASSUME Y!Active # {}, \A x \in Y!Active : yTx[x].at = "wait"
             PROVE  \E x \in Y!Active : \E t \in Table :
                      Y!Turn(x, t) /\ \A y \in Y!Active \ {x} : yGone[y][t] \cap yTx[x].snap = {}
  BY DEF Y!SomeGoesOn
<1>1. Y!Active \subseteq Tx /\ \A x \in Y!Active : SynOrder(x) /\ \E t \in Table : Y!Turn(x, t)
  BY DEF SynInv, SynOrder, Y!Active
<1> DEFINE T == {t \in Table : \E x \in Y!Active : Y!Turn(x, t)}
<1>2. T \subseteq Table /\ T # {}
  BY <1>1
<1> HIDE DEF T
<1>3. PICK t \in T : \A u \in T : u <= t
  <2>1. PICK N \in Nat : Table = 1 .. N
    BY SynTables
  <2> QED BY <1>2, <2>1, GreatestOf
<1>4. PICK x \in Y!Active : t \in Table /\ Y!Turn(x, t)
  BY DEF T
<1>5. ASSUME NEW y \in Y!Active, yGone[y][t] # {} PROVE FALSE
  <2>1. t \in yTx[y].tables \ yTx[y].left
    BY <1>1, <1>4, <1>5 DEF SynOrder
  <2>2. PICK u \in Table : Y!Turn(y, u)
    BY <1>1
  <2>3. u \in yTx[y].left /\ u \in T
    BY <2>2 DEF Y!Turn, T
  <2>4. t < u
    BY <1>1, <2>1, <2>3 DEF SynOrder
  <2>5. u <= t
    BY <1>3, <2>3
  <2>6. t \in Nat /\ u \in Nat
    BY SynTables, <1>4
  <2> QED BY <2>4, <2>5, <2>6
<1> QED BY <1>4, <1>5

LEMMA SynBegins ==
  ASSUME SynInv, NEW x \in Tx, NEW tables \in SUBSET Table, NEW put \in SUBSET tables, Y!Begin(x, tables, put)
  PROVE  SynInv'
<1>0. /\ SynTyped /\ SynMet /\ SynLast /\ Y!LastReplaces
      /\ \A y \in Tx : SynOrder(y)
      /\ \A y \in Y!Active : SynSees(y)
  BY DEF SynInv
<1>1. /\ x \notin Y!Active /\ \A t \in Table : x \notin yRows[t] /\ x \notin yLast[t]
      /\ UNCHANGED <<yRows, yLast>>
  BY DEF Y!Begin, Y!Free
<1> DEFINE n == [at |-> "delete", tables |-> tables, put |-> put, snap |-> {}, left |-> tables]
<1>2. /\ n \in SynTx /\ yTx' = [yTx EXCEPT ![x] = n]
      /\ yGone' = [yGone EXCEPT ![x] = Y!Empty] /\ Y!Empty \in [Table -> SUBSET Tx]
  BY DEF Y!Begin, SynTx, Y!Empty
<1>3. /\ n.at = "delete" /\ n.tables = tables /\ n.put = put /\ n.left = tables
  OBVIOUS
<1> HIDE DEF n
<1>4. /\ yTx'[x] = n /\ \A y \in Tx : y # x => yTx'[y] = yTx[y] /\ yGone'[y] = yGone[y]
      /\ \A t \in Table : yGone'[x][t] = {}
  BY <1>0, <1>2 DEF SynTyped, Y!Empty
<1>5. Y!Active' = Y!Active \cup {x} /\ Y!Active \subseteq Tx
  BY <1>3, <1>4 DEF Y!Active
<1>6. /\ yMet' \in [Tx -> SUBSET Tx] /\ yMet'[x] = Y!Active
      /\ \A y \in Y!Active : yMet'[y] = yMet[y] \cup {x}
      /\ \A y \in Tx : y # x => yMet[y] \ {x} \subseteq yMet'[y]
  BY <1>0, <1>1, <1>5 DEF Y!Begin, SynTyped
<1>7. SynTyped'
  BY <1>0, <1>1, <1>2, <1>6 DEF SynTyped
<1>8. ASSUME NEW y \in Tx PROVE SynOrder(y)'
  <2>1. CASE y = x
    BY <1>3, <1>4, <2>1 DEF SynOrder
  <2>2. CASE y # x
    BY <1>0, <1>4, <1>5, <2>2 DEF SynOrder, Y!Turn
  <2> QED BY <2>1, <2>2
<1>9. SynMet'
  BY <1>0, <1>5, <1>6 DEF SynMet
<1>10. ASSUME NEW y \in Y!Active' PROVE SynSees(y)'
  <2>1. CASE y = x
    BY <1>3, <1>4, <2>1 DEF SynSees
  <2>2. CASE y # x
    BY <1>0, <1>1, <1>4, <1>5, <1>6, <2>2 DEF SynSees, Y!Turn
  <2> QED BY <2>1, <2>2
<1>11. SynLast' /\ Y!LastReplaces'
  <2> SUFFICES ASSUME NEW t \in Table, NEW y \in yLast[t]
               PROVE  /\ yTx'[y].at = "done" /\ (t \in yTx'[y].put => y \in yRows[t])
                      /\ yRows[t] \subseteq {y} \cup yMet'[y]
    BY <1>1 DEF SynLast, Y!LastReplaces
  <2>1. y \in Tx /\ y # x /\ x \notin yRows[t]
    BY <1>0, <1>1 DEF SynTyped
  <2>2. yTx'[y] = yTx[y] /\ yMet[y] \ {x} \subseteq yMet'[y]
    BY <1>4, <1>6, <2>1
  <2> QED BY <1>0, <2>1, <2>2 DEF SynLast, Y!LastReplaces
<1> QED BY <1>7, <1>8, <1>9, <1>10, <1>11 DEF SynInv

LEMMA SynStep == ASSUME SynInv, [Y!Next]_(Y!vars) PROVE SynInv'
<1>0. /\ SynTyped /\ SynMet /\ SynLast /\ Y!LastReplaces
      /\ \A x \in Tx : SynOrder(x) /\ yTx[x] \in SynTx /\ yGone[x] \in [Table -> SUBSET Tx]
      /\ \A x \in Y!Active : SynSees(x)
      /\ Y!Active \subseteq Tx
  BY DEF SynInv, SynTyped, Y!Active
<1>1. CASE UNCHANGED Y!vars
  BY <1>0, <1>1, ZenonT(40) DEF Y!vars, SynInv, SynTyped, SynOrder, SynMet, SynSees, SynLast, Y!Active, Y!Turn, Y!LastReplaces
<1>2. ASSUME NEW x \in Tx, NEW tables \in SUBSET Table, NEW put \in SUBSET Table, Y!PostUserData(x, tables, put)
      PROVE  SynInv'
  BY <1>2, SynBegins DEF Y!PostUserData
<1>3. ASSUME NEW x \in Tx, Y!DeleteUser(x) PROVE SynInv'
  BY <1>3, SynBegins DEF Y!DeleteUser
<1>4. ASSUME NEW x \in Tx, NEW put \in SUBSET Table, Y!ImportLegacy(x, put) PROVE SynInv'
  BY <1>4, SynBegins DEF Y!ImportLegacy
<1>5. ASSUME NEW x \in Tx, NEW t \in Table, Y!DeleteBegin(x, t) PROVE SynInv'
  <2>1. /\ yTx[x].at = "delete" /\ Y!Turn(x, t) /\ UNCHANGED <<yRows, yGone, yLast, yMet>>
        /\ yTx' = [yTx EXCEPT ![x] = [yTx[x] EXCEPT !.at = "wait", !.snap = yRows[t]]]
    BY <1>0, <1>5 DEF Y!DeleteBegin, SynTyped
  <2> DEFINE n == [yTx[x] EXCEPT !.at = "wait", !.snap = yRows[t]]
  <2>2. n \in SynTx /\ n.at = "wait" /\ n.snap = yRows[t] /\ n.tables = yTx[x].tables
        /\ n.put = yTx[x].put /\ n.left = yTx[x].left
    <3>1. yTx[x] \in SynTx /\ yRows[t] \in SUBSET Tx
      BY <1>0 DEF SynTyped
    <3> QED BY <3>1 DEF SynTx
  <2> HIDE DEF n
  <2>3. yTx'[x] = n /\ (\A y \in Tx : y # x => yTx'[y] = yTx[y]) /\ yTx' \in [Tx -> SynTx]
    BY <1>0, <2>1, <2>2 DEF SynTyped, n
  <2>4. Y!Active' = Y!Active /\ x \in Y!Active
    BY <2>1, <2>2, <2>3 DEF Y!Active
  <2>5. \A y \in Tx, u \in Table : Y!Turn(y, u)' <=> Y!Turn(y, u)
    BY <2>2, <2>3 DEF Y!Turn
  <2>6. SynTyped' /\ SynMet' /\ SynLast' /\ Y!LastReplaces'
    BY <1>0, <2>1, <2>2, <2>3, <2>4 DEF SynTyped, SynMet, SynLast, Y!LastReplaces
  <2>7. ASSUME NEW y \in Tx PROVE SynOrder(y)'
    <3>1. CASE y = x
      BY <1>0, <2>1, <2>2, <2>3, <2>4, <2>5, <3>1 DEF SynOrder
    <3>2. CASE y # x
      BY <1>0, <2>1, <2>3, <2>4, <2>5, <3>2 DEF SynOrder
    <3> QED BY <3>1, <3>2
  <2>8. ASSUME NEW y \in Y!Active' PROVE SynSees(y)'
    <3>1. CASE y = x
      <4>1. \A u \in Table : Y!Turn(x, u) => u = t
        BY <1>0, <2>1, SynTables DEF Y!Turn
      <4> QED BY <1>0, <2>1, <2>2, <2>3, <2>4, <2>5, <3>1, <4>1 DEF SynSees
    <3>2. CASE y # x
      BY <1>0, <2>1, <2>3, <2>4, <2>5, <3>2 DEF SynSees
    <3> QED BY <3>1, <3>2
  <2> QED BY <2>6, <2>7, <2>8 DEF SynInv
<1>6. ASSUME NEW x \in Tx, NEW t \in Table, Y!DeleteEnd(x, t) PROVE SynInv'
  <2> DEFINE n == [yTx[x] EXCEPT !.left = yTx[x].left \ {t}, !.snap = {},
                                 !.at = IF yTx[x].left = {t} THEN "insert" ELSE "delete"]
             g == [yGone[x] EXCEPT ![t] = yTx[x].snap \cap yRows[t]]
  <2>1. /\ yTx[x].at = "wait" /\ Y!Turn(x, t) /\ UNCHANGED <<yRows, yLast, yMet>>
        /\ yTx' = [yTx EXCEPT ![x] = n] /\ yGone' = [yGone EXCEPT ![x] = g]
    BY <1>0, <1>6 DEF Y!DeleteEnd, SynTyped
  <2>2. n \in SynTx /\ n.at \in {"insert", "delete"} /\ n.tables = yTx[x].tables
        /\ n.put = yTx[x].put /\ n.left = yTx[x].left \ {t} /\ (n.at = "insert" => n.left = {})
    <3>1. yTx[x] \in SynTx
      BY <1>0
    <3> QED BY <3>1 DEF SynTx
  <2>3. g \in [Table -> SUBSET Tx] /\ g[t] = yTx[x].snap \cap yRows[t] /\ \A u \in Table : u # t => g[u] = yGone[x][u]
    BY <1>0 DEF SynTx, SynTyped
  <2> HIDE DEF n, g
  <2>4. /\ yTx'[x] = n /\ (\A y \in Tx : y # x => yTx'[y] = yTx[y]) /\ yTx' \in [Tx -> SynTx]
        /\ yGone'[x] = g /\ (\A y \in Tx : y # x => yGone'[y] = yGone[y])
        /\ yGone' \in [Tx -> [Table -> SUBSET Tx]]
    BY <1>0, <2>1, <2>2, <2>3 DEF SynTyped
  <2>5. Y!Active' = Y!Active /\ x \in Y!Active
    BY <2>1, <2>2, <2>4 DEF Y!Active
  <2>6. \A y \in Tx, u \in Table : y # x => (Y!Turn(y, u)' <=> Y!Turn(y, u))
    BY <2>4 DEF Y!Turn
  <2>7. SynTyped' /\ SynMet' /\ SynLast' /\ Y!LastReplaces'
    BY <1>0, <2>1, <2>2, <2>4, <2>5 DEF SynTyped, SynMet, SynLast, Y!LastReplaces
  <2>8. t \in yTx[x].left /\ (\A u \in yTx[x].left : u # t => t < u) /\ yTx[x].left \subseteq yTx[x].tables
    BY <1>0, <2>1, SynTables DEF Y!Turn, SynOrder, SynTx
  <2>9. ASSUME NEW y \in Tx PROVE SynOrder(y)'
    <3>1. CASE y = x
      <4>1. SynOrder(x) /\ yTx'[x].left = yTx[x].left \ {t} /\ yTx'[x].tables = yTx[x].tables
            /\ yTx'[x].put = yTx[x].put /\ yTx'[x].at # "wait" /\ (yTx'[x].at = "insert" => yTx'[x].left = {})
        BY <1>0, <2>2, <2>4
      <4>2. \A u \in Table : yGone'[x][u] # {} => x \in Y!Active' /\ u \in yTx[x].tables \ (yTx[x].left \ {t})
        BY <2>3, <2>4, <2>5, <2>8, <4>1 DEF SynOrder
      <4>3. \A u \in yTx[x].tables \ (yTx[x].left \ {t}), v \in yTx[x].left \ {t} : u < v
        BY <2>8, <4>1 DEF SynOrder
      <4> QED BY <3>1, <4>1, <4>2, <4>3 DEF SynOrder
    <3>2. CASE y # x
      BY <1>0, <2>4, <2>5, <2>6, <3>2 DEF SynOrder
    <3> QED BY <3>1, <3>2
  <2>10. ASSUME NEW y \in Y!Active' PROVE SynSees(y)'
    <3>1. CASE y = x
      BY <1>0, <2>1, <2>2, <2>3, <2>4, <2>5, <3>1 DEF SynSees
    <3>2. CASE y # x
      BY <1>0, <2>1, <2>4, <2>5, <2>6, <3>2 DEF SynSees
    <3> QED BY <3>1, <3>2
  <2> QED BY <2>7, <2>9, <2>10 DEF SynInv
<1>7. ASSUME NEW x \in Tx, Y!Commit(x) PROVE SynInv'
  <2>1. /\ yTx[x].at = "insert" /\ yTx[x].left = {} /\ x \in Y!Active
        /\ yRows' = [t \in Table |-> Y!After(x, t)]
        /\ yLast' = [t \in Table |-> IF t \in yTx[x].tables THEN {x} ELSE yLast[t]]
        /\ yGone' = [yGone EXCEPT ![x] = Y!Empty] /\ Y!Empty \in [Table -> SUBSET Tx]
    BY <1>0, <1>7 DEF Y!Commit, SynOrder, Y!Active, Y!Empty
  <2>2. /\ yRows' \in [Table -> SUBSET Tx] /\ yLast' \in [Table -> SUBSET Tx]
        /\ \A t \in Table : yRows'[t] = (yRows[t] \ yGone[x][t]) \cup (IF t \in yTx[x].put THEN {x} ELSE {})
        /\ \A t \in Table : yLast'[t] = {} \/ \E y \in Tx : yLast'[t] = {y}
        /\ \A t \in Table : yLast'[t] = IF t \in yTx[x].tables THEN {x} ELSE yLast[t]
    BY <1>0, <2>1 DEF SynTyped, Y!After
  <2>3. /\ \A y \in Tx : y # x => yGone'[y] = yGone[y]
        /\ \A t \in Table : yGone'[x][t] = {}
        /\ yGone' \in [Tx -> [Table -> SUBSET Tx]]
    BY <1>0, <2>1 DEF SynTyped, Y!Empty
  <2> DEFINE d == [yTx[x] EXCEPT !.at = "done"]
  <2>4. d \in SynTx /\ d.at = "done" /\ d.tables = yTx[x].tables /\ d.put = yTx[x].put /\ d.left = {}
    <3>1. yTx[x] \in SynTx
      BY <1>0
    <3> QED BY <2>1, <3>1 DEF SynTx
  <2>5. /\ yTx' = [y \in Tx |-> IF y = x THEN d
                               ELSE IF yTx[y].at = "done" /\ ~ Y!Latest(y)' THEN Y!Idle ELSE yTx[y]]
        /\ yMet' = [y \in Tx |-> IF y = x \/ y \in Y!Active \/ Y!Latest(y)' THEN yMet[y] ELSE {}]
    BY <1>7 DEF Y!Commit
  <2> HIDE DEF d
  <2>6. Y!Idle \in SynTx /\ Y!Idle.at = "idle" /\ Y!Idle.tables = {} /\ Y!Idle.put = {} /\ Y!Idle.left = {}
    BY DEF Y!Idle, SynTx
  <2>7. /\ yTx' \in [Tx -> SynTx] /\ yTx'[x] = d
        /\ \A y \in Tx : y # x => yTx'[y] = yTx[y] \/ (yTx[y].at = "done" /\ yTx'[y] = Y!Idle /\ ~Y!Latest(y)')
    BY <1>0, <2>4, <2>5, <2>6 DEF SynTyped
  <2>8. /\ yMet' \in [Tx -> SUBSET Tx]
        /\ \A y \in Tx : y \in Y!Active \/ y = x \/ Y!Latest(y)' => yMet'[y] = yMet[y]
    BY <1>0, <2>5 DEF SynTyped
  <2>9. Y!Active' = Y!Active \ {x}
    BY <1>0, <2>4, <2>6, <2>7 DEF Y!Active
  <2>10. SynTyped' /\ SynMet'
    BY <1>0, <2>2, <2>3, <2>7, <2>8, <2>9 DEF SynTyped, SynMet
  <2>11. ASSUME NEW y \in Tx PROVE SynOrder(y)'
    <3>1. CASE y = x
      BY <1>0, <2>3, <2>4, <2>7, <3>1 DEF SynOrder
    <3>2. CASE y # x /\ yTx'[y] = yTx[y]
      BY <1>0, <2>3, <2>9, <3>2 DEF SynOrder, Y!Turn
    <3>3. CASE y # x /\ yTx[y].at = "done" /\ yTx'[y] = Y!Idle
      BY <1>0, <2>3, <2>6, <3>3 DEF SynOrder, Y!Active
    <3> QED BY <2>7, <3>1, <3>2, <3>3
  <2>12. ASSUME NEW y \in Y!Active' PROVE SynSees(y)'
    <3>1. y \in Tx /\ y # x /\ y \in Y!Active /\ yTx'[y] = yTx[y] /\ yMet'[y] = yMet[y] /\ yGone'[y] = yGone[y]
      BY <1>0, <2>3, <2>7, <2>8, <2>9 DEF Y!Active
    <3>2. x \in yMet[y] /\ SynSees(y)
      BY <1>0, <2>1, <3>1 DEF SynMet
    <3> QED BY <2>2, <3>1, <3>2 DEF SynSees, Y!Turn
  <2>13. ASSUME NEW t \in Table, NEW y \in yLast'[t]
         PROVE  /\ yTx'[y].at = "done" /\ (t \in yTx'[y].put => y \in yRows'[t])
                /\ yRows'[t] \subseteq {y} \cup yMet'[y]
    <3>1. y \in Tx /\ yMet'[y] = yMet[y]
      BY <1>0, <2>2, <2>8 DEF Y!Latest, SynTyped
    <3>2. CASE t \in yTx[x].tables
      <4>1. y = x /\ yRows[t] \ yGone[x][t] \subseteq yMet[x]
        BY <1>0, <2>1, <2>2, <3>2 DEF SynSees
      <4> QED BY <2>2, <2>4, <2>7, <3>1, <4>1
    <3>3. CASE t \notin yTx[x].tables
      <4>1. y \in yLast[t] /\ yGone[x][t] = {} /\ t \notin yTx[x].put
        BY <1>0, <2>2, <3>3 DEF SynOrder
      <4>2. y # x /\ yTx[y].at = "done" /\ yTx'[y] = yTx[y]
        BY <1>0, <2>1, <2>7, <3>1, <4>1 DEF SynLast, Y!Latest
      <4> QED BY <1>0, <2>2, <3>1, <4>1, <4>2 DEF Y!LastReplaces
    <3> QED BY <3>2, <3>3
  <2>14. SynLast' /\ Y!LastReplaces'
    BY <2>13 DEF SynLast, Y!LastReplaces
  <2> QED BY <2>10, <2>11, <2>12, <2>14 DEF SynInv
<1>8. ASSUME NEW x \in Tx, Y!Rollback(x) PROVE SynInv'
  <2>1. /\ yTx' = [yTx EXCEPT ![x] = Y!Idle] /\ x \in Y!Active
        /\ yGone' = [yGone EXCEPT ![x] = Y!Empty] /\ Y!Empty \in [Table -> SUBSET Tx]
        /\ UNCHANGED <<yRows, yLast, yMet>>
    BY <1>8 DEF Y!Rollback, Y!Empty
  <2>2. Y!Idle \in SynTx /\ Y!Idle.at = "idle" /\ Y!Idle.tables = {} /\ Y!Idle.put = {} /\ Y!Idle.left = {}
    BY DEF Y!Idle, SynTx
  <2>3. /\ yTx'[x] = Y!Idle /\ yTx' \in [Tx -> SynTx] /\ yGone' \in [Tx -> [Table -> SUBSET Tx]]
        /\ \A y \in Tx : y # x => yTx'[y] = yTx[y] /\ yGone'[y] = yGone[y]
        /\ \A t \in Table : yGone'[x][t] = {}
    BY <1>0, <2>1, <2>2 DEF SynTyped, Y!Empty
  <2>4. Y!Active' = Y!Active \ {x}
    BY <2>2, <2>3 DEF Y!Active
  <2>5. SynTyped' /\ SynMet'
    BY <1>0, <2>1, <2>3, <2>4 DEF SynTyped, SynMet
  <2>6. ASSUME NEW y \in Tx PROVE SynOrder(y)'
    <3>1. CASE y = x
      BY <2>2, <2>3, <3>1 DEF SynOrder
    <3>2. CASE y # x
      BY <1>0, <2>3, <2>4, <3>2 DEF SynOrder, Y!Turn
    <3> QED BY <3>1, <3>2
  <2>7. ASSUME NEW y \in Y!Active' PROVE SynSees(y)'
    BY <1>0, <2>1, <2>3, <2>4 DEF SynSees, Y!Turn
  <2>8. SynLast' /\ Y!LastReplaces'
    BY <1>0, <2>1, <2>3 DEF SynLast, Y!LastReplaces, Y!Active, SynTyped
  <2> QED BY <2>5, <2>6, <2>7, <2>8 DEF SynInv
<1>9. CASE Y!Exhausted
  BY <1>1, <1>9 DEF Y!Exhausted, Y!vars
<1> QED BY <1>1, <1>2, <1>3, <1>4, <1>5, <1>6, <1>7, <1>8, <1>9 DEF Y!Next

LEMMA SynInvariant == Y!Spec => []SynInv
<1>1. Y!Init => SynInv
  <2> SUFFICES ASSUME Y!Init PROVE SynInv
    OBVIOUS
  <2>1. /\ Y!Idle \in SynTx /\ Y!Idle.at = "idle" /\ Y!Idle.left = {} /\ Y!Idle.tables = {} /\ Y!Idle.put = {}
        /\ Y!Empty \in [Table -> SUBSET Tx] /\ \A t \in Table : Y!Empty[t] = {}
    BY DEF Y!Idle, SynTx, Y!Empty
  <2>2. \A x \in Tx : yTx[x] = Y!Idle /\ yGone[x] = Y!Empty
    BY DEF Y!Init
  <2>3. Y!Active = {}
    BY <2>1, <2>2 DEF Y!Active
  <2>4. SynTyped
    BY <2>1 DEF Y!Init, SynTyped
  <2> QED BY <2>1, <2>2, <2>3, <2>4 DEF Y!Init, SynInv, SynOrder, SynMet, SynLast, Y!LastReplaces
<1>2. SynInv /\ [Y!Next]_(Y!vars) => SynInv'
  BY SynStep
<1> QED BY <1>1, <1>2, PTL DEF Y!Spec

LEMMA SynRuns == SuiteSpec => Y!Spec
<1>1. SuiteInit => Y!Init
  BY DEF SuiteInit
<1>2. [SuiteNext]_allVars => [Y!Next]_(Y!vars)
  BY DEF SuiteNext, allVars, syncVars, Y!vars
<1> QED BY <1>1, <1>2, PTL DEF SuiteSpec, Y!Spec

\* A write to synchronised tables replaces all that was committed before it began,
\* however the deletions of several writes interleave
\* (src/internal/apps/pixez/routers.go:402).
THEOREM WritesReplace == SuiteSpec => []LastReplaces
<1>1. SynInv => LastReplaces
  BY DEF SynInv, LastReplaces
<1> QED BY <1>1, SynRuns, SynInvariant, PTL

\* As every write deletes from the tables in one order, some write that is under way
\* can go on (src/internal/apps/pixez/routers.go:562).
THEOREM WritesGoOn == SuiteSpec => []SomeGoesOn
<1>1. SynInv => SomeGoesOn
  <2> SUFFICES ASSUME SynInv PROVE Y!TypeOK /\ Y!SomeGoesOn
    BY DEF SomeGoesOn
  <2>1. \A X : Y!Cardinality(X) = Cardinality(X)
    BY Zenon DEF Y!Cardinality, Cardinality
  <2>2. \A t \in Table : Cardinality(yLast[t]) <= 1
    <3> SUFFICES ASSUME NEW t \in Table PROVE Cardinality(yLast[t]) <= 1
      OBVIOUS
    <3>1. yLast[t] = {} \/ \E x \in Tx : yLast[t] = {x}
      BY DEF SynInv, SynTyped
    <3>2. Cardinality({}) = 0 /\ \A x \in Tx : Cardinality({x}) = 1
      BY FS_EmptySet, FS_Singleton
    <3> QED BY <3>1, <3>2
  <2>3. Y!TypeOK
    BY <2>1, <2>2 DEF SynInv, SynTyped, SynTx, Y!TypeOK
  <2> QED BY <2>3, SynGoesOn
<1> QED BY <1>1, SynRuns, SynInvariant, PTL
-----------------------------------------------------------------------------
(* Copies of the settings *)

SetRecord == [at : {"idle", "key", "all", "commit"}, key : SUBSET Key]

SetFew(F) == F \in SUBSET S!Read /\ IsFiniteSet(F) /\ Cardinality(F) <= MaxFills

SetTyped ==
  /\ sRow \in [Key -> S!Held] /\ sRam \in [Node -> [Key -> S!Held]]
  /\ sFill \in [Node -> SUBSET S!Read] /\ \A n \in Node : SetFew(sFill[n])
  /\ sWrite \in [Node -> SetRecord]
  /\ sQueue \in [Node -> Seq(SUBSET Key)] /\ \A n \in Node : Len(sQueue[n]) <= MaxQueue
  /\ sHears \in SUBSET Node
  /\ sStart \in [Node -> SUBSET [Key -> S!Held]]
  /\ \A n \in Node : sStart[n] = {} \/ \E r \in [Key -> S!Held] : sStart[n] = {r}
  /\ sOvertaken \in [Node -> SUBSET Key]

SetQueued(q, k) == \E j \in 1 .. Len(q) : k \in q[j]
SetWriting(k)   == \E m \in Node : sWrite[m].at = "key" /\ k \in sWrite[m].key

\* A copy of key k that node n has and that differs from the row was overtaken, or the
\* change is on its way to the node or about to be.
SetKey(n, k) ==
  sRam[n][k] # {} /\ sRam[n][k] # sRow[k] =>
    k \in sOvertaken[n] \/ SetQueued(sQueue[n], k) \/ SetWriting(k)

SetInv == SetTyped /\ \A n \in Node, k \in Key : SetKey(n, k)

LEMMA SetConstants ==
  /\ IsFiniteSet(Key) /\ StorageKey \subseteq Key /\ MaxFills \in Nat /\ MaxQueue \in Nat
  /\ \A T : S!Cardinality(T) = Cardinality(T)
<1>1. \A T : S!Cardinality(T) = Cardinality(T)
  BY Zenon DEF S!Cardinality, Cardinality
<1>2. \A T : S!IsFiniteSet(T) = IsFiniteSet(T)
  BY Zenon DEF S!IsFiniteSet, IsFiniteSet
<1> QED BY <1>1, <1>2, ConstantsFit DEF S!SettingsAssumption

LEMMA SetAppended ==
  \A q \in Seq(SUBSET Key), K \in SUBSET Key :
    /\ Append(q, K) \in Seq(SUBSET Key) /\ Len(Append(q, K)) = Len(q) + 1
    /\ \A k : SetQueued(Append(q, K), k) <=> SetQueued(q, k) \/ k \in K
<1> SUFFICES ASSUME NEW q \in Seq(SUBSET Key), NEW K \in SUBSET Key
             PROVE  /\ Append(q, K) \in Seq(SUBSET Key) /\ Len(Append(q, K)) = Len(q) + 1
                    /\ \A k : SetQueued(Append(q, K), k) <=> SetQueued(q, k) \/ k \in K
  OBVIOUS
<1> DEFINE r == Append(q, K)
<1>1. /\ r \in Seq(SUBSET Key) /\ Len(r) = Len(q) + 1 /\ r[Len(q) + 1] = K /\ Len(q) \in Nat
      /\ \A j \in 1 .. Len(q) : r[j] = q[j]
  OBVIOUS
<1> HIDE DEF r
<1>2. ASSUME NEW k PROVE SetQueued(r, k) <=> SetQueued(q, k) \/ k \in K
  <2>1. SetQueued(q, k) => SetQueued(r, k)
    BY <1>1 DEF SetQueued
  <2>2. k \in K => SetQueued(r, k)
    BY <1>1 DEF SetQueued
  <2>3. SetQueued(r, k) => SetQueued(q, k) \/ k \in K
    BY <1>1 DEF SetQueued
  <2> QED BY <2>1, <2>2, <2>3
<1> QED BY <1>1, <1>2 DEF r

LEMMA SetTaken ==
  \A q \in Seq(SUBSET Key) : q # <<>> =>
    /\ Head(q) \in SUBSET Key /\ Tail(q) \in Seq(SUBSET Key) /\ Len(Tail(q)) <= Len(q)
    /\ \A k : SetQueued(q, k) => SetQueued(Tail(q), k) \/ k \in Head(q)
<1> SUFFICES ASSUME NEW q \in Seq(SUBSET Key), q # <<>>
             PROVE  /\ Head(q) \in SUBSET Key /\ Tail(q) \in Seq(SUBSET Key) /\ Len(Tail(q)) <= Len(q)
                    /\ \A k : SetQueued(q, k) => SetQueued(Tail(q), k) \/ k \in Head(q)
  OBVIOUS
<1> DEFINE r == Tail(q)
<1>1. /\ Len(q) \in Nat \ {0} /\ r \in Seq(SUBSET Key) /\ Len(r) = Len(q) - 1 /\ Head(q) = q[1]
      /\ \A j \in 1 .. Len(r) : r[j] = q[j + 1]
  OBVIOUS
<1> HIDE DEF r
<1>2. ASSUME NEW k, SetQueued(q, k), k \notin Head(q) PROVE SetQueued(r, k)
  <2>1. PICK j \in 1 .. Len(q) : k \in q[j]
    BY <1>2 DEF SetQueued
  <2>2. j # 1 /\ j - 1 \in 1 .. Len(r) /\ r[j - 1] = q[j]
    BY <1>1, <1>2, <2>1
  <2> QED BY <2>1, <2>2 DEF SetQueued
<1> QED BY <1>1, <1>2 DEF r

\* A node drops its copies of K and tells those who hear it.
LEMMA SetTells ==
  ASSUME SetInv, NEW n \in Node, NEW K \in SUBSET Key, S!Broadcast(n, K), NEW w \in SetRecord,
         sWrite' = [sWrite EXCEPT ![n] = w], sWrite[n].at = "key" => sWrite[n].key = K,
         UNCHANGED <<sRow, sFill, sHears, sStart>>
  PROVE  SetInv'
<1>0. SetTyped /\ \A m \in Node, k \in Key : SetKey(m, k)
  BY DEF SetInv
<1>1. /\ sRam' \in [Node -> [Key -> S!Held]]
      /\ \A k \in K : sRam'[n][k] = {}
      /\ \A k \in Key \ K : sRam'[n][k] = sRam[n][k]
      /\ \A m \in Node : m # n => sRam'[m] = sRam[m]
  <2>1. sRam \in [Node -> [Key -> S!Held]] /\ {} \in S!Held
    BY <1>0 DEF SetTyped, S!Held
  <2>2. sRam' = [sRam EXCEPT ![n] = [k \in Key |-> IF k \in K THEN {} ELSE sRam[n][k]]]
    BY DEF S!Broadcast, S!Dropped
  <2> QED BY <2>1, <2>2
<1>2. /\ sOvertaken' \in [Node -> SUBSET Key]
      /\ sOvertaken'[n] = sOvertaken[n] \ K
      /\ \A m \in Node : m # n => sOvertaken[m] \subseteq sOvertaken'[m]
      /\ \A m \in Node : m # n /\ m \notin sHears =>
           \A k \in K : sRam[m][k] # {} => k \in sOvertaken'[m]
  BY <1>0 DEF S!Broadcast, SetTyped
<1>3. /\ \A m \in Node : sQueue'[m] = IF m \in sHears THEN Append(sQueue[m], K) ELSE sQueue[m]
      /\ \A m \in sHears : Len(sQueue[m]) < MaxQueue
      /\ sQueue' = [m \in Node |-> IF m \in sHears THEN Append(sQueue[m], K) ELSE sQueue[m]]
      /\ \A m \in Node : sQueue[m] \in Seq(SUBSET Key) /\ Len(sQueue[m]) <= MaxQueue
  BY <1>0 DEF S!Broadcast, SetTyped
<1>4. /\ sQueue' \in [Node -> Seq(SUBSET Key)]
      /\ \A m \in Node, k \in Key : SetQueued(sQueue[m], k) => SetQueued(sQueue'[m], k)
      /\ \A m \in sHears, k \in K : SetQueued(sQueue'[m], k)
  <2>1. ASSUME NEW m \in Node
        PROVE  /\ sQueue'[m] \in Seq(SUBSET Key)
               /\ \A k \in Key : SetQueued(sQueue[m], k) => SetQueued(sQueue'[m], k)
               /\ m \in sHears => \A k \in K : SetQueued(sQueue'[m], k)
    BY <1>3, SetAppended
  <2>2. sHears \subseteq Node
    BY <1>0 DEF SetTyped
  <2> QED BY <1>3, <2>1, <2>2
<1>5. \A m \in Node : Len(sQueue'[m]) <= MaxQueue
  <2> SUFFICES ASSUME NEW m \in Node PROVE Len(sQueue'[m]) <= MaxQueue
    OBVIOUS
  <2>1. CASE m \in sHears
    <3>1. Len(sQueue'[m]) = Len(sQueue[m]) + 1
      BY <1>3, <2>1, SetAppended
    <3>2. Len(sQueue[m]) \in Nat /\ Len(sQueue[m]) < MaxQueue
      BY <1>3, <2>1
    <3> QED BY <3>1, <3>2, SetConstants
  <2>2. CASE m \notin sHears
    BY <1>3, <2>2
  <2> QED BY <2>1, <2>2
<1>6. /\ sWrite' \in [Node -> SetRecord]
      /\ \A k \in Key : SetWriting(k) => SetWriting(k)' \/ k \in K
  BY <1>0 DEF SetTyped, SetWriting
<1>7. SetTyped'
  BY <1>0, <1>1, <1>2, <1>4, <1>5, <1>6 DEF SetTyped
<1>8. ASSUME NEW m \in Node, NEW k \in Key PROVE SetKey(m, k)'
  <2>1. CASE m = n
    BY <1>0, <1>1, <1>2, <1>4, <1>6, <2>1 DEF SetKey
  <2>2. CASE m # n
    BY <1>0, <1>1, <1>2, <1>4, <1>6, <2>2 DEF SetKey
  <2> QED BY <2>1, <2>2
<1> QED BY <1>7, <1>8 DEF SetInv

\* What is not told, but read, filled or restarted: the rest of the steps.
LEMMA SetStep == ASSUME SetInv, [S!Next]_(S!vars) PROVE SetInv'
<1>0. SetTyped /\ \A m \in Node, k \in Key : SetKey(m, k)
  BY DEF SetInv
<1>1. CASE UNCHANGED S!vars
  BY <1>0, <1>1 DEF S!vars, SetInv, SetTyped, SetKey, SetWriting
<1>2. ASSUME NEW n \in Node, S!Preheat(n) PROVE SetInv'
  <2>1. PICK r \in sStart[n] : /\ sRam' = [sRam EXCEPT ![n] = r]
                               /\ sOvertaken' = [sOvertaken EXCEPT ![n] = {k \in Key : r[k] # sRow[k]}]
    BY <1>2 DEF S!Preheat
  <2>2. sStart' = [sStart EXCEPT ![n] = {}] /\ UNCHANGED <<sRow, sFill, sWrite, sQueue, sHears>>
    BY <1>2 DEF S!Preheat
  <2>3. r \in [Key -> S!Held]
    BY <1>0 DEF SetTyped
  <2>4. SetTyped'
    BY <1>0, <2>1, <2>2, <2>3 DEF SetTyped
  <2>5. ASSUME NEW m \in Node, NEW k \in Key PROVE SetKey(m, k)'
    <3>1. SetWriting(k)' <=> SetWriting(k)
      BY <2>2 DEF SetWriting
    <3> QED BY <1>0, <2>1, <2>2, <3>1 DEF SetKey, SetTyped
  <2> QED BY <2>4, <2>5 DEF SetInv
<1>3. ASSUME NEW n \in Node, S!Subscribe(n) PROVE SetInv'
  BY <1>0, <1>3 DEF S!Subscribe, SetInv, SetTyped, SetKey, SetWriting
<1>4. ASSUME NEW n \in Node, NEW K \in SUBSET Key, S!ReadRows(n, K) PROVE SetInv'
  <2> DEFINE F == {[key |-> k, row |-> sRow[k]] : k \in K}
  <2>1. /\ Cardinality(sFill[n]) + Cardinality(K) <= MaxFills
        /\ sFill' = [sFill EXCEPT ![n] = sFill[n] \cup F]
        /\ UNCHANGED <<sRow, sRam, sWrite, sQueue, sHears, sStart, sOvertaken>>
    BY <1>4, SetConstants DEF S!ReadRows
  <2>2. F \in SUBSET S!Read
    BY <1>0 DEF SetTyped, S!Read
  <2>3. IsFiniteSet(K) /\ Cardinality(K) \in Nat
    BY SetConstants, FS_Subset, FS_CardinalityType
  <2>4. IsFiniteSet(F) /\ Cardinality(F) <= Cardinality(K) /\ Cardinality(F) \in Nat
    <3> DEFINE f == [k \in K |-> [key |-> k, row |-> sRow[k]]]
    <3>1. f \in Surjection(K, F)
      BY DEF Surjection
    <3> HIDE DEF f, F
    <3> QED BY <2>3, <3>1, FS_Surjection, FS_CardinalityType
  <2> HIDE DEF F
  <2>5. SetFew(sFill[n] \cup F)
    <3>1. SetFew(sFill[n])
      BY <1>0 DEF SetTyped
    <3>2. /\ IsFiniteSet(sFill[n] \cup F)
          /\ Cardinality(sFill[n] \cup F) = Cardinality(sFill[n]) + Cardinality(F) - Cardinality(sFill[n] \cap F)
      BY <2>4, <3>1, FS_Union DEF SetFew
    <3>3. Cardinality(sFill[n]) \in Nat /\ Cardinality(sFill[n] \cap F) \in Nat
      BY <2>4, <3>1, FS_Subset, FS_CardinalityType DEF SetFew
    <3> QED BY <2>1, <2>2, <2>3, <2>4, <3>1, <3>2, <3>3, SetConstants DEF SetFew
  <2>6. sFill' \in [Node -> SUBSET S!Read] /\ \A m \in Node : SetFew(sFill'[m])
    <3>1. sFill \in [Node -> SUBSET S!Read] /\ \A m \in Node : SetFew(sFill[m])
      BY <1>0 DEF SetTyped
    <3>2. sFill[n] \cup F \in SUBSET S!Read
      BY <2>5 DEF SetFew
    <3> QED BY <2>1, <2>5, <3>1, <3>2
  <2>7. SetTyped'
    BY <1>0, <2>1, <2>6 DEF SetTyped
  <2> QED BY <1>0, <2>1, <2>7 DEF SetInv, SetKey, SetWriting
<1>5. ASSUME NEW n \in Node, NEW f \in sFill[n], S!Populate(n, f) PROVE SetInv'
  <2>1. f \in S!Read /\ f.key \in Key /\ f.row \in S!Held
    BY <1>0 DEF SetTyped, S!Read
  <2>2. /\ sFill' = [sFill EXCEPT ![n] = sFill[n] \ {f}]
        /\ sRam' = [sRam EXCEPT ![n] = [sRam[n] EXCEPT ![f.key] = f.row]]
        /\ sOvertaken' = [sOvertaken EXCEPT ![n] = IF f.row = sRow[f.key] THEN sOvertaken[n] \ {f.key}
                                                   ELSE sOvertaken[n] \cup {f.key}]
        /\ UNCHANGED <<sRow, sWrite, sQueue, sHears, sStart>>
    BY <1>0, <1>5 DEF S!Populate, SetTyped
  <2>3. SetFew(sFill[n] \ {f})
    <3>1. SetFew(sFill[n])
      BY <1>0 DEF SetTyped
    <3>2. IsFiniteSet(sFill[n] \ {f}) /\ Cardinality(sFill[n] \ {f}) <= Cardinality(sFill[n])
      BY <3>1, FS_Subset DEF SetFew
    <3>3. Cardinality(sFill[n] \ {f}) \in Nat /\ Cardinality(sFill[n]) \in Nat
      BY <3>1, <3>2, FS_CardinalityType DEF SetFew
    <3> QED BY <3>1, <3>2, <3>3, SetConstants DEF SetFew
  <2>4. sFill' \in [Node -> SUBSET S!Read] /\ \A m \in Node : SetFew(sFill'[m])
    <3>1. sFill \in [Node -> SUBSET S!Read] /\ \A m \in Node : SetFew(sFill[m])
      BY <1>0 DEF SetTyped
    <3> QED BY <2>2, <2>3, <3>1
  <2>5. /\ sRam' \in [Node -> [Key -> S!Held]] /\ sOvertaken' \in [Node -> SUBSET Key]
        /\ \A m \in Node : m # n => sRam'[m] = sRam[m] /\ sOvertaken'[m] = sOvertaken[m]
        /\ sRam'[n][f.key] = f.row /\ (f.row # sRow[f.key] => f.key \in sOvertaken'[n])
        /\ \A k \in Key : k # f.key => sRam'[n][k] = sRam[n][k] /\ (k \in sOvertaken[n] => k \in sOvertaken'[n])
    BY <1>0, <2>1, <2>2 DEF SetTyped
  <2>6. SetTyped'
    BY <1>0, <2>2, <2>4, <2>5 DEF SetTyped
  <2>7. ASSUME NEW m \in Node, NEW k \in Key PROVE SetKey(m, k)'
    <3>1. SetWriting(k)' <=> SetWriting(k)
      BY <2>2 DEF SetWriting
    <3>2. SetKey(m, k)
      BY <1>0
    <3>3. CASE m = n /\ k = f.key
      BY <2>2, <2>5, <3>3 DEF SetKey
    <3>4. CASE m # n \/ k # f.key
      BY <2>2, <2>5, <3>1, <3>2, <3>4 DEF SetKey
    <3> QED BY <3>3, <3>4
  <2> QED BY <2>6, <2>7 DEF SetInv
<1>6. ASSUME NEW n \in Node, NEW k \in Key, NEW v \in Value, S!Commit(n, k, v) PROVE SetInv'
  <2>1. /\ sWrite[n] = S!Idle /\ sRow' = [sRow EXCEPT ![k] = {v}]
        /\ sWrite' = [sWrite EXCEPT ![n] = [at |-> "key", key |-> {k}]]
        /\ UNCHANGED <<sRam, sFill, sQueue, sHears, sStart, sOvertaken>>
    BY <1>6 DEF S!Commit
  <2>2. SetTyped'
    BY <1>0, <2>1 DEF SetTyped, SetRecord, S!Held
  <2>3. /\ SetWriting(k)'
        /\ \A j \in Key : SetWriting(j) => SetWriting(j)'
    BY <1>0, <2>1 DEF SetWriting, SetTyped, S!Idle
  <2>4. \A j \in Key : j # k => sRow'[j] = sRow[j]
    BY <1>0, <2>1 DEF SetTyped
  <2> QED BY <1>0, <2>1, <2>2, <2>3, <2>4 DEF SetInv, SetKey
<1>7. ASSUME NEW n \in Node, S!InvalidateKey(n) PROVE SetInv'
  <2>1. sWrite[n] \in SetRecord
    BY <1>0 DEF SetTyped
  <2>2. PICK w \in SetRecord : sWrite' = [sWrite EXCEPT ![n] = w]
    <3>1. S!Idle \in SetRecord /\ [sWrite[n] EXCEPT !.at = "all"] \in SetRecord
      BY <2>1 DEF SetRecord, S!Idle
    <3>2. \/ sWrite' = [sWrite EXCEPT ![n] = [sWrite[n] EXCEPT !.at = "all"]]
          \/ sWrite' = [sWrite EXCEPT ![n] = S!Idle]
      BY <1>0, <1>7 DEF S!InvalidateKey, SetTyped
    <3> QED BY <3>1, <3>2
  <2>3. PICK K \in SUBSET Key : K = sWrite[n].key
    BY <2>1 DEF SetRecord
  <2> QED BY <1>7, <2>2, <2>3, SetTells DEF S!InvalidateKey
<1>8. ASSUME NEW n \in Node, S!InvalidateAll(n) PROVE SetInv'
  <2>1. S!Idle \in SetRecord
    BY DEF SetRecord, S!Idle
  <2>2. PICK K \in SUBSET Key : K = Key
    OBVIOUS
  <2> QED BY <1>8, <2>1, <2>2, SetTells DEF S!InvalidateAll
<1>9. ASSUME NEW n \in Node, NEW k \in StorageKey, S!SaveInTx(n, k) PROVE SetInv'
  <2>1. k \in Key /\ [at |-> "commit", key |-> {k}] \in SetRecord /\ S!Idle.at # "key"
    BY SetConstants DEF SetRecord, S!Idle
  <2>2. PICK K \in SUBSET Key : K = {k}
    BY <2>1
  <2> QED BY <1>9, <2>1, <2>2, SetTells DEF S!SaveInTx
<1>10. ASSUME NEW n \in Node, S!CommitTx(n) PROVE SetInv'
  <2>1. /\ sWrite[n].at = "commit" /\ sWrite' = [sWrite EXCEPT ![n] = S!Idle]
        /\ UNCHANGED <<sRam, sFill, sQueue, sHears, sStart>>
        /\ S!Idle \in SetRecord /\ S!Idle.at = "idle"
    BY <1>10 DEF S!CommitTx, SetRecord, S!Idle
  <2>2. \A k \in Key : SetWriting(k) => SetWriting(k)'
    BY <1>0, <2>1 DEF SetWriting, SetTyped
  <2>3. /\ sWrite' \in [Node -> SetRecord] /\ sWrite[n] \in SetRecord
    BY <1>0, <2>1 DEF SetTyped
  <2>4. CASE UNCHANGED <<sRow, sOvertaken>>
    BY <1>0, <2>1, <2>2, <2>3, <2>4 DEF SetInv, SetTyped, SetKey
  <2>5. ASSUME NEW v \in Value,
               sRow' = [k \in Key |-> IF k \in sWrite[n].key THEN {v} ELSE sRow[k]],
               sOvertaken' = [m \in Node |-> sOvertaken[m] \cup {k \in sWrite[n].key : sRam[m][k] # {}}]
        PROVE  SetInv'
    <3>1. SetTyped'
      <4>1. sRow' \in [Key -> S!Held]
        BY <1>0, <2>5 DEF SetTyped, S!Held
      <4>2. sOvertaken' \in [Node -> SUBSET Key]
        BY <1>0, <2>3, <2>5 DEF SetTyped, SetRecord
      <4> QED BY <1>0, <2>1, <2>3, <4>1, <4>2 DEF SetTyped
    <3>2. ASSUME NEW m \in Node, NEW k \in Key PROVE SetKey(m, k)'
      BY <1>0, <2>1, <2>2, <2>5 DEF SetKey
    <3> QED BY <3>1, <3>2 DEF SetInv
  <2> QED BY <1>10, <2>4, <2>5 DEF S!CommitTx
<1>11. ASSUME NEW n \in Node, S!Hear(n) \/ S!Lose(n) PROVE SetInv'
  <2>1. /\ sQueue[n] # <<>> /\ sQueue' = [sQueue EXCEPT ![n] = Tail(sQueue[n])]
        /\ UNCHANGED <<sRow, sFill, sWrite, sHears, sStart>>
    BY <1>0, <1>11 DEF S!Hear, S!Lose, SetTyped
  <2>2. /\ sQueue[n] \in Seq(SUBSET Key) /\ Len(sQueue[n]) <= MaxQueue /\ Len(sQueue[n]) \in Nat
    BY <1>0 DEF SetTyped
  <2>3. PICK K \in SUBSET Key, q \in Seq(SUBSET Key) : K = Head(sQueue[n]) /\ q = Tail(sQueue[n])
    BY <2>1, <2>2, SetTaken
  <2>4. Len(q) <= MaxQueue /\ \A k : SetQueued(sQueue[n], k) => SetQueued(q, k) \/ k \in K
    <3>1. Len(q) <= Len(sQueue[n]) /\ Len(q) \in Nat
      BY <2>1, <2>2, <2>3, SetTaken
    <3>2. \A k : SetQueued(sQueue[n], k) => SetQueued(q, k) \/ k \in K
      BY <2>1, <2>2, <2>3, SetTaken
    <3> QED BY <2>2, <3>1, <3>2, SetConstants
  <2>5. /\ sQueue' \in [Node -> Seq(SUBSET Key)] /\ \A m \in Node : Len(sQueue'[m]) <= MaxQueue
        /\ sQueue'[n] = q /\ \A m \in Node : m # n => sQueue'[m] = sQueue[m]
    BY <1>0, <2>1, <2>3, <2>4 DEF SetTyped
  <2>6. \A k \in Key : SetWriting(k)' <=> SetWriting(k)
    BY <2>1 DEF SetWriting
  <2>7. CASE S!Hear(n)
    <3>1. /\ sRam' \in [Node -> [Key -> S!Held]] /\ \A k \in K : sRam'[n][k] = {}
          /\ \A k \in Key \ K : sRam'[n][k] = sRam[n][k]
          /\ \A m \in Node : m # n => sRam'[m] = sRam[m]
      BY <1>0, <2>3, <2>7, ZenonT(40) DEF S!Hear, S!Dropped, SetTyped, S!Held
    <3>2. sOvertaken' = [sOvertaken EXCEPT ![n] = sOvertaken[n] \ K]
      BY <1>0, <2>3, <2>7 DEF S!Hear, SetTyped
    <3>3. /\ sOvertaken' \in [Node -> SUBSET Key] /\ sOvertaken'[n] = sOvertaken[n] \ K
          /\ \A m \in Node : m # n => sOvertaken'[m] = sOvertaken[m]
      BY <1>0, <3>2 DEF SetTyped
    <3>4. SetTyped'
      BY <1>0, <2>1, <2>5, <3>1, <3>3 DEF SetTyped
    <3>5. ASSUME NEW m \in Node, NEW k \in Key PROVE SetKey(m, k)'
      BY <1>0, <2>1, <2>4, <2>5, <2>6, <3>1, <3>3, ZenonT(40) DEF SetKey
    <3> QED BY <3>4, <3>5 DEF SetInv
  <2>8. CASE S!Lose(n)
    <3>1. /\ UNCHANGED sRam
          /\ sOvertaken' = [sOvertaken EXCEPT ![n] = sOvertaken[n] \cup {k \in K : sRam[n][k] # {}}]
      BY <1>0, <2>3, <2>8 DEF S!Lose, SetTyped
    <3>2. /\ sOvertaken' \in [Node -> SUBSET Key]
          /\ sOvertaken'[n] = sOvertaken[n] \cup {k \in K : sRam[n][k] # {}}
          /\ \A m \in Node : m # n => sOvertaken'[m] = sOvertaken[m]
      BY <1>0, <3>1 DEF SetTyped
    <3>3. SetTyped'
      BY <1>0, <2>1, <2>5, <3>1, <3>2 DEF SetTyped
    <3>4. ASSUME NEW m \in Node, NEW k \in Key PROVE SetKey(m, k)'
      BY <1>0, <2>1, <2>4, <2>5, <2>6, <3>1, <3>2 DEF SetKey
    <3> QED BY <3>3, <3>4 DEF SetInv
  <2> QED BY <1>11, <2>7, <2>8
<1>12. ASSUME NEW n \in Node, S!Restart(n) PROVE SetInv'
  <2>1. /\ sRam' = [sRam EXCEPT ![n] = S!Empty] /\ sFill' = [sFill EXCEPT ![n] = {}]
        /\ sWrite' = [sWrite EXCEPT ![n] = S!Idle] /\ sQueue' = [sQueue EXCEPT ![n] = <<>>]
        /\ sHears' = sHears \ {n} /\ sStart' = [sStart EXCEPT ![n] = {sRow}] /\ UNCHANGED sRow
        /\ sOvertaken' = [m \in Node |->
             IF m = n THEN {}
             ELSE IF sWrite[n].at = "key" THEN sOvertaken[m] \cup {k \in sWrite[n].key : sRam[m][k] # {}}
             ELSE sOvertaken[m]]
    BY <1>12 DEF S!Restart
  <2>2. /\ S!Empty \in [Key -> S!Held] /\ \A k \in Key : S!Empty[k] = {}
        /\ S!Idle \in SetRecord /\ S!Idle.at = "idle" /\ sWrite[n] \in SetRecord
    BY <1>0 DEF S!Empty, S!Held, SetRecord, S!Idle, SetTyped
  <2>3. SetFew({}) /\ <<>> \in Seq(SUBSET Key) /\ Len(<<>>) <= MaxQueue
    BY FS_EmptySet, SetConstants DEF SetFew
  <2>4. sFill' \in [Node -> SUBSET S!Read] /\ \A m \in Node : SetFew(sFill'[m])
    <3>1. sFill \in [Node -> SUBSET S!Read] /\ \A m \in Node : SetFew(sFill[m])
      BY <1>0 DEF SetTyped
    <3> QED BY <2>1, <2>3, <3>1
  <2>5. sQueue' \in [Node -> Seq(SUBSET Key)] /\ (\A m \in Node : Len(sQueue'[m]) <= MaxQueue)
        /\ \A m \in Node : m # n => sQueue'[m] = sQueue[m]
    BY <1>0, <2>1, <2>3 DEF SetTyped
  <2>6. /\ sStart' \in [Node -> SUBSET [Key -> S!Held]]
        /\ \A m \in Node : sStart'[m] = {} \/ \E r \in [Key -> S!Held] : sStart'[m] = {r}
    BY <1>0, <2>1 DEF SetTyped
  <2>7. /\ sOvertaken' \in [Node -> SUBSET Key]
        /\ \A m \in Node : m # n => sOvertaken[m] \subseteq sOvertaken'[m]
        /\ sWrite[n].at = "key" => \A m \in Node, k \in sWrite[n].key :
                                      m # n /\ sRam[m][k] # {} => k \in sOvertaken'[m]
    BY <1>0, <2>1, <2>2 DEF SetTyped, SetRecord
  <2>8. SetTyped'
    BY <1>0, <2>1, <2>2, <2>4, <2>5, <2>6, <2>7 DEF SetTyped
  <2>9. \A k \in Key : SetWriting(k) => SetWriting(k)' \/ (sWrite[n].at = "key" /\ k \in sWrite[n].key)
    BY <1>0, <2>1 DEF SetWriting, SetTyped
  <2>10. ASSUME NEW m \in Node, NEW k \in Key PROVE SetKey(m, k)'
    <3>1. CASE m = n
      BY <1>0, <2>1, <2>2, <3>1 DEF SetKey, SetTyped
    <3>2. CASE m # n
      <4>1. sRam'[m] = sRam[m] /\ sQueue'[m] = sQueue[m]
        BY <1>0, <2>1, <2>5, <3>2 DEF SetTyped
      <4> QED BY <1>0, <2>1, <2>7, <2>9, <3>2, <4>1 DEF SetKey
    <3> QED BY <3>1, <3>2
  <2> QED BY <2>8, <2>10 DEF SetInv
<1> QED BY <1>1, <1>2, <1>3, <1>4, <1>5, <1>6, <1>7, <1>8, <1>9, <1>10, <1>11, <1>12 DEF S!Next

LEMMA SetInvariant == S!Spec => []SetInv
<1>1. S!Init => SetInv
  <2> SUFFICES ASSUME S!Init PROVE SetInv
    OBVIOUS
  <2>1. /\ S!Empty \in [Key -> S!Held] /\ \A k \in Key : S!Empty[k] = {}
        /\ S!Idle \in SetRecord
    BY DEF S!Empty, S!Held, SetRecord, S!Idle
  <2>2. SetFew({}) /\ <<>> \in Seq(SUBSET Key) /\ Len(<<>>) <= MaxQueue
    BY FS_EmptySet, SetConstants DEF SetFew
  <2>3. SetTyped
    BY <2>1, <2>2 DEF S!Init, SetTyped
  <2> QED BY <2>1, <2>3 DEF S!Init, SetInv, SetKey
<1>2. SetInv /\ [S!Next]_(S!vars) => SetInv'
  BY SetStep
<1> QED BY <1>1, <1>2, PTL DEF S!Spec

LEMMA SetRuns == SuiteSpec => S!Spec
<1>1. SuiteInit => S!Init
  BY DEF SuiteInit
<1>2. [SuiteNext]_allVars => [S!Next]_(S!vars)
  BY DEF SuiteNext, allVars, settingsVars, S!vars
<1> QED BY <1>1, <1>2, PTL DEF SuiteSpec, S!Spec

\* A node keeps an old copy of a setting only as long as the change is on its way to
\* it, unless the copy was filled late or the message was missed
\* (src/internal/repository/system_config_cache.go:149).
THEOREM OldSettingsGo == SuiteSpec => []StaleWasOvertaken
<1>1. SetInv => StaleWasOvertaken
  <2> SUFFICES ASSUME SetInv PROVE S!TypeOK /\ S!StaleWasOvertaken
    BY DEF StaleWasOvertaken
  <2>1. S!TypeOK
    BY SetConstants DEF SetInv, SetTyped, SetFew, SetRecord, S!TypeOK
  <2>2. S!StaleWasOvertaken
    <3>1. SUFFICES ASSUME NEW n \in Node, NEW k \in Key, k \in S!Stale(n), k \notin sOvertaken[n]
                   PROVE  k \in S!Announced(n)
      BY DEF S!StaleWasOvertaken, S!Stale
    <3>2. SetQueued(sQueue[n], k) \/ SetWriting(k)
      BY <3>1 DEF SetInv, SetKey, S!Stale
    <3>3. CASE SetQueued(sQueue[n], k)
      <4>1. DOMAIN sQueue[n] = 1 .. Len(sQueue[n])
        BY DEF SetInv, SetTyped
      <4>2. PICK j \in DOMAIN sQueue[n] : k \in sQueue[n][j]
        BY <3>3, <4>1 DEF SetQueued
      <4> QED BY <4>2, Zenon DEF S!Announced
    <3>4. CASE SetWriting(k)
      <4>1. PICK m \in {x \in Node : sWrite[x].at = "key"} : k \in sWrite[m].key
        BY <3>4 DEF SetWriting
      <4> QED BY <4>1, Zenon DEF S!Announced
    <3> QED BY <3>2, <3>3, <3>4
  <2> QED BY <2>1, <2>2
<1> QED BY <1>1, SetRuns, SetInvariant, PTL
=============================================================================
