---------------------------- MODULE PixivAccount ----------------------------
(***************************************************************************)
(* The credentials of one Pixiv account: the row of w_pixez_pixiv_users,   *)
(* and the calls that read it, exchange its refresh token at Pixiv and     *)
(* store the answer, each for itself (src/internal/service/pixez/client.go,*)
(* src/internal/apps/pixez/routers.go).  An exchange issues an access and  *)
(* a refresh token of one number.  Pixiv is external: it is taken to       *)
(* revoke a refresh token with every exchange, or never.                   *)
(***************************************************************************)
EXTENDS Integers, FiniteSets

CONSTANTS
  Call,      \* calls in flight
  MaxToken,  \* bound on exchanges
  MaxFaults  \* bound on failed writes and crashes

AccountAssumption == MaxToken \in Nat \ {0} /\ MaxFaults \in Nat

VARIABLES
  row,     \* {} or the access and refresh token stored; 0 for an empty one
  call,    \* where a call is, the tokens it read, what it was answered, what it spent
  live,    \* refresh tokens Pixiv accepts
  valid,   \* access tokens Pixiv accepts
  rotates, \* Pixiv answers with a new refresh token and revokes the old
  issued,  \* exchanges so far
  known,   \* refresh tokens that users and clients can have seen
  lost,    \* tokens whose successor was never stored, or that were stored by a client
  faults

vars == <<row, call, live, valid, rotates, issued, known, lost, faults>>

Token == 0 .. MaxToken
Pair  == [access : Token, refresh : Token]
Idle  == [at |-> "idle", read |-> {}, answer |-> {}, spent |-> {}]

TypeOK ==
  /\ row  = {} \/ \E p \in Pair : row = {p}
  /\ \A c \in Call :
       /\ call[c].at \in {"idle", "request", "latest", "reload", "exchange", "given", "login",
                          "persist", "find", "save", "create"}
       /\ call[c].read = {} \/ \E p \in Pair : call[c].read = {p}
       /\ call[c].answer = {} \/ \E p \in Pair : call[c].answer = {p}
       /\ call[c].spent \in SUBSET Token
  /\ live \in SUBSET Token /\ valid \in SUBSET Token /\ lost \in SUBSET Token
  /\ known \in SUBSET Token
  /\ rotates \in BOOLEAN /\ issued \in Token /\ faults \in 0 .. MaxFaults

\* One login outside of this program has given the user token 1.
Init ==
  /\ row = {} /\ call = [c \in Call |-> Idle]
  /\ live = {1} /\ valid = {1} /\ rotates \in BOOLEAN /\ issued = 1 /\ known = {1}
  /\ lost = {} /\ faults = 0

\* What is stored can be read.
Shown(stored) == known \cup {p.refresh : p \in stored}

Goes(c, at)  == call' = [call EXCEPT ![c].at = at]
Ends(c)      == call' = [call EXCEPT ![c] = Idle]
Expired(c)   == \A p \in call[c].read : p.access \notin valid

-----------------------------------------------------------------------------
\* getJSONWithAuth, with the account as a task or handler loaded it a while ago.
Load(c) ==
  /\ call[c] = Idle /\ row # {}
  /\ call' = [call EXCEPT ![c] = [Idle EXCEPT !.at = "request", !.read = row]]
  /\ UNCHANGED <<row, live, valid, rotates, issued, known, lost, faults>>

\* A user's profile is fetched with the row as it is now.
GetUserProfile(c) == Load(c)

\* Only an authorisation error goes on.
Request(c) ==
  /\ call[c].at = "request"
  /\ IF Expired(c) THEN Goes(c, "latest") ELSE Ends(c)
  /\ UNCHANGED <<row, live, valid, rotates, issued, known, lost, faults>>

\* tryLatestAccessToken: the access token another call has stored in the meantime.
TryLatest(c) ==
  /\ call[c].at = "latest"
  /\ LET fresh == {p \in row : p.access # 0 /\ \A q \in call[c].read : q.access # p.access}
     IN  IF \E p \in fresh : p.access \in valid THEN Ends(c) ELSE Goes(c, "reload")
  /\ UNCHANGED <<row, live, valid, rotates, issued, known, lost, faults>>

\* latestPixivUser once more; without a row the copy does. RefreshPixivToken next.
Reload(c) ==
  /\ call[c].at = "reload"
  /\ call' = [call EXCEPT ![c].at = "exchange", ![c].read = IF row = {} THEN @ ELSE row]
  /\ UNCHANGED <<row, live, valid, rotates, issued, known, lost, faults>>

\* The refresh an administrator asks for.
RefreshAccount(c) ==
  /\ call[c] = Idle /\ row # {}
  /\ call' = [call EXCEPT ![c] = [Idle EXCEPT !.at = "exchange", !.read = row]]
  /\ UNCHANGED <<row, live, valid, rotates, issued, known, lost, faults>>

\* AddPixivUserByRefreshToken with a token the user has from somewhere.
AddUser(c, t) ==
  /\ call[c] = Idle
  /\ call' = [call EXCEPT ![c] = [Idle EXCEPT !.at = "given", !.read = {[access |-> 0, refresh |-> t]}]]
  /\ UNCHANGED <<row, live, valid, rotates, issued, known, lost, faults>>

\* AddPixivUserByCode.
LoginCallback(c) ==
  /\ call[c] = Idle
  /\ call' = [call EXCEPT ![c] = [Idle EXCEPT !.at = "login"]]
  /\ UNCHANGED <<row, live, valid, rotates, issued, known, lost, faults>>

\* Pixiv accepts the refresh token t; a call that asked to add a user goes on to find it.
Issue(c, t, next) ==
  LET g == issued + 1
  IN  /\ g <= MaxToken /\ issued' = g
      /\ valid' = valid \cup {g}
      /\ live'  = IF rotates THEN (live \ {t}) \cup {g} ELSE live
      /\ call'  = [call EXCEPT ![c].at = next,
                               ![c].answer = {[access |-> g, refresh |-> IF rotates THEN g ELSE 0]},
                               ![c].spent  = IF rotates THEN {t} ELSE {}]

Exchange(c) ==
  /\ call[c].at \in {"exchange", "given"}
  /\ \E p \in call[c].read :
       \/ p.refresh \in live /\ Issue(c, p.refresh, IF call[c].at = "given" THEN "find" ELSE "persist")
       \/ p.refresh \notin live /\ Ends(c) /\ UNCHANGED <<live, valid, issued>>
  /\ UNCHANGED <<row, rotates, known, lost, faults>>

\* The answer to an authorisation code starts a line of tokens of its own.
Authorize(c) ==
  /\ call[c].at = "login"
  /\ issued < MaxToken /\ issued' = issued + 1
  /\ valid' = valid \cup {issued'} /\ live' = live \cup {issued'}
  /\ call' = [call EXCEPT ![c].at = "find", ![c].answer = {[access |-> issued', refresh |-> issued']}]
  /\ UNCHANGED <<row, rotates, known, lost, faults>>

\* A mutant of Persist: the new refresh token is not among the updates.
PersistAccess(c) ==
  /\ call[c].at = "persist"
  /\ row' = {[p EXCEPT !.access = q.access] : p \in row, q \in call[c].answer}
  /\ known' = Shown(row')
  /\ Ends(c)
  /\ UNCHANGED <<live, valid, rotates, issued, lost, faults>>

\* RefreshPixivToken stores what it was answered; an empty refresh token is left out.
Persist(c) ==
  /\ call[c].at = "persist"
  /\ row' = {[access |-> q.access, refresh |-> IF q.refresh = 0 THEN p.refresh ELSE q.refresh] :
               p \in row, q \in call[c].answer}
  /\ known' = Shown(row')
  /\ Ends(c)
  /\ UNCHANGED <<live, valid, rotates, issued, lost, faults>>

\* The First before the Save or Create of the two Add functions.
Find(c) ==
  /\ call[c].at = "find"
  /\ Goes(c, IF row = {} THEN "create" ELSE "save")
  /\ UNCHANGED <<row, live, valid, rotates, issued, known, lost, faults>>

\* An empty answer stands for the token that was given.
Tokens(c) ==
  {[access |-> q.access,
    refresh |-> IF q.refresh # 0 THEN q.refresh ELSE (CHOOSE p \in call[c].read : TRUE).refresh] :
      q \in call[c].answer}

\* Save writes the row, also one that was deleted since; Create finds it taken.
Store(c) ==
  /\ call[c].at \in {"save", "create"}
  /\ IF call[c].at = "create" /\ row # {}
     THEN lost' = lost \cup call[c].spent /\ UNCHANGED row
     ELSE row' = Tokens(c) /\ UNCHANGED lost
  /\ known' = Shown(row')
  /\ Ends(c)
  /\ UNCHANGED <<live, valid, rotates, issued, faults>>

\* The write fails, which RefreshPixivToken only logs, or the process stops.
Fail(c) ==
  /\ call[c] # Idle /\ faults < MaxFaults /\ faults' = faults + 1
  /\ lost' = lost \cup call[c].spent
  /\ Ends(c)
  /\ UNCHANGED <<row, live, valid, rotates, issued, known>>

-----------------------------------------------------------------------------
\* UpsertUser: a client stores the tokens it has, which may be old ones.
UpsertUser(t) ==
  /\ row'  = {[access |-> t, refresh |-> t]}
  /\ lost' = IF t \in live THEN lost ELSE lost \cup {t}
  /\ UNCHANGED <<call, live, valid, rotates, issued, known, faults>>

DeleteUser ==
  /\ row # {} /\ row' = {}
  /\ UNCHANGED <<call, live, valid, rotates, issued, known, lost, faults>>

\* An access token runs out.
Expire(a) ==
  /\ a \in valid /\ valid' = valid \ {a}
  /\ UNCHANGED <<row, call, live, rotates, issued, known, lost, faults>>

Next ==
  \/ \E c \in Call :
       \/ Load(c) \/ GetUserProfile(c) \/ Request(c) \/ TryLatest(c) \/ Reload(c) \/ RefreshAccount(c) \/ LoginCallback(c)
       \/ Exchange(c) \/ Authorize(c) \/ Persist(c) \/ Find(c) \/ Store(c) \/ Fail(c)
       \/ \E t \in known : AddUser(c, t)
  \/ \E t \in known : UpsertUser(t)
  \/ \E a \in Token : Expire(a)
  \/ DeleteUser

Spec == Init /\ [][Next]_vars

-----------------------------------------------------------------------------
\* Calls that exchange the token of one account at a time never leave it with a
\* refresh token that was spent: the one stored is accepted by Pixiv, or the call
\* that spent it is about to store the next, unless that write failed or a client
\* stored an old token (src/internal/service/pixez/client.go:283).
StoredIsLive ==
  \A p \in row : p.refresh \in live \cup lost \cup UNION {call[c].spent : c \in Call}
=============================================================================
