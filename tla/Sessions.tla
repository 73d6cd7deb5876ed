------------------------------- MODULE Sessions -------------------------------
(***************************************************************************)
(* How one user with a password is recognised: the login, with a code sent *)
(* by e-mail where that is asked for; the session, which keeps the         *)
(* password's hash and is valid while the user still has it; personal      *)
(* access tokens; and the change of the password, which ends all of them.  *)
(* The user's row is looked up in a cache first.  RowCaches tells what the *)
(* cache consists of and how its copies go; here it is one copy that can   *)
(* always be missing.                                                      *)
(* One action is one access to the row, the cache, the session or Redis.   *)
(***************************************************************************)
EXTENDS Integers, FiniteSets

CONSTANTS
  Session,      \* cookies
  Token,        \* access tokens
  Request,      \* requests in progress
  MaxTokens,    \* max_api_keys_per_user
  MaxPassword   \* bound: passwords the user has had

SessionsAssumption == MaxTokens \in Nat /\ MaxPassword \in Nat \ {0} /\ Session # {}

VARIABLES
  pass,    \* the user's password: the number of those there have been
  active,  \* the user may log in
  copy,    \* the password in the cached copy of the row; 0: no copy
  old,     \* a request wrote that copy which had read the row before a change
  sess,    \* sess[s]: the password whose hash session s keeps; 0: no login
  token,   \* rows of w_access_tokens
  req      \* req[r]: what request r is doing

vars == <<pass, active, copy, old, sess, token, req>>

At == {"idle", "code", "last", "save", "cache",       \* login
       "load", "fill", "check", "user",                        \* authentication
       "insert", "rotate", "update", "tokens", "revoke",       \* what users do
       "edit", "edited"}

TypeOK ==
  /\ pass \in 1..MaxPassword /\ active \in BOOLEAN
  /\ copy \in 0..MaxPassword /\ old \in BOOLEAN
  /\ sess \in [Session -> 0..MaxPassword] /\ token \in SUBSET Token
  /\ req \in [Request -> [at : At, row : 0..MaxPassword, late : BOOLEAN,
                          sess : Session, tok : SUBSET Token]]

Quiet == [at |-> "idle", row |-> 0, late |-> FALSE,
          sess |-> CHOOSE s \in Session : TRUE, tok |-> {}]

Init ==
  /\ pass = 1 /\ active = TRUE /\ copy = 0 /\ old = FALSE
  /\ sess = [s \in Session |-> 0] /\ token = {} /\ req = [r \in Request |-> Quiet]

Goto(r, at) == req' = [req EXCEPT ![r].at = at]
End(r)      == req' = [req EXCEPT ![r] = Quiet]

\* The copy is removed: who is about to write one is overtaken.
Invalidate ==
  /\ copy' = 0 /\ old' = FALSE
  /\ req' = [r \in Request |-> [req[r] EXCEPT !.late = req[r].row # 0]]

-----------------------------------------------------------------------------
\* Login: the row is read, the password compared with it ...
Login(r, s) ==
  /\ req[r].at = "idle" /\ active
  /\ \E at \in {"code", "last"} :
       req' = [req EXCEPT ![r] = [Quiet EXCEPT !.at = at, !.row = pass, !.sess = s]]
  /\ UNCHANGED <<pass, active, copy, old, sess, token>>

\* ... a code that came with it is compared, and spent; a login without one, or with
\* another, is refused, and the former gets one sent.  (The codes are in Accounts.)
VerifyEmailCode(r) ==
  /\ req[r].at = "code"
  /\ Goto(r, "last") \/ End(r)
  /\ UNCHANGED <<pass, active, copy, old, sess, token>>

UpdateLastLogin(r) ==
  /\ req[r].at = "last" /\ Goto(r, "save")
  /\ UNCHANGED <<pass, active, copy, old, sess, token>>

SetLoginSession(r) ==
  /\ req[r].at = "save"
  /\ sess' = [sess EXCEPT ![req[r].sess] = req[r].row] /\ Goto(r, "cache")
  /\ UNCHANGED <<pass, active, copy, old, token>>

\* A login ends, as an authentication that had to read the row goes on, with
\* writing the copy: the row as it was read.
SetCachedUser(r) ==
  /\ req[r].at \in {"cache", "fill"}
  /\ copy' = req[r].row /\ old' = req[r].late
  /\ IF req[r].at = "cache" THEN End(r) ELSE Goto(r, "check")
  /\ UNCHANGED <<pass, active, sess, token>>

\* Logout: the copy goes too.
Logout(s) ==
  /\ sess[s] # 0
  /\ sess' = [sess EXCEPT ![s] = 0] /\ Invalidate
  /\ UNCHANGED <<pass, active, token>>

-----------------------------------------------------------------------------
\* GetUserFromRequest: the copy, where there is one of an active user ...
Authenticate(r, s) ==
  /\ req[r].at = "idle" /\ sess[s] # 0
  /\ \/ /\ copy # 0
        /\ req' = [req EXCEPT ![r] = [Quiet EXCEPT !.at = "check", !.row = copy, !.sess = s, !.late = old]]
     \/ req' = [req EXCEPT ![r] = [Quiet EXCEPT !.at = "load", !.sess = s]]
  /\ UNCHANGED <<pass, active, copy, old, sess, token>>

\* ... or the row, if the user is active ...
LoadUser(r) ==
  /\ req[r].at = "load"
  /\ IF active THEN req' = [req EXCEPT ![r].at = "fill", ![r].row = pass] ELSE End(r)
  /\ UNCHANGED <<pass, active, copy, old, sess, token>>

\* ... is compared with the session.
Accepts(r) == req[r].at = "check" /\ sess[req[r].sess] = req[r].row

Check(r) ==
  /\ req[r].at = "check"
  /\ IF Accepts(r) THEN Goto(r, "user") ELSE End(r)
  /\ UNCHANGED <<pass, active, copy, old, sess, token>>

-----------------------------------------------------------------------------
Free == Token \ (token \cup UNION {req[r].tok : r \in Request})

\* CreateAccessToken: the tokens are counted, then one is added.
CountAccessTokens(r) ==
  /\ req[r].at = "user" /\ Cardinality(token) < MaxTokens
  /\ \E t \in Free : req' = [req EXCEPT ![r].at = "insert", ![r].tok = {t}]
  /\ UNCHANGED <<pass, active, copy, old, sess, token>>

CreateAccessToken(r) ==
  /\ req[r].at = "insert"
  /\ token' = token \cup req[r].tok /\ End(r)
  /\ UNCHANGED <<pass, active, copy, old, sess>>

DeleteAccessToken(r, t) ==
  /\ req[r].at = "user" /\ t \in token
  /\ token' = token \ {t} /\ End(r)
  /\ UNCHANGED <<pass, active, copy, old, sess>>

\* RotateAccessToken reads the row and saves it with a new token; Save inserts it
\* again if it was deleted meanwhile.
ReadAccessToken(r, t) ==
  /\ req[r].at = "user" /\ t \in token
  /\ req' = [req EXCEPT ![r].at = "rotate", ![r].tok = {t}]
  /\ UNCHANGED <<pass, active, copy, old, sess, token>>

RotateAccessToken(r) ==
  /\ req[r].at = "rotate"
  /\ token' = token \cup req[r].tok /\ End(r)
  /\ UNCHANGED <<pass, active, copy, old, sess>>

-----------------------------------------------------------------------------
\* ChangePassword: the row is read and the old password compared, the column is
\* written, the tokens are deleted, the copy and the session go.
CheckOldPassword(r) ==
  /\ req[r].at = "user" /\ pass < MaxPassword
  /\ Goto(r, "update")
  /\ UNCHANGED <<pass, active, copy, old, sess, token>>

UpdatePassword(r) ==
  /\ req[r].at = "update" /\ pass < MaxPassword
  /\ pass' = pass + 1 /\ Goto(r, "tokens")
  /\ UNCHANGED <<active, copy, old, sess, token>>

RevokeTokens(r) ==
  /\ req[r].at = "tokens"
  /\ token' = {} /\ Goto(r, "revoke")
  /\ UNCHANGED <<pass, active, copy, old, sess>>

\* Mutated form of InvalidateCachedUser, no part of the specification.
ClearSessionOnly(r) ==
  /\ req[r].at = "revoke"
  /\ sess' = [sess EXCEPT ![req[r].sess] = 0] /\ End(r)
  /\ UNCHANGED <<pass, active, copy, old, token>>

InvalidateCachedUser(r) ==
  /\ req[r].at = "revoke"
  /\ copy' = 0 /\ old' = FALSE
  /\ sess' = [sess EXCEPT ![req[r].sess] = 0]
  /\ req' = [q \in Request |-> IF q = r THEN Quiet ELSE [req[q] EXCEPT !.late = req[q].row # 0]]
  /\ UNCHANGED <<pass, active, token>>

\* The profile and the administrator's form read the row and save it as a whole; the
\* administrator may set another password, which leaves the tokens' rows.
ReadUser(r) ==
  /\ req[r].at = "user"
  /\ req' = [req EXCEPT ![r].at = "edit", ![r].row = pass]
  /\ UNCHANGED <<pass, active, copy, old, sess, token>>

SaveUser(r) ==
  /\ req[r].at = "edit"
  /\ pass' \in {req[r].row, req[r].row + 1} /\ pass' <= MaxPassword
  /\ Goto(r, "edited")
  /\ UNCHANGED <<active, copy, old, sess, token>>

InvalidateEditedUser(r) ==
  /\ req[r].at = "edited"
  /\ copy' = 0 /\ old' = FALSE
  /\ req' = [q \in Request |-> IF q = r THEN Quiet ELSE [req[q] EXCEPT !.late = req[q].row # 0]]
  /\ UNCHANGED <<pass, active, sess, token>>

\* A statement fails.  One that fails after the password was written leaves a copy
\* until it expires, and counts as going on until then.
Fail(r) ==
  /\ req[r].at # "idle" /\ req[r].at \notin {"tokens", "revoke", "edited"}
  /\ End(r)
  /\ UNCHANGED <<pass, active, copy, old, sess, token>>

\* UpdateUserStatus by an administrator removes the copy as well.
UpdateUserStatus ==
  /\ active' = ~active /\ Invalidate
  /\ UNCHANGED <<pass, sess, token>>

Expire ==
  /\ copy # 0 /\ copy' = 0 /\ old' = FALSE
  /\ UNCHANGED <<pass, active, sess, token, req>>

Next ==
  \/ \E r \in Request :
       \/ VerifyEmailCode(r) \/ UpdateLastLogin(r)
       \/ SetLoginSession(r) \/ SetCachedUser(r) \/ LoadUser(r) \/ Check(r)
       \/ CountAccessTokens(r) \/ CreateAccessToken(r) \/ RotateAccessToken(r)
       \/ CheckOldPassword(r) \/ UpdatePassword(r) \/ RevokeTokens(r)
       \/ InvalidateCachedUser(r) \/ ReadUser(r) \/ SaveUser(r)
       \/ InvalidateEditedUser(r) \/ Fail(r)
  \/ \E r \in Request, s \in Session : Login(r, s) \/ Authenticate(r, s)
  \/ \E r \in Request, t \in Token : DeleteAccessToken(r, t) \/ ReadAccessToken(r, t)
  \/ \E s \in Session : Logout(s)
  \/ UpdateUserStatus \/ Expire

Spec == Init /\ [][Next]_vars

-----------------------------------------------------------------------------
\* Once a password has been changed, a session of a former one is refused, but by a
\* request that had looked the user up before the change was done, or by the copy
\* such a request wrote afterwards (which is "old").
SessionsEnd ==
  \A r \in Request :
    Accepts(r) /\ req[r].row # pass
    => req[r].late \/ \E q \in Request : req[q].at \in {"tokens", "revoke", "edited"}
=============================================================================
