------------------------------- MODULE Accounts -------------------------------
(***************************************************************************)
(* User accounts and the external identities bound to them: registration   *)
(* with an e-mail code, the callback of an external login (log in, bind,   *)
(* or register), the profile and the administrator's edits, deletion.      *)
(* One action is one statement, transaction or access to Redis, so that    *)
(* what a request has counted or read may have changed when it writes.     *)
(* Names, addresses, passwords and the profile's texts are not told apart: *)
(* a count finds a name or an address taken, or not.                       *)
(***************************************************************************)
EXTENDS Integers

CONSTANTS
  UserId,     \* ids; idgen draws each once
  Identity,   \* (authentication source, external id)
  Request     \* requests in progress

VARIABLES
  user,     \* user[u]: the w_users row
  owner,    \* owner[i]: the user of the external_accounts row of identity i
  code,     \* the registration code Redis holds for the address, and whether it was mailed
  state,    \* Redis: the state of an external login, and what it is for
  req,      \* req[r]: what request r is doing
  astray    \* identities bound by a request whose user was deleted meanwhile

vars == <<user, owner, code, state, req, astray>>

NoUser == 0

AccountsAssumption == NoUser \notin UserId /\ Identity # {}

Row    == {"never", "active", "disabled", "gone"}

At == {"idle", "spend", "name", "email", "create",     \* registration
       "consume", "find", "unique", "insert", "bind",  \* external login
       "count", "save"}                                \* an edit

Req == [at : At, purpose : {"login", "bind"}, user : UserId \cup {NoUser}, row : Row,  \* as read
        ident : Identity, late : BOOLEAN]  \* the user's row changed since it was read

TypeOK ==
  /\ user \in [UserId -> Row]
  /\ owner \in [Identity -> UserId \cup {NoUser}]
  /\ code \in {"none", "kept", "mailed"}
  /\ state \in {"none", "login", "bind"}
  /\ req \in [Request -> Req]
  /\ astray \in SUBSET Identity

Quiet == [at |-> "idle", purpose |-> "login", user |-> NoUser, row |-> "never",
          ident |-> CHOOSE i \in Identity : TRUE, late |-> FALSE]

Init ==
  /\ user = [u \in UserId |-> "never"] /\ owner = [i \in Identity |-> NoUser]
  /\ code = "none" /\ state = "none"
  /\ req = [r \in Request |-> Quiet] /\ astray = {}

Live   == {u \in UserId : user[u] \in {"active", "disabled"}}
Unused == {u \in UserId : user[u] = "never"}

Goto(r, at) == req' = [req EXCEPT ![r].at = at]
End(r)      == req' = [req EXCEPT ![r] = Quiet]

\* The requests that have read the row of u, when it changes.
Overtaken(u) == [r \in Request |-> IF req[r].user = u THEN [req[r] EXCEPT !.late = TRUE] ELSE req[r]]

-----------------------------------------------------------------------------
\* A code is kept, then the task that mails it is dispatched; a minute later another
\* takes its place.
KeepEmailCode ==
  /\ code' = "kept"
  /\ UNCHANGED <<user, owner, state, req, astray>>

SendEmailCode == KeepEmailCode

\* SendEmailHandler: without it, or where the mail server refuses, nobody knows the code.
MailCode ==
  /\ code = "kept" /\ code' = "mailed"
  /\ UNCHANGED <<user, owner, state, req, astray>>

\* Ten minutes pass.
CodeExpires ==
  /\ code # "none" /\ code' = "none"
  /\ UNCHANGED <<user, owner, state, req, astray>>

\* Register: the code is compared, then deleted; where codes are switched off, and
\* when the administrator creates a user, neither happens.
VerifyCode(r) ==
  /\ req[r].at = "idle"
  /\ \/ code = "mailed" /\ Goto(r, "spend")
     \/ Goto(r, "name")
  /\ UNCHANGED <<user, owner, code, state, astray>>

SpendCode(r) ==
  /\ req[r].at = "spend"
  /\ code' \in {"none", code} /\ Goto(r, "name")
  /\ UNCHANGED <<user, owner, state, astray>>

\* The name and the address are counted, each by a statement of its own ...
CountName(r) ==
  /\ req[r].at = "name"
  /\ Goto(r, "email") \/ End(r)
  /\ UNCHANGED <<user, owner, code, state, astray>>

CountEmail(r) ==
  /\ req[r].at = "email"
  /\ Goto(r, "create") \/ End(r)
  /\ UNCHANGED <<user, owner, code, state, astray>>

\* ... and the row is written, unless the name is taken by now (Fail).
CreateUser(r) ==
  /\ req[r].at = "create"
  /\ \E u \in Unused : user' = [user EXCEPT ![u] = "active"]
  /\ End(r)
  /\ UNCHANGED <<owner, code, state, astray>>

-----------------------------------------------------------------------------
\* An external login, or a binding, begins: its state is kept for ten minutes.
Authorize(purpose) ==
  /\ state = "none" /\ state' = purpose
  /\ purpose = "bind" => Live # {}
  /\ UNCHANGED <<user, owner, code, req, astray>>

StateExpires ==
  /\ state # "none" /\ state' = "none"
  /\ UNCHANGED <<user, owner, code, req, astray>>

\* Callback: the state is read, then deleted ...
Callback(r) ==
  /\ req[r].at = "idle" /\ state # "none"
  /\ req' = [req EXCEPT ![r].at = "consume", ![r].purpose = state]
  /\ UNCHANGED <<user, owner, code, state, astray>>

\* ... and the source tells which identity it is.
ConsumeState(r) ==
  /\ req[r].at = "consume"
  /\ state' \in {"none", state}
  /\ \E i \in Identity : req' = [req EXCEPT ![r].at = "find", ![r].ident = i]
  /\ UNCHANGED <<user, owner, code, astray>>

\* handleCallbackLogin: a bound identity logs its owner in (last_login_at is no
\* part of this model) or, the owner being gone, gets an error; another registers.
FindIdentity(r) ==
  /\ req[r].at = "find" /\ req[r].purpose = "login"
  /\ \/ owner[req[r].ident] # NoUser /\ End(r)
     \/ owner[req[r].ident] = NoUser /\ Goto(r, "unique")
  /\ UNCHANGED <<user, owner, code, state, astray>>

\* handleCallbackBind: the user of the session is read.
FindUser(r) ==
  /\ req[r].at = "find" /\ req[r].purpose = "bind"
  /\ \E u \in Live : req' = [req EXCEPT ![r].at = "bind", ![r].user = u]
  /\ UNCHANGED <<user, owner, code, state, astray>>

\* handleCallbackRegister: a name that is free ...
UniqueUsername(r) ==
  /\ req[r].at = "unique"
  /\ Goto(r, "insert") \/ End(r)
  /\ UNCHANGED <<user, owner, code, state, astray>>

\* ... the account, unless the name is taken by now (Fail) ...
InsertUser(r) ==
  /\ req[r].at = "insert"
  /\ \E u \in Unused :
       /\ user' = [user EXCEPT ![u] = "active"]
       /\ req' = [req EXCEPT ![r].at = "bind", ![r].user = u]
  /\ UNCHANGED <<owner, code, state, astray>>

\* ... and the binding: a transaction that refuses an identity of somebody else
\* and does not look for the user.
BindExternalAccount(r) ==
  LET i == req[r].ident IN
  /\ req[r].at = "bind"
  /\ owner' = [owner EXCEPT ![i] = IF @ = NoUser THEN req[r].user ELSE @]
  /\ astray' = IF owner[i] = NoUser /\ req[r].late THEN astray \cup {i} ELSE astray
  /\ End(r)
  /\ UNCHANGED <<user, code, state>>

\* A user removes a binding; a source is deleted with its bindings.
Unbind(i) ==
  /\ owner[i] # NoUser
  /\ owner' = [owner EXCEPT ![i] = NoUser] /\ astray' = astray \ {i}
  /\ UNCHANGED <<user, code, state, req>>

DeleteAuthSource ==
  /\ owner' = [i \in Identity |-> NoUser] /\ astray' = {}
  /\ UNCHANGED <<user, code, state, req>>

-----------------------------------------------------------------------------
\* Mutated forms, no part of the specification: an edit starts from what the
\* session keeps; a user is deleted without the bindings.
ReadFromSession(r, u) ==
  /\ req[r].at = "idle" /\ u \in Live
  /\ req' = [req EXCEPT ![r] = [Quiet EXCEPT !.at = "count", !.user = u,
                                             !.row = "active"]]
  /\ UNCHANGED <<user, owner, code, state, astray>>

DeleteUserOnly(u) ==
  /\ u \in Live
  /\ user' = [user EXCEPT ![u] = "gone"] /\ req' = Overtaken(u)
  /\ UNCHANGED <<owner, code, state, astray>>

\* updateUserProfile and the administrator's updateUser read the row ...
ReadUser(r, u) ==
  /\ req[r].at = "idle" /\ u \in Live
  /\ req' = [req EXCEPT ![r] = [Quiet EXCEPT !.at = "count", !.user = u, !.row = user[u]]]
  /\ UNCHANGED <<user, owner, code, state, astray>>

\* ... count who else has a new address ...
CountNewEmail(r) ==
  /\ req[r].at = "count"
  /\ Goto(r, "save") \/ End(r)
  /\ UNCHANGED <<user, owner, code, state, astray>>

\* ... and save the whole row; where there is none any more, Save inserts it.
SaveUser(r) ==
  LET u == req[r].user IN
  /\ req[r].at = "save"
  /\ user' = [user EXCEPT ![u] = req[r].row]
  /\ req' = [Overtaken(u) EXCEPT ![r] = Quiet]
  /\ UNCHANGED <<owner, code, state, astray>>

\* updateUserStatus: one column.
UpdateUserStatus(u, active) ==
  /\ u \in Live
  /\ user' = [user EXCEPT ![u] = IF active THEN "active" ELSE "disabled"] /\ req' = Overtaken(u)
  /\ UNCHANGED <<owner, code, state, astray>>

\* DeleteUserWithRelations.
DeleteUser(u) ==
  /\ u \in Live
  /\ user' = [user EXCEPT ![u] = "gone"] /\ req' = Overtaken(u)
  /\ owner' = [i \in Identity |-> IF owner[i] = u THEN NoUser ELSE owner[i]]
  /\ astray' = {i \in astray : owner[i] # u}
  /\ UNCHANGED <<code, state>>

\* A statement fails, or the process dies.
Fail(r) ==
  /\ req[r].at # "idle" /\ End(r)
  /\ UNCHANGED <<user, owner, code, state, astray>>

-----------------------------------------------------------------------------
Next ==
  \/ SendEmailCode \/ MailCode \/ CodeExpires \/ StateExpires \/ DeleteAuthSource
  \/ \E p \in {"login", "bind"} : Authorize(p)
  \/ \E i \in Identity : Unbind(i)
  \/ \E r \in Request :
       \/ VerifyCode(r) \/ SpendCode(r) \/ CountName(r) \/ CountEmail(r) \/ CreateUser(r)
       \/ Callback(r) \/ ConsumeState(r) \/ FindIdentity(r) \/ FindUser(r)
       \/ UniqueUsername(r) \/ InsertUser(r) \/ BindExternalAccount(r)
       \/ CountNewEmail(r) \/ SaveUser(r) \/ Fail(r)
  \/ \E r \in Request, u \in UserId : ReadUser(r, u)
  \/ \E u \in UserId : DeleteUser(u) \/ \E b \in BOOLEAN : UpdateUserStatus(u, b)

Spec == Init /\ [][Next]_vars

-----------------------------------------------------------------------------
\* What an administrator did to an account, disabling or deleting it, is undone by
\* the administrator, or by an edit that had read the row before it was done:
\* every edit writes the whole row.
UndoneByOverlapOnly ==
  [][\A u \in UserId :
       user[u] \in {"disabled", "gone"} /\ user'[u] = "active"
       => \/ UpdateUserStatus(u, TRUE)
          \/ \E r \in Request : req[r].user = u /\ req[r].late /\ SaveUser(r)]_vars

\* An identity leads to an account that exists, whose login it is, unless the
\* account was deleted while a request was binding it; such an identity can
\* neither log in nor register.
IdentityLeadsSomewhere ==
  \A i \in Identity \ astray : owner[i] # NoUser => owner[i] \in Live
=============================================================================
