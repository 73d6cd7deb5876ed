----------------------------- MODULE ServerProofs -----------------------------
(***************************************************************************)
(* Proofs about the server, for all values of the constants that meet what *)
(* the modules assume of them (ConstantsFit of MC_Server): any number of   *)
(* requests, users, sources and senders, any life times and bounds.  One   *)
(* part per component: what its variables hold, the inductive invariant, a *)
(* lemma for every action, and the theorems.                               *)
(*   Captcha           CaptchaInv: a nonce lasts as long as its challenge  *)
(*   Accounts          AcctInv: what a request has read still holds, or    *)
(*                     somebody overlapped it                              *)
(*   Sessions          SessInv: who still accepts an old password          *)
(*   Updater           UpInv: which file holds which program, step by step *)
(*   AccessLogWriter   LogInv: every row accepted is in one place          *)
(* SuiteSpec runs one of them at a time; a theorem of the suite follows    *)
(* from the component's, since the others stand still.                     *)
(***************************************************************************)
EXTENDS MC_Server, TLAPS

(* The captcha *)

\* A nonce that is about to be set lasts as long as the challenge does ...
CaptchaNonceLastsOn == \A r \in Client : pReq[r].at = "nonce" => pNow + pReq[r].ttl >= ChallengeTTL

\* ... and so does one that was set.
CaptchaNonceLasts == pWon > 0 => pNonce >= ChallengeTTL

CaptchaInv == P!TypeOK /\ CaptchaNonceLastsOn /\ CaptchaNonceLasts /\ P!RedeemedOnce

LEMMA CaptchaTypeInit == ASSUME P!CaptchaAssumption, P!Init PROVE P!TypeOK
  BY DEF P!CaptchaAssumption, P!Init, P!TypeOK, P!Req

\* A request that only moves on.
LEMMA CaptchaGotoTyped ==
  ASSUME P!TypeOK, NEW r \in Client,
         NEW at \in {"idle", "solved", "nonce", "settings", "issue", "done", "use"}, P!Goto(r, at)
  PROVE  /\ pReq' \in [Client -> P!Req]
         /\ pReq'[r].at = at /\ pReq'[r].ttl = pReq[r].ttl
         /\ \A q \in Client : q # r => pReq'[q] = pReq[q]
<1>1. pReq[r] \in P!Req
  BY DEF P!TypeOK
<1>2. [pReq[r] EXCEPT !.at = at] \in P!Req
  BY <1>1 DEF P!Req
<1>3. pReq' = [pReq EXCEPT ![r] = [pReq[r] EXCEPT !.at = at]]
  BY DEF P!Goto
<1> QED BY <1>1, <1>2, <1>3 DEF P!TypeOK, P!Req

LEMMA CaptchaStep == ASSUME P!CaptchaAssumption, CaptchaInv, [P!Next]_(P!vars) PROVE CaptchaInv'
<1> USE DEF P!CaptchaAssumption
<1>t. /\ P!TypeOK /\ CaptchaNonceLastsOn /\ CaptchaNonceLasts /\ P!RedeemedOnce
      /\ pNow \in 0..MaxTime /\ pNonce \in Nat /\ pWon \in Nat
      /\ \A r \in Client : pReq[r] \in P!Req /\ pReq[r].ttl \in Nat
  BY DEF CaptchaInv, P!TypeOK, P!Req
<1>1. CASE UNCHANGED P!vars
  BY <1>1, <1>t DEF P!vars, CaptchaInv, P!TypeOK, CaptchaNonceLastsOn, CaptchaNonceLasts, P!RedeemedOnce
<1>2. CASE P!Tick
  BY <1>2, <1>t DEF P!Tick, CaptchaInv, P!TypeOK, CaptchaNonceLastsOn, CaptchaNonceLasts, P!RedeemedOnce
<1>3. CASE P!Cleanup
  BY <1>3, <1>t DEF P!Cleanup, CaptchaInv, P!TypeOK, CaptchaNonceLastsOn, CaptchaNonceLasts, P!RedeemedOnce
<1>4. CASE P!Challenge
  BY <1>4, <1>t DEF P!Challenge, P!GenerateChallenge, CaptchaInv, P!TypeOK, CaptchaNonceLastsOn, CaptchaNonceLasts, P!RedeemedOnce, P!Req
<1>5. ASSUME NEW r \in Client, P!SubmitSolutions(r) PROVE CaptchaInv'
  <2>1. /\ P!Goto(r, "solved") /\ UNCHANGED <<pNow, pStrict, pNonce, pToken, pWon>>
    BY <1>5 DEF P!SubmitSolutions, P!VerifyChallengeSolutions
  <2>2. /\ pReq' \in [Client -> P!Req] /\ pReq'[r].at = "solved"
        /\ \A q \in Client : q # r => pReq'[q] = pReq[q]
    BY <2>1, <1>t, CaptchaGotoTyped
  <2> QED BY <2>1, <2>2, <1>t DEF CaptchaInv, P!TypeOK, CaptchaNonceLastsOn, CaptchaNonceLasts, P!RedeemedOnce
<1>6. ASSUME NEW r \in Client, P!NonceTTL(r) PROVE CaptchaInv'
  <2> DEFINE ttl == IF pNow < ChallengeTTL THEN ChallengeTTL - pNow ELSE 1
  <2>1. ttl \in Nat /\ pNow + ttl >= ChallengeTTL
    BY <1>t
  <2>2. /\ pReq' = [pReq EXCEPT ![r] = [at |-> "nonce", ttl |-> ttl]]
        /\ UNCHANGED <<pNow, pStrict, pNonce, pToken, pWon>>
    BY <1>6 DEF P!NonceTTL
  <2> HIDE DEF ttl
  <2>3. /\ pReq' \in [Client -> P!Req] /\ pReq'[r].ttl = ttl
        /\ \A q \in Client : q # r => pReq'[q] = pReq[q]
    BY <2>1, <2>2, <1>t DEF P!TypeOK, P!Req
  <2> QED BY <2>1, <2>2, <2>3, <1>t DEF CaptchaInv, P!TypeOK, CaptchaNonceLastsOn, CaptchaNonceLasts, P!RedeemedOnce
<1>7. ASSUME NEW r \in Client, P!SetNX(r) PROVE CaptchaInv'
  <2>1. CASE P!Shown(pNonce)
    <3>1. /\ P!Goto(r, "done") /\ UNCHANGED <<pNow, pStrict, pNonce, pToken, pWon>>
      BY <1>7, <2>1 DEF P!SetNX
    <3>2. /\ pReq' \in [Client -> P!Req] /\ pReq'[r].at = "done"
          /\ \A q \in Client : q # r => pReq'[q] = pReq[q]
      BY <3>1, <1>t, CaptchaGotoTyped
    <3> QED BY <3>1, <3>2, <1>t DEF CaptchaInv, P!TypeOK, CaptchaNonceLastsOn, CaptchaNonceLasts, P!RedeemedOnce
  <2>2. CASE ~P!Shown(pNonce)
    <3>1. /\ P!Goto(r, "settings") /\ UNCHANGED <<pNow, pStrict, pToken>>
          /\ pNonce' = pNow + pReq[r].ttl /\ pWon' = pWon + 1 /\ pReq[r].at = "nonce"
      BY <1>7, <2>2 DEF P!SetNX
    <3>2. /\ pReq' \in [Client -> P!Req] /\ pReq'[r].at = "settings"
          /\ \A q \in Client : q # r => pReq'[q] = pReq[q]
      BY <3>1, <1>t, CaptchaGotoTyped
    <3>3. pNow < ChallengeTTL => pWon = 0
      BY <2>2, <1>t DEF P!Shown, CaptchaNonceLasts
    <3>4. pNonce' \in Nat /\ pNonce' >= ChallengeTTL
      BY <3>1, <1>t DEF CaptchaNonceLastsOn
    <3> QED BY <3>1, <3>2, <3>3, <3>4, <1>t DEF CaptchaInv, P!TypeOK, CaptchaNonceLastsOn, CaptchaNonceLasts, P!RedeemedOnce
  <2> QED BY <2>1, <2>2
<1>8. ASSUME NEW r \in Client, P!CurrentSettings(r) PROVE CaptchaInv'
  <2>1. PICK at \in {"issue", "done"} : P!Goto(r, at)
    BY <1>8 DEF P!CurrentSettings
  <2>2. UNCHANGED <<pNow, pStrict, pNonce, pToken, pWon>>
    BY <1>8 DEF P!CurrentSettings
  <2>3. /\ pReq' \in [Client -> P!Req] /\ pReq'[r].at = at
        /\ \A q \in Client : q # r => pReq'[q] = pReq[q]
    BY <2>1, <1>t, CaptchaGotoTyped
  <2> QED BY <2>2, <2>3, <1>t DEF CaptchaInv, P!TypeOK, CaptchaNonceLastsOn, CaptchaNonceLasts, P!RedeemedOnce
<1>9. ASSUME NEW r \in Client, P!Redeem(r) PROVE CaptchaInv'
  <2>1. /\ P!Goto(r, "use") /\ UNCHANGED <<pNow, pStrict, pNonce, pWon>>
        /\ pToken' = [pToken EXCEPT ![r] = pNow + TokenTTL]
    BY <1>9 DEF P!Redeem
  <2>2. /\ pReq' \in [Client -> P!Req] /\ pReq'[r].at = "use"
        /\ \A q \in Client : q # r => pReq'[q] = pReq[q]
    BY <2>1, <1>t, CaptchaGotoTyped
  <2>3. pToken' \in [Client -> Nat]
    BY <2>1, <1>t DEF P!TypeOK
  <2> QED BY <2>1, <2>2, <2>3, <1>t DEF CaptchaInv, P!TypeOK, CaptchaNonceLastsOn, CaptchaNonceLasts, P!RedeemedOnce
<1>10. ASSUME NEW r \in Client, P!VerifyMiddleware(r) PROVE CaptchaInv'
  <2>1. /\ P!Goto(r, "done") /\ UNCHANGED <<pNow, pStrict, pNonce, pWon>>
        /\ pToken' = [pToken EXCEPT ![r] = 0]
    BY <1>10 DEF P!VerifyMiddleware, P!VerifyToken
  <2>2. /\ pReq' \in [Client -> P!Req] /\ pReq'[r].at = "done"
        /\ \A q \in Client : q # r => pReq'[q] = pReq[q]
    BY <2>1, <1>t, CaptchaGotoTyped
  <2>3. pToken' \in [Client -> Nat]
    BY <2>1, <1>t DEF P!TypeOK
  <2> QED BY <2>1, <2>2, <2>3, <1>t DEF CaptchaInv, P!TypeOK, CaptchaNonceLastsOn, CaptchaNonceLasts, P!RedeemedOnce
<1>11. ASSUME NEW r \in Client, P!Fail(r) PROVE CaptchaInv'
  <2>1. /\ P!Goto(r, "done") /\ UNCHANGED <<pNow, pStrict, pNonce, pToken, pWon>>
    BY <1>11 DEF P!Fail
  <2>2. /\ pReq' \in [Client -> P!Req] /\ pReq'[r].at = "done"
        /\ \A q \in Client : q # r => pReq'[q] = pReq[q]
    BY <2>1, <1>t, CaptchaGotoTyped
  <2> QED BY <2>1, <2>2, <1>t DEF CaptchaInv, P!TypeOK, CaptchaNonceLastsOn, CaptchaNonceLasts, P!RedeemedOnce
<1> QED BY <1>1, <1>2, <1>3, <1>4, <1>5, <1>6, <1>7, <1>8, <1>9, <1>10, <1>11 DEF P!Next

\* A challenge that is still good has been redeemed once at most, however many
\* requests hand its solution in (cap/manager.go:86).
THEOREM CaptchaRedeemedOnce == ASSUME P!CaptchaAssumption PROVE P!Spec => []P!RedeemedOnce
<1>1. P!Init => CaptchaInv
  BY CaptchaTypeInit DEF P!Init, CaptchaInv, CaptchaNonceLastsOn, CaptchaNonceLasts, P!RedeemedOnce
<1>2. CaptchaInv /\ [P!Next]_(P!vars) => CaptchaInv'
  BY CaptchaStep
<1>3. CaptchaInv => P!RedeemedOnce
  BY DEF CaptchaInv
<1> QED BY <1>1, <1>2, <1>3, PTL DEF P!Spec

\* Every state of the model is well typed.
THEOREM CaptchaTypeCorrect == ASSUME P!CaptchaAssumption PROVE P!Spec => []P!TypeOK
<1>1. P!Init => CaptchaInv
  BY CaptchaTypeInit DEF P!Init, CaptchaInv, CaptchaNonceLastsOn, CaptchaNonceLasts, P!RedeemedOnce
<1>2. CaptchaInv /\ [P!Next]_(P!vars) => CaptchaInv'
  BY CaptchaStep
<1>3. CaptchaInv => P!TypeOK
  BY DEF CaptchaInv
<1> QED BY <1>1, <1>2, <1>3, PTL DEF P!Spec
-----------------------------------------------------------------------------
\* A challenge that is still good has been redeemed once at most, however many
\* requests hand its solution in (cap/manager.go:86).
LEMMA CaptchaRuns == SuiteSpec => P!Spec
<1>1. SuiteInit => P!Init
  BY DEF SuiteInit
<1>2. [SuiteNext]_allVars => [P!Next]_(P!vars)
  BY DEF SuiteNext, allVars, captchaVars, P!vars
<1> QED BY <1>1, <1>2, PTL DEF SuiteSpec, P!Spec

THEOREM ChallengeRedeemedOnce == SuiteSpec => []RedeemedOnce
<1>1. P!CaptchaAssumption
  BY ConstantsFit
<1>2. P!TypeOK /\ P!RedeemedOnce => RedeemedOnce
  BY DEF RedeemedOnce
<1> QED BY <1>1, <1>2, CaptchaRuns, CaptchaRedeemedOnce, CaptchaTypeCorrect, PTL
-----------------------------------------------------------------------------
(* Accounts *)

\* A request that binds or edits has read its user's row: it has not changed since,
\* or the request is late.  No other request has a user.
AcctOK(x) ==
  /\ x.user \in UserId <=> x.at \in {"bind", "count", "save"}
  /\ x.at = "bind" /\ ~x.late => x.user \in U!Live
  /\ x.at \in {"count", "save"} =>
       x.row \in {"active", "disabled"} /\ (x.late \/ uUser[x.user] = x.row)

AcctInv == U!TypeOK /\ U!IdentityLeadsSomewhere /\ \A r \in Client : AcctOK(uReq[r])

LEMMA AcctQuiet ==
  U!Quiet \in U!Req /\ AcctOK(U!Quiet) /\ AcctOK(U!Quiet)' /\ U!Quiet.user = U!NoUser
  /\ U!Quiet.late = FALSE /\ U!Quiet.at = "idle"
<1>1. U!NoUser \notin UserId /\ Identity # {}
  BY ConstantsFit DEF U!AccountsAssumption
<1>2. U!Quiet \in U!Req /\ U!Quiet.user = U!NoUser /\ U!Quiet.at = "idle" /\ U!Quiet.late = FALSE
  BY <1>1 DEF U!Quiet, U!Req, U!At, U!Row
<1> QED BY <1>1, <1>2 DEF AcctOK

\* A request that has no user moves on and gets none.
LEMMA AcctGoto ==
  ASSUME AcctInv, NEW r \in Client, NEW at \in U!At, U!Goto(r, at),
         at \in {"bind", "count", "save"} <=> uReq[r].at \in {"bind", "count", "save"},
         at = "bind" <=> uReq[r].at = "bind"
  PROVE  \E x \in U!Req : uReq' = [uReq EXCEPT ![r] = x] /\ AcctOK(x)
<1> DEFINE x == [uReq[r] EXCEPT !.at = at]
<1>1. uReq' = [uReq EXCEPT ![r] = x] /\ uReq[r] \in U!Req /\ AcctOK(uReq[r])
  BY DEF U!Goto, AcctInv, U!TypeOK
<1>2. x \in U!Req /\ x.at = at /\ x.user = uReq[r].user /\ x.late = uReq[r].late /\ x.row = uReq[r].row
  BY <1>1 DEF U!Req
<1>3. AcctOK(x)
  BY <1>1, <1>2 DEF AcctOK
<1> QED BY <1>1, <1>2, <1>3

LEMMA AcctEnd ==
  ASSUME NEW r \in Client, U!End(r)
  PROVE  \E x \in U!Req : uReq' = [uReq EXCEPT ![r] = x] /\ AcctOK(x) /\ AcctOK(x)'
  BY AcctQuiet DEF U!End

\* A request goes on; users and bindings stay.
LEMMA AcctOnReq ==
  ASSUME AcctInv, NEW r \in Client,
         \E x \in U!Req : uReq' = [uReq EXCEPT ![r] = x] /\ AcctOK(x),
         UNCHANGED <<uUser, uOwner, uAstray>>,
         uCode' \in {"none", "kept", "mailed"}, uState' \in {"none", "login", "bind"}
  PROVE  AcctInv'
<1>1. PICK x \in U!Req : uReq' = [uReq EXCEPT ![r] = x] /\ AcctOK(x)
  OBVIOUS
<1>2. uReq' \in [Client -> U!Req] /\ uReq'[r] = x /\ \A q \in Client : q # r => uReq'[q] = uReq[q]
  BY <1>1 DEF AcctInv, U!TypeOK
<1>3. U!TypeOK'
  BY <1>2 DEF AcctInv, U!TypeOK
<1>4. U!IdentityLeadsSomewhere'
  BY DEF AcctInv, U!IdentityLeadsSomewhere, U!Live
<1>5. ASSUME NEW q \in Client PROVE AcctOK(uReq[q])'
  BY <1>1, <1>2 DEF AcctInv, AcctOK, U!Live
<1> QED BY <1>3, <1>4, <1>5 DEF AcctInv

\* The row of u changes, to a live one or with its bindings gone: who has read it is late.
LEMMA AcctOvertaken ==
  ASSUME AcctInv, NEW u \in UserId, NEW q \in Client
  PROVE  /\ U!Overtaken(u)[q] \in U!Req
         /\ U!Overtaken(u)[q].at = uReq[q].at /\ U!Overtaken(u)[q].user = uReq[q].user
         /\ U!Overtaken(u)[q].row = uReq[q].row
         /\ uReq[q].user = u => U!Overtaken(u)[q].late
         /\ uReq[q].user # u => U!Overtaken(u)[q] = uReq[q]
<1>1. uReq[q] \in U!Req
  BY DEF AcctInv, U!TypeOK
<1> QED BY <1>1 DEF U!Overtaken, U!Req

LEMMA AcctOnUser ==
  ASSUME AcctInv, NEW u \in UserId, NEW s \in U!Row, uUser' = [uUser EXCEPT ![u] = s],
         uReq' \in [Client -> U!Req],
         \A q \in Client : uReq'[q] = U!Overtaken(u)[q] \/ uReq'[q] = U!Quiet
  PROVE  uUser' \in [UserId -> U!Row] /\ \A q \in Client : AcctOK(uReq[q])'
<1>1. uUser' \in [UserId -> U!Row] /\ uUser'[u] = s /\ \A w \in UserId : w # u => uUser'[w] = uUser[w]
  BY DEF AcctInv, U!TypeOK
<1>2. ASSUME NEW q \in Client, uReq'[q] = U!Overtaken(u)[q] PROVE AcctOK(uReq[q])'
  <2>1. AcctOK(uReq[q])
    BY DEF AcctInv
  <2>2. CASE uReq[q].user = u
    BY <1>1, <1>2, <2>1, <2>2, AcctOvertaken DEF AcctOK
  <2>3. CASE uReq[q].user # u
    <3>1. uReq'[q] = uReq[q]
      BY <1>2, <2>3, AcctOvertaken
    <3> QED BY <1>1, <2>1, <2>3, <3>1 DEF AcctOK, U!Live
  <2> QED BY <2>2, <2>3
<1>3. ASSUME NEW q \in Client, uReq'[q] = U!Quiet PROVE AcctOK(uReq[q])'
  BY <1>3, AcctQuiet DEF AcctOK
<1> QED BY <1>1, <1>2, <1>3

\* Registration: an id nobody had.
LEMMA AcctNew ==
  ASSUME AcctInv, NEW u \in U!Unused, uUser' = [uUser EXCEPT ![u] = "active"],
         NEW r \in Client, NEW x \in U!Req, uReq' = [uReq EXCEPT ![r] = x], AcctOK(x)',
         UNCHANGED <<uOwner, uCode, uState, uAstray>>
  PROVE  AcctInv'
<1>1. /\ uUser' \in [UserId -> U!Row] /\ uUser'[u] = "active" /\ u \in UserId /\ uUser[u] = "never"
      /\ \A w \in UserId : w # u => uUser'[w] = uUser[w]
  BY DEF AcctInv, U!TypeOK, U!Row, U!Unused
<1>2. uReq' \in [Client -> U!Req] /\ uReq'[r] = x /\ \A q \in Client : q # r => uReq'[q] = uReq[q]
  BY DEF AcctInv, U!TypeOK
<1>3. U!TypeOK'
  BY <1>1, <1>2 DEF AcctInv, U!TypeOK
<1>4. U!IdentityLeadsSomewhere'
  BY <1>1 DEF AcctInv, U!IdentityLeadsSomewhere, U!Live
<1>5. ASSUME NEW q \in Client PROVE AcctOK(uReq[q])'
  <2>1. CASE q = r
    BY <1>2, <2>1 DEF AcctOK
  <2>2. CASE q # r
    <3>1. uReq'[q] = uReq[q] /\ AcctOK(uReq[q]) /\ uReq[q] \in U!Req
      BY <1>2, <2>2 DEF AcctInv, U!TypeOK
    <3> QED BY <1>1, <3>1 DEF AcctOK, U!Live
  <2> QED BY <2>1, <2>2
<1> QED BY <1>3, <1>4, <1>5 DEF AcctInv

LEMMA AcctStep == ASSUME AcctInv, [U!Next]_(U!vars) PROVE AcctInv'
<1>0. /\ U!TypeOK /\ \A r \in Client : uReq[r] \in U!Req /\ AcctOK(uReq[r])
      /\ uCode \in {"none", "kept", "mailed"} /\ uState \in {"none", "login", "bind"}
      /\ uUser \in [UserId -> U!Row] /\ uOwner \in [Identity -> UserId \cup {U!NoUser}]
  BY DEF AcctInv, U!TypeOK
<1>n. U!NoUser \notin UserId
  BY ConstantsFit DEF U!AccountsAssumption
<1>1. CASE UNCHANGED U!vars
  BY <1>1 DEF U!vars, AcctInv, AcctOK, U!TypeOK, U!IdentityLeadsSomewhere, U!Live
<1>2. CASE U!SendEmailCode \/ U!MailCode \/ U!CodeExpires \/ U!StateExpires
           \/ \E p \in {"login", "bind"} : U!Authorize(p)
  <2>1. UNCHANGED <<uUser, uOwner, uReq, uAstray>> /\ uCode' \in {"none", "kept", "mailed"}
        /\ uState' \in {"none", "login", "bind"}
    BY <1>0, <1>2 DEF U!SendEmailCode, U!KeepEmailCode, U!MailCode, U!CodeExpires, U!StateExpires, U!Authorize
  <2> QED BY <1>0, <2>1 DEF AcctInv, AcctOK, U!TypeOK, U!IdentityLeadsSomewhere, U!Live
<1>3. CASE U!DeleteAuthSource
  BY <1>0, <1>3 DEF U!DeleteAuthSource, AcctInv, AcctOK, U!TypeOK, U!IdentityLeadsSomewhere, U!Live
<1>4. ASSUME NEW i \in Identity, U!Unbind(i) PROVE AcctInv'
  <2>1. uOwner' = [uOwner EXCEPT ![i] = U!NoUser] /\ uAstray' = uAstray \ {i}
        /\ UNCHANGED <<uUser, uCode, uState, uReq>>
    BY <1>4 DEF U!Unbind
  <2>2. U!TypeOK'
    BY <1>0, <2>1 DEF U!TypeOK
  <2>3. U!IdentityLeadsSomewhere'
    BY <1>0, <2>1 DEF AcctInv, U!IdentityLeadsSomewhere, U!Live
  <2> QED BY <1>0, <2>1, <2>2, <2>3 DEF AcctInv, AcctOK, U!Live
<1>5. ASSUME NEW r \in Client,
             \/ U!VerifyCode(r) \/ U!SpendCode(r) \/ U!CountName(r) \/ U!CountEmail(r)
             \/ U!FindIdentity(r) \/ U!UniqueUsername(r) \/ U!CountNewEmail(r) \/ U!Fail(r)
      PROVE  AcctInv'
  <2>1. UNCHANGED <<uUser, uOwner, uState, uAstray>> /\ uCode' \in {"none", "kept", "mailed"}
    BY <1>0, <1>5 DEF U!VerifyCode, U!SpendCode, U!CountName, U!CountEmail, U!FindIdentity,
       U!UniqueUsername, U!CountNewEmail, U!Fail
  <2>2. \/ U!End(r)
        \/ uReq[r].at = "count" /\ U!Goto(r, "save")
        \/ uReq[r].at \in {"idle", "spend", "name", "email", "find", "unique"}
           /\ \E at \in {"spend", "name", "email", "create", "unique", "insert"} : U!Goto(r, at)
    BY <1>5 DEF U!VerifyCode, U!SpendCode, U!CountName, U!CountEmail, U!FindIdentity,
       U!UniqueUsername, U!CountNewEmail, U!Fail
  <2>3. CASE U!End(r)
    BY <1>0, <2>1, <2>3, AcctEnd, AcctOnReq
  <2>4. CASE uReq[r].at = "count" /\ U!Goto(r, "save")
    <3>1. "save" \in U!At
      BY DEF U!At
    <3>2. \E x \in U!Req : uReq' = [uReq EXCEPT ![r] = x] /\ AcctOK(x)
      BY <2>4, <3>1, AcctGoto
    <3> QED BY <1>0, <2>1, <3>2, AcctOnReq
  <2>5. ASSUME NEW at \in {"spend", "name", "email", "create", "unique", "insert"}, U!Goto(r, at),
               uReq[r].at \in {"idle", "spend", "name", "email", "find", "unique"}
        PROVE  AcctInv'
    <3>1. at \in U!At
      BY DEF U!At
    <3>2. \E x \in U!Req : uReq' = [uReq EXCEPT ![r] = x] /\ AcctOK(x)
      BY <2>5, <3>1, AcctGoto
    <3> QED BY <1>0, <2>1, <3>2, AcctOnReq
  <2> QED BY <2>2, <2>3, <2>4, <2>5
<1>6. ASSUME NEW r \in Client, U!CreateUser(r) PROVE AcctInv'
  <2>1. PICK u \in U!Unused : uUser' = [uUser EXCEPT ![u] = "active"]
    BY <1>6 DEF U!CreateUser
  <2>2. uReq' = [uReq EXCEPT ![r] = U!Quiet] /\ UNCHANGED <<uOwner, uCode, uState, uAstray>>
    BY <1>6 DEF U!CreateUser, U!End
  <2> QED BY <2>1, <2>2, AcctQuiet, AcctNew
<1>7. ASSUME NEW r \in Client, U!Callback(r) PROVE AcctInv'
  <2> DEFINE x == [uReq[r] EXCEPT !.at = "consume", !.purpose = uState]
  <2>1. uReq' = [uReq EXCEPT ![r] = x] /\ uReq[r].at = "idle" /\ uState # "none"
        /\ UNCHANGED <<uUser, uOwner, uCode, uState, uAstray>>
    BY <1>7 DEF U!Callback
  <2>2. x \in U!Req /\ AcctOK(x)
    BY <1>0, <2>1 DEF U!Req, U!At, AcctOK
  <2> HIDE DEF x
  <2> QED BY <1>0, <2>1, <2>2, AcctOnReq
<1>8. ASSUME NEW r \in Client, U!ConsumeState(r) PROVE AcctInv'
  <2>1. PICK i \in Identity : uReq' = [uReq EXCEPT ![r].at = "find", ![r].ident = i]
    BY <1>8 DEF U!ConsumeState
  <2> DEFINE x == [uReq[r] EXCEPT !.at = "find", !.ident = i]
  <2>2. uReq' = [uReq EXCEPT ![r] = x] /\ uReq[r].at = "consume" /\ uState' \in {"none", uState}
        /\ UNCHANGED <<uUser, uOwner, uCode, uAstray>>
    BY <1>0, <1>8, <2>1 DEF U!ConsumeState, U!TypeOK
  <2>3. x \in U!Req /\ AcctOK(x)
    BY <1>0, <2>2 DEF U!Req, U!At, AcctOK
  <2> HIDE DEF x
  <2> QED BY <1>0, <2>2, <2>3, AcctOnReq
<1>9. ASSUME NEW r \in Client, U!FindUser(r) PROVE AcctInv'
  <2>1. PICK u \in U!Live : uReq' = [uReq EXCEPT ![r].at = "bind", ![r].user = u]
    BY <1>9 DEF U!FindUser
  <2> DEFINE x == [uReq[r] EXCEPT !.at = "bind", !.user = u]
  <2>2. uReq' = [uReq EXCEPT ![r] = x] /\ u \in UserId
        /\ UNCHANGED <<uUser, uOwner, uCode, uState, uAstray>>
    BY <1>0, <1>9, <2>1 DEF U!FindUser, U!TypeOK, U!Live
  <2>3. x \in U!Req /\ AcctOK(x)
    BY <1>0, <2>1, <2>2 DEF U!Req, U!At, AcctOK
  <2> HIDE DEF x
  <2> QED BY <1>0, <2>2, <2>3, AcctOnReq
<1>10. ASSUME NEW r \in Client, U!InsertUser(r) PROVE AcctInv'
  <2>1. PICK u \in U!Unused : /\ uUser' = [uUser EXCEPT ![u] = "active"]
                              /\ uReq' = [uReq EXCEPT ![r].at = "bind", ![r].user = u]
    BY <1>10 DEF U!InsertUser
  <2> DEFINE x == [uReq[r] EXCEPT !.at = "bind", !.user = u]
  <2>2. uReq' = [uReq EXCEPT ![r] = x] /\ u \in UserId /\ UNCHANGED <<uOwner, uCode, uState, uAstray>>
    BY <1>0, <1>10, <2>1 DEF U!InsertUser, U!TypeOK, U!Unused
  <2>3. uUser'[u] = "active"
    BY <1>0, <2>1, <2>2
  <2>4. x \in U!Req /\ x.at = "bind" /\ x.user = u
    BY <1>0, <2>2 DEF U!Req, U!At
  <2> HIDE DEF x
  <2>5. PICK y \in U!Req : uReq' = [uReq EXCEPT ![r] = y] /\ y.at = "bind" /\ y.user = u
    BY <2>2, <2>4
  <2>6. AcctOK(y)'
    BY <2>2, <2>3, <2>5 DEF AcctOK, U!Live
  <2> QED BY <2>1, <2>2, <2>5, <2>6, AcctNew
<1>11. ASSUME NEW r \in Client, U!BindExternalAccount(r) PROVE AcctInv'
  <2> DEFINE i == uReq[r].ident
  <2>1. /\ uReq[r].at = "bind" /\ UNCHANGED <<uUser, uCode, uState>> /\ i \in Identity
        /\ uOwner' = [uOwner EXCEPT ![i] = IF @ = U!NoUser THEN uReq[r].user ELSE @]
        /\ uAstray' = IF uOwner[i] = U!NoUser /\ uReq[r].late THEN uAstray \cup {i} ELSE uAstray
        /\ uReq' = [uReq EXCEPT ![r] = U!Quiet]
    BY <1>0, <1>11 DEF U!BindExternalAccount, U!End, U!Req
  <2>2. uReq[r].user \in UserId /\ (uReq[r].late \/ uReq[r].user \in U!Live)
    BY <1>0, <2>1 DEF AcctOK
  <2> HIDE DEF i
  <2>3. uReq' \in [Client -> U!Req] /\ \A q \in Client : uReq'[q] = uReq[q] \/ uReq'[q] = U!Quiet
    BY <1>0, <2>1, AcctQuiet DEF U!TypeOK
  <2>4. U!TypeOK'
    BY <1>0, <2>1, <2>2, <2>3 DEF U!TypeOK
  <2>5. U!IdentityLeadsSomewhere'
    BY <1>0, <2>1, <2>2 DEF AcctInv, U!IdentityLeadsSomewhere, U!Live
  <2>6. ASSUME NEW q \in Client PROVE AcctOK(uReq[q])'
    BY <1>0, <2>1, <2>3, AcctQuiet DEF AcctOK, U!Live
  <2> QED BY <2>4, <2>5, <2>6 DEF AcctInv
<1>12. ASSUME NEW r \in Client, NEW u \in UserId, U!ReadUser(r, u) PROVE AcctInv'
  <2> DEFINE x == [U!Quiet EXCEPT !.at = "count", !.user = u, !.row = uUser[u]]
  <2>1. uReq' = [uReq EXCEPT ![r] = x] /\ u \in U!Live
        /\ UNCHANGED <<uUser, uOwner, uCode, uState, uAstray>>
    BY <1>12 DEF U!ReadUser
  <2>2. x \in U!Req /\ x.at = "count" /\ x.user = u /\ x.row = uUser[u]
    BY <1>0, AcctQuiet DEF U!Req, U!At
  <2> HIDE DEF x
  <2>3. AcctOK(x)
    BY <2>1, <2>2 DEF AcctOK, U!Live
  <2> QED BY <1>0, <2>1, <2>2, <2>3, AcctOnReq
<1>13. ASSUME NEW r \in Client, U!SaveUser(r) PROVE AcctInv'
  <2> DEFINE u == uReq[r].user
  <2>1. /\ uReq[r].at = "save" /\ UNCHANGED <<uOwner, uCode, uState, uAstray>>
        /\ uUser' = [uUser EXCEPT ![u] = uReq[r].row]
        /\ uReq' = [U!Overtaken(u) EXCEPT ![r] = U!Quiet]
    BY <1>13 DEF U!SaveUser
  <2>2. u \in UserId /\ uReq[r].row \in {"active", "disabled"}
    BY <1>0, <2>1 DEF AcctOK
  <2> HIDE DEF u
  <2>3. U!Overtaken(u) \in [Client -> U!Req]
    BY <2>2, AcctOvertaken DEF U!Overtaken
  <2>4. /\ uReq' \in [Client -> U!Req]
        /\ \A q \in Client : uReq'[q] = U!Overtaken(u)[q] \/ uReq'[q] = U!Quiet
    BY <2>1, <2>3, AcctQuiet
  <2>5. uUser' \in [UserId -> U!Row] /\ \A q \in Client : AcctOK(uReq[q])'
    BY <2>1, <2>2, <2>4, AcctOnUser DEF U!Row
  <2>6. U!TypeOK'
    BY <1>0, <2>1, <2>4, <2>5 DEF U!TypeOK
  <2>7. U!IdentityLeadsSomewhere'
    BY <1>0, <2>1, <2>2 DEF AcctInv, U!IdentityLeadsSomewhere, U!Live
  <2> QED BY <2>5, <2>6, <2>7 DEF AcctInv
<1>14. ASSUME NEW u \in UserId, NEW b \in BOOLEAN, U!UpdateUserStatus(u, b) PROVE AcctInv'
  <2>1. PICK s \in {"active", "disabled"} : uUser' = [uUser EXCEPT ![u] = s]
    BY <1>14 DEF U!UpdateUserStatus
  <2>2. uReq' = U!Overtaken(u) /\ UNCHANGED <<uOwner, uCode, uState, uAstray>>
    BY <1>14 DEF U!UpdateUserStatus
  <2>3. U!Overtaken(u) \in [Client -> U!Req]
    BY AcctOvertaken DEF U!Overtaken
  <2>5. uUser' \in [UserId -> U!Row] /\ \A q \in Client : AcctOK(uReq[q])'
    BY <2>1, <2>2, <2>3, AcctOnUser DEF U!Row
  <2>6. U!TypeOK'
    BY <1>0, <2>2, <2>3, <2>5 DEF U!TypeOK
  <2>7. U!IdentityLeadsSomewhere'
    BY <1>0, <2>1, <2>2 DEF AcctInv, U!IdentityLeadsSomewhere, U!Live
  <2> QED BY <2>5, <2>6, <2>7 DEF AcctInv
<1>15. ASSUME NEW u \in UserId, U!DeleteUser(u) PROVE AcctInv'
  <2>1. /\ uUser' = [uUser EXCEPT ![u] = "gone"] /\ uReq' = U!Overtaken(u)
        /\ uOwner' = [i \in Identity |-> IF uOwner[i] = u THEN U!NoUser ELSE uOwner[i]]
        /\ uAstray' = {i \in uAstray : uOwner[i] # u} /\ UNCHANGED <<uCode, uState>>
    BY <1>15 DEF U!DeleteUser
  <2>2. U!Overtaken(u) \in [Client -> U!Req]
    BY AcctOvertaken DEF U!Overtaken
  <2>3. uUser' \in [UserId -> U!Row] /\ \A q \in Client : AcctOK(uReq[q])'
    BY <2>1, <2>2, AcctOnUser DEF U!Row
  <2>4. U!TypeOK'
    BY <1>0, <2>1, <2>2, <2>3 DEF U!TypeOK
  <2>5. ASSUME NEW i \in Identity \ uAstray', uOwner'[i] # U!NoUser PROVE uOwner'[i] \in U!Live'
    <3>1. uOwner[i] # u /\ i \notin uAstray /\ uOwner'[i] = uOwner[i]
      BY <2>1, <2>5
    <3>2. uOwner[i] \in U!Live
      BY <2>5, <3>1 DEF AcctInv, U!IdentityLeadsSomewhere
    <3> QED BY <1>0, <2>1, <3>1, <3>2 DEF U!Live
  <2> QED BY <2>3, <2>4, <2>5 DEF AcctInv, U!IdentityLeadsSomewhere
<1> QED BY <1>1, <1>2, <1>3, <1>4, <1>5, <1>6, <1>7, <1>8, <1>9, <1>10, <1>11, <1>12, <1>13, <1>14, <1>15
   DEF U!Next

LEMMA AcctInvariant == U!Spec => []AcctInv
<1>1. U!Init => AcctInv
  BY AcctQuiet DEF U!Init, AcctInv, U!TypeOK, U!Row, U!IdentityLeadsSomewhere
<1>2. AcctInv /\ [U!Next]_(U!vars) => AcctInv'
  BY AcctStep
<1> QED BY <1>1, <1>2, PTL DEF U!Spec

LEMMA AcctRuns == SuiteSpec => U!Spec
<1>1. SuiteInit => U!Init
  BY DEF SuiteInit
<1>2. [SuiteNext]_allVars => [U!Next]_(U!vars)
  BY DEF SuiteNext, allVars, userVars, U!vars
<1> QED BY <1>1, <1>2, PTL DEF SuiteSpec, U!Spec

\* However many requests register, bind, edit and delete, an identity leads to an
\* account that exists, unless the account was deleted while a request was binding it
\* (auth_source.go:243).
THEOREM IdentitiesLeadSomewhere == SuiteSpec => []IdentityLeadsSomewhere
<1>1. AcctInv => IdentityLeadsSomewhere
  BY DEF AcctInv, IdentityLeadsSomewhere
<1> QED BY <1>1, AcctRuns, AcctInvariant, PTL

\* A disabled or deleted account becomes active again by the administrator, or by an
\* edit that had read the row before (user/logics.go:284).
THEOREM OnlyOverlapUndoes == SuiteSpec => UndoneByOverlapOnly
<1> DEFINE Undone(u) ==
      uUser[u] \in {"disabled", "gone"} /\ uUser'[u] = "active"
      => \/ U!UpdateUserStatus(u, TRUE)
         \/ \E r \in Client : uReq[r].user = u /\ uReq[r].late /\ U!SaveUser(r)
<1>1. AcctInv /\ [U!Next]_(U!vars) => [\A u \in UserId : Undone(u)]_(U!vars)
  <2> SUFFICES ASSUME AcctInv, U!Next, NEW u \in UserId,
                      uUser[u] \in {"disabled", "gone"}, uUser'[u] = "active"
               PROVE  \/ U!UpdateUserStatus(u, TRUE)
                      \/ \E r \in Client : uReq[r].user = u /\ uReq[r].late /\ U!SaveUser(r)
    OBVIOUS
  <2>0. uUser \in [UserId -> U!Row] /\ uUser' # uUser /\ \A r \in Client : AcctOK(uReq[r])
    BY DEF AcctInv, U!TypeOK
  <2>1. ASSUME NEW r \in Client, U!CreateUser(r) \/ U!InsertUser(r) PROVE FALSE
    <3>1. PICK w \in U!Unused : uUser' = [uUser EXCEPT ![w] = "active"]
      BY <2>1 DEF U!CreateUser, U!InsertUser
    <3> QED BY <2>0, <3>1 DEF U!Unused
  <2>2. ASSUME NEW r \in Client, U!SaveUser(r) PROVE uReq[r].user = u /\ uReq[r].late
    <3>1. uReq[r].at = "save" /\ uUser' = [uUser EXCEPT ![uReq[r].user] = uReq[r].row]
      BY <2>2 DEF U!SaveUser
    <3> QED BY <2>0, <3>1 DEF AcctOK
  <2>3. ASSUME NEW w \in UserId, NEW b \in BOOLEAN, U!UpdateUserStatus(w, b) PROVE U!UpdateUserStatus(u, TRUE)
    <3>1. uUser' = [uUser EXCEPT ![w] = IF b THEN "active" ELSE "disabled"]
      BY <2>3 DEF U!UpdateUserStatus
    <3>2. w = u /\ b = TRUE
      BY <2>0, <3>1
    <3> QED BY <2>3, <3>2
  <2>4. ASSUME NEW w \in UserId, U!DeleteUser(w) PROVE FALSE
    BY <2>0, <2>4 DEF U!DeleteUser
  <2>5. \/ \E r \in Client : U!CreateUser(r) \/ U!InsertUser(r) \/ U!SaveUser(r)
        \/ \E w \in UserId : U!DeleteUser(w) \/ \E b \in BOOLEAN : U!UpdateUserStatus(w, b)
    BY <2>0 DEF U!Next, U!SendEmailCode, U!KeepEmailCode, U!MailCode, U!CodeExpires, U!StateExpires,
       U!DeleteAuthSource, U!Authorize, U!Unbind, U!VerifyCode, U!SpendCode, U!CountName, U!CountEmail,
       U!Callback, U!ConsumeState, U!FindIdentity, U!FindUser, U!UniqueUsername, U!BindExternalAccount,
       U!CountNewEmail, U!Fail, U!ReadUser
  <2> QED BY <2>1, <2>2, <2>3, <2>4, <2>5
<1> QED BY <1>1, AcctRuns, AcctInvariant, PTL DEF U!Spec, UndoneByOverlapOnly, U!UndoneByOverlapOnly
-----------------------------------------------------------------------------
(* Sessions *)

SessReq == [at : L!At, row : 0..MaxPassword, late : BOOLEAN, sess : Session, tok : SUBSET AccessToken]

SessPending == {"tokens", "revoke", "edited"}

\* Where a request holds what it has read of the row.
SessHolds == {"fill", "check", "edit"}

\* A request is between the change of the password and its end.
SessChanging == \E q \in Client : lReq[q].at \in SessPending

\* What was read of the row before a change is known to be late, once the change is done.
SessOK(x) == x.row # 0 /\ x.row # lPass => x.late \/ SessChanging

SessInv ==
  /\ L!TypeOK
  /\ \A r \in Client : SessOK(lReq[r]) /\ (lReq[r].at \in SessHolds => lReq[r].row # 0)
  /\ lCopy # 0 /\ lCopy # lPass => lOld \/ SessChanging

LEMMA SessQuiet ==
  L!Quiet \in SessReq /\ L!Quiet.row = 0 /\ L!Quiet.at = "idle"
<1>1. Session # {} /\ MaxPassword \in Nat
  BY ConstantsFit DEF L!SessionsAssumption
<1> QED BY <1>1 DEF L!Quiet, SessReq, L!At

\* What a request may become when the password stays.
SessMoves(r, x) ==
  /\ lReq' = [lReq EXCEPT ![r] = x]
  /\ lReq[r].at \in SessPending => x.at \in SessPending
  /\ x.at \in SessHolds => x.row # 0
  /\ SessOK(x)

LEMMA SessOnReq ==
  ASSUME SessInv, NEW r \in Client, \E x \in SessReq : SessMoves(r, x),
         UNCHANGED <<lPass, lActive>>, lSess' \in [Session -> 0..MaxPassword], lToken' \in SUBSET AccessToken,
         lCopy' \in 0..MaxPassword, lOld' \in BOOLEAN,
         lCopy' # 0 /\ lCopy' # lPass => lOld' \/ SessChanging
  PROVE  SessInv'
<1>1. PICK x \in SessReq : SessMoves(r, x)
  OBVIOUS
<1>2. lReq' \in [Client -> SessReq] /\ lReq'[r] = x /\ \A q \in Client : q # r => lReq'[q] = lReq[q]
  BY <1>1 DEF SessInv, L!TypeOK, SessReq, SessMoves
<1>3. L!TypeOK'
  BY <1>2 DEF SessInv, L!TypeOK, SessReq
<1>4. SessChanging => SessChanging'
  BY <1>1, <1>2 DEF SessChanging, SessMoves
<1>5. \A q \in Client : SessOK(lReq[q])' /\ (lReq'[q].at \in SessHolds => lReq'[q].row # 0)
  BY <1>1, <1>2, <1>4 DEF SessInv, SessOK, SessMoves
<1> QED BY <1>3, <1>4, <1>5 DEF SessInv

LEMMA SessGoto ==
  ASSUME SessInv, NEW r \in Client, NEW at \in L!At, L!Goto(r, at), at \in SessHolds => lReq[r].row # 0,
         lReq[r].at \in SessPending => at \in SessPending
  PROVE  \E x \in SessReq : SessMoves(r, x)
<1> DEFINE x == [lReq[r] EXCEPT !.at = at]
<1>1. lReq' = [lReq EXCEPT ![r] = x] /\ lReq[r] \in SessReq /\ SessOK(lReq[r])
  BY DEF L!Goto, SessInv, L!TypeOK, SessReq
<1>2. x \in SessReq /\ x.at = at /\ x.row = lReq[r].row /\ x.late = lReq[r].late
  BY <1>1 DEF SessReq
<1>3. SessMoves(r, x)
  BY <1>1, <1>2 DEF SessMoves, SessOK
<1> QED BY <1>2, <1>3

LEMMA SessEnd ==
  ASSUME NEW r \in Client, L!End(r), lReq[r].at \notin SessPending
  PROVE  \E x \in SessReq : SessMoves(r, x)
  BY SessQuiet DEF L!End, SessMoves, SessOK, SessHolds

\* The copy goes, and who has read the row is late.
LEMMA SessInvalidated ==
  ASSUME SessInv, lCopy' = 0, lOld' = FALSE, lPass' = lPass, lActive' \in BOOLEAN,
         lSess' \in [Session -> 0..MaxPassword], lToken' = lToken,
         NEW Out \in SUBSET Client,
         lReq' = [q \in Client |-> IF q \in Out THEN L!Quiet ELSE [lReq[q] EXCEPT !.late = lReq[q].row # 0]]
  PROVE  SessInv'
<1>1. ASSUME NEW q \in Client
      PROVE  /\ lReq'[q] \in SessReq /\ (lReq'[q].row # 0 => lReq'[q].late)
             /\ lReq'[q].at \in SessHolds => lReq'[q].row # 0
  <2>1. lReq[q] \in SessReq /\ (lReq[q].at \in SessHolds => lReq[q].row # 0)
    BY DEF SessInv, L!TypeOK, SessReq
  <2>2. CASE q \in Out
    BY <2>2, SessQuiet DEF SessHolds
  <2>3. CASE q \notin Out
    <3>1. lReq'[q] = [lReq[q] EXCEPT !.late = lReq[q].row # 0]
      BY <2>3
    <3> QED BY <2>1, <3>1 DEF SessReq
  <2> QED BY <2>2, <2>3
<1>2. lReq' \in [Client -> SessReq]
  BY <1>1
<1>3. L!TypeOK'
  <2>1. 0 \in 0..MaxPassword
    BY ConstantsFit DEF L!SessionsAssumption
  <2>2. lCopy' \in 0..MaxPassword /\ lOld' \in BOOLEAN
    BY <2>1
  <2> QED BY <1>2, <2>2 DEF SessInv, L!TypeOK, SessReq
<1> QED BY <1>1, <1>3 DEF SessInv, SessOK

\* The password changes: the change is not over yet.
LEMMA SessChanged ==
  ASSUME SessInv, NEW r \in Client, NEW at \in SessPending, L!Goto(r, at), lPass' \in 1..MaxPassword,
         UNCHANGED <<lActive, lCopy, lOld, lSess, lToken>>
  PROVE  SessInv'
<1> DEFINE x == [lReq[r] EXCEPT !.at = at]
<1>1. lReq' = [lReq EXCEPT ![r] = x] /\ lReq[r] \in SessReq
  BY DEF L!Goto, SessInv, L!TypeOK, SessReq
<1>2. x \in SessReq /\ x.at = at /\ at \notin SessHolds
  BY <1>1 DEF SessReq, L!At, SessPending, SessHolds
<1> HIDE DEF x
<1>3. lReq' \in [Client -> SessReq] /\ lReq'[r] = x /\ \A q \in Client : q # r => lReq'[q] = lReq[q]
  BY <1>1, <1>2 DEF SessInv, L!TypeOK, SessReq
<1>4. L!TypeOK'
  BY <1>3 DEF SessInv, L!TypeOK, SessReq
<1>5. SessChanging'
  BY <1>2, <1>3 DEF SessChanging
<1> QED BY <1>2, <1>3, <1>4, <1>5 DEF SessInv, SessOK

LEMMA SessStep == ASSUME SessInv, [L!Next]_(L!vars) PROVE SessInv'
<1>c. MaxPassword \in Nat \ {0} /\ 0 \in 0..MaxPassword /\ lPass \in 0..MaxPassword
  BY ConstantsFit DEF L!SessionsAssumption, SessInv, L!TypeOK
<1>0. /\ L!TypeOK /\ \A r \in Client : /\ lReq[r] \in SessReq /\ SessOK(lReq[r])
                                        /\ lReq[r].row \in 0..MaxPassword /\ lReq[r].late \in BOOLEAN
                                        /\ lReq[r].sess \in Session /\ lReq[r].tok \in SUBSET AccessToken
      /\ lSess \in [Session -> 0..MaxPassword] /\ lToken \in SUBSET AccessToken
      /\ lCopy \in 0..MaxPassword /\ lOld \in BOOLEAN /\ lActive \in BOOLEAN
      /\ lPass \in 1..MaxPassword /\ (lCopy # 0 /\ lCopy # lPass => lOld \/ SessChanging)
      /\ lReq \in [Client -> SessReq]
  BY DEF SessInv, L!TypeOK, SessReq
<1>1. CASE UNCHANGED L!vars
  BY <1>1 DEF L!vars, SessInv, SessOK, SessChanging, L!TypeOK
\* A request goes on or ends, and nothing else changes.
<1>2. ASSUME NEW r \in Client,
             \/ L!VerifyEmailCode(r) \/ L!UpdateLastLogin(r) \/ L!Check(r) \/ L!CheckOldPassword(r) \/ L!Fail(r)
      PROVE  SessInv'
  <2>1. UNCHANGED <<lPass, lActive, lCopy, lOld, lSess, lToken>> /\ lReq[r].at \notin SessPending
    BY <1>2 DEF L!VerifyEmailCode, L!UpdateLastLogin, L!Check, L!CheckOldPassword, L!Fail, SessPending
  <2>2. L!End(r) \/ \E at \in {"last", "save", "user", "update"} : L!Goto(r, at) /\ at \notin SessHolds
    BY <1>2 DEF L!VerifyEmailCode, L!UpdateLastLogin, L!Check, L!CheckOldPassword, L!Fail, SessHolds
  <2>3. \E x \in SessReq : SessMoves(r, x)
    BY <2>1, <2>2, SessEnd, SessGoto DEF L!At
  <2> QED BY <1>0, <2>1, <2>3, SessOnReq
<1>3. ASSUME NEW r \in Client, NEW s \in Session, L!Login(r, s) PROVE SessInv'
  <2>1. PICK at \in {"code", "last"} :
          lReq' = [lReq EXCEPT ![r] = [L!Quiet EXCEPT !.at = at, !.row = lPass, !.sess = s]]
    BY <1>3 DEF L!Login
  <2> DEFINE x == [L!Quiet EXCEPT !.at = at, !.row = lPass, !.sess = s]
  <2>2. x \in SessReq /\ x.row = lPass /\ x.at = at
    BY <1>0, <1>c, SessQuiet DEF SessReq, L!At
  <2>3. lReq[r].at \notin SessPending /\ UNCHANGED <<lPass, lActive, lCopy, lOld, lSess, lToken>>
    BY <1>3 DEF L!Login, SessPending
  <2> HIDE DEF x
  <2>4. SessMoves(r, x)
    BY <1>0, <1>c, <2>1, <2>2, <2>3 DEF SessMoves, SessOK, x
  <2> QED BY <1>0, <2>2, <2>3, <2>4, SessOnReq
<1>4. ASSUME NEW r \in Client, L!SetLoginSession(r) PROVE SessInv'
  <2>1. /\ lSess' = [lSess EXCEPT ![lReq[r].sess] = lReq[r].row] /\ L!Goto(r, "cache")
        /\ UNCHANGED <<lPass, lActive, lCopy, lOld, lToken>> /\ lReq[r].at \notin SessPending
    BY <1>4 DEF L!SetLoginSession, SessPending
  <2>2. lSess' \in [Session -> 0..MaxPassword]
    BY <1>0, <2>1
  <2>3. \E x \in SessReq : SessMoves(r, x)
    BY <2>1, SessGoto DEF L!At, SessHolds
  <2> QED BY <1>0, <2>1, <2>2, <2>3, SessOnReq
<1>5. ASSUME NEW r \in Client, L!SetCachedUser(r) PROVE SessInv'
  <2>1. /\ lCopy' = lReq[r].row /\ lOld' = lReq[r].late /\ (L!End(r) \/ (L!Goto(r, "check") /\ lReq[r].at = "fill"))
        /\ UNCHANGED <<lPass, lActive, lSess, lToken>> /\ lReq[r].at \notin SessPending
    BY <1>5 DEF L!SetCachedUser, SessPending
  <2>2. \E x \in SessReq : SessMoves(r, x)
    <3>1. lReq[r].at = "fill" => lReq[r].row # 0
      BY DEF SessInv, SessHolds
    <3> QED BY <2>1, <3>1, SessGoto, SessEnd DEF L!At
  <2>3. lCopy' # 0 /\ lCopy' # lPass => lOld' \/ SessChanging
    BY <1>0, <2>1 DEF SessOK
  <2> QED BY <1>0, <2>1, <2>2, <2>3, SessOnReq
<1>6. ASSUME NEW s \in Session, L!Logout(s) PROVE SessInv'
  <2>1. /\ lSess' = [lSess EXCEPT ![s] = 0] /\ lCopy' = 0 /\ lOld' = FALSE
        /\ lReq' = [r \in Client |-> [lReq[r] EXCEPT !.late = lReq[r].row # 0]]
        /\ UNCHANGED <<lPass, lActive, lToken>>
    BY <1>6 DEF L!Logout, L!Invalidate
  <2>2. lSess' \in [Session -> 0..MaxPassword]
    BY <1>0, <1>c, <2>1
  <2>3. lReq' = [q \in Client |-> IF q \in {} THEN L!Quiet ELSE [lReq[q] EXCEPT !.late = lReq[q].row # 0]]
    BY <2>1
  <2>4. {} \in SUBSET Client
    OBVIOUS
  <2> QED BY <1>0, <2>1, <2>2, <2>3, <2>4, SessInvalidated
<1>7. ASSUME NEW r \in Client, NEW s \in Session, L!Authenticate(r, s) PROVE SessInv'
  <2>1. lReq[r].at \notin SessPending /\ UNCHANGED <<lPass, lActive, lCopy, lOld, lSess, lToken>>
    BY <1>7 DEF L!Authenticate, SessPending
  <2>2. CASE lCopy # 0 /\ lReq' = [lReq EXCEPT ![r] = [L!Quiet EXCEPT !.at = "check", !.row = lCopy, !.sess = s, !.late = lOld]]
    <3> DEFINE x == [L!Quiet EXCEPT !.at = "check", !.row = lCopy, !.sess = s, !.late = lOld]
    <3>1. x \in SessReq /\ x.row = lCopy /\ x.at = "check" /\ x.late = lOld
      BY <1>0, SessQuiet DEF SessReq, L!At
    <3> HIDE DEF x
    <3>2. SessMoves(r, x)
      BY <1>0, <2>1, <2>2, <3>1 DEF SessMoves, SessOK, x
    <3> QED BY <1>0, <2>1, <3>1, <3>2, SessOnReq
  <2>3. CASE lReq' = [lReq EXCEPT ![r] = [L!Quiet EXCEPT !.at = "load", !.sess = s]]
    <3> DEFINE x == [L!Quiet EXCEPT !.at = "load", !.sess = s]
    <3>1. x \in SessReq /\ x.row = 0 /\ x.at = "load"
      BY <1>0, SessQuiet DEF SessReq, L!At
    <3> HIDE DEF x
    <3>2. SessMoves(r, x)
      BY <1>0, <2>1, <2>3, <3>1 DEF SessMoves, SessOK, SessHolds, x
    <3> QED BY <1>0, <2>1, <3>1, <3>2, SessOnReq
  <2> QED BY <1>7, <2>2, <2>3 DEF L!Authenticate
<1>8. ASSUME NEW r \in Client, L!LoadUser(r) \/ L!ReadUser(r) PROVE SessInv'
  <2>1. lReq[r].at \notin SessPending /\ UNCHANGED <<lPass, lActive, lCopy, lOld, lSess, lToken>>
    BY <1>8 DEF L!LoadUser, L!ReadUser, SessPending
  <2>2. CASE L!End(r)
    BY <1>0, <2>1, <2>2, SessEnd, SessOnReq
  <2>3. ASSUME NEW at \in {"fill", "edit"}, lReq' = [lReq EXCEPT ![r].at = at, ![r].row = lPass] PROVE SessInv'
    <3> DEFINE x == [lReq[r] EXCEPT !.at = at, !.row = lPass]
    <3>1. x \in SessReq /\ x.row = lPass /\ x.at = at /\ lReq' = [lReq EXCEPT ![r] = x]
      BY <1>0, <1>c, <2>3 DEF SessReq, L!At
    <3> HIDE DEF x
    <3>2. SessMoves(r, x)
      BY <1>0, <1>c, <2>1, <3>1 DEF SessMoves, SessOK
    <3> QED BY <1>0, <2>1, <3>1, <3>2, SessOnReq
  <2> QED BY <1>8, <2>2, <2>3 DEF L!LoadUser, L!ReadUser
<1>9. ASSUME NEW r \in Client,
             L!CountAccessTokens(r) \/ \E t \in AccessToken : L!ReadAccessToken(r, t)
      PROVE  SessInv'
  <2>1. /\ lReq[r].at \notin SessPending /\ UNCHANGED <<lPass, lActive, lCopy, lOld, lSess, lToken>>
    BY <1>9 DEF L!CountAccessTokens, L!ReadAccessToken, SessPending
  <2>2. PICK at \in {"insert", "rotate"}, t \in AccessToken : lReq' = [lReq EXCEPT ![r].at = at, ![r].tok = {t}]
    BY <1>9 DEF L!CountAccessTokens, L!ReadAccessToken, L!Free
  <2> DEFINE x == [lReq[r] EXCEPT !.at = at, !.tok = {t}]
  <2>3. /\ x \in SessReq /\ x.row = lReq[r].row /\ x.late = lReq[r].late /\ x.at = at
        /\ lReq' = [lReq EXCEPT ![r] = x]
    BY <1>0, <2>2 DEF SessReq, L!At
  <2> HIDE DEF x
  <2>4. SessMoves(r, x)
    BY <1>0, <2>1, <2>3 DEF SessMoves, SessOK, SessHolds
  <2> QED BY <1>0, <2>1, <2>3, <2>4, SessOnReq
<1>10. ASSUME NEW r \in Client,
              L!CreateAccessToken(r) \/ L!RotateAccessToken(r) \/ \E t \in AccessToken : L!DeleteAccessToken(r, t)
       PROVE  SessInv'
  <2>1. /\ L!End(r) /\ UNCHANGED <<lPass, lActive, lCopy, lOld, lSess>> /\ lToken' \in SUBSET AccessToken
        /\ lReq[r].at \notin SessPending
    BY <1>0, <1>10 DEF L!CreateAccessToken, L!RotateAccessToken, L!DeleteAccessToken, SessPending
  <2> QED BY <1>0, <2>1, SessEnd, SessOnReq
<1>11. ASSUME NEW r \in Client, L!UpdatePassword(r) PROVE SessInv'
  <2>1. lPass' \in 1..MaxPassword
    BY <1>0, <1>c, <1>11 DEF L!UpdatePassword
  <2> QED BY <1>11, <2>1, SessChanged DEF L!UpdatePassword, SessPending
<1>12. ASSUME NEW r \in Client, L!SaveUser(r) PROVE SessInv'
  <2>1. lPass' \in 1..MaxPassword
    <3>1. lReq[r].row # 0
      BY <1>12 DEF L!SaveUser, SessInv, SessHolds
    <3> QED BY <1>0, <1>c, <1>12, <3>1 DEF L!SaveUser
  <2> QED BY <1>12, <2>1, SessChanged DEF L!SaveUser, SessPending
<1>13. ASSUME NEW r \in Client, L!RevokeTokens(r) PROVE SessInv'
  <2>1. L!Goto(r, "revoke") /\ lToken' = {} /\ UNCHANGED <<lPass, lActive, lCopy, lOld, lSess>>
    BY <1>13 DEF L!RevokeTokens
  <2>2. \E x \in SessReq : SessMoves(r, x)
    BY <2>1, SessGoto DEF L!At, SessPending, SessHolds
  <2> QED BY <1>0, <2>1, <2>2, SessOnReq
<1>14. ASSUME NEW r \in Client, L!InvalidateCachedUser(r) \/ L!InvalidateEditedUser(r) PROVE SessInv'
  <2>1. /\ lCopy' = 0 /\ lOld' = FALSE /\ UNCHANGED <<lPass, lActive, lToken>>
        /\ lSess' \in [Session -> 0..MaxPassword]
        /\ lReq' = [q \in Client |-> IF q = r THEN L!Quiet ELSE [lReq[q] EXCEPT !.late = lReq[q].row # 0]]
    BY <1>0, <1>c, <1>14 DEF L!InvalidateCachedUser, L!InvalidateEditedUser
  <2>2. lReq' = [q \in Client |-> IF q \in {r} THEN L!Quiet ELSE [lReq[q] EXCEPT !.late = lReq[q].row # 0]]
    BY <2>1
  <2>3. {r} \in SUBSET Client
    OBVIOUS
  <2> QED BY <1>0, <2>1, <2>2, <2>3, SessInvalidated
<1>15. CASE L!UpdateUserStatus
  <2>1. /\ lCopy' = 0 /\ lOld' = FALSE /\ UNCHANGED <<lPass, lSess, lToken>> /\ lActive' \in BOOLEAN
        /\ lReq' = [r \in Client |-> [lReq[r] EXCEPT !.late = lReq[r].row # 0]]
    BY <1>0, <1>15 DEF L!UpdateUserStatus, L!Invalidate
  <2>2. lReq' = [q \in Client |-> IF q \in {} THEN L!Quiet ELSE [lReq[q] EXCEPT !.late = lReq[q].row # 0]]
    BY <2>1
  <2>3. {} \in SUBSET Client
    OBVIOUS
  <2> QED BY <1>0, <2>1, <2>2, <2>3, SessInvalidated
<1>16. CASE L!Expire
  <2>1. lCopy' = 0 /\ lOld' = FALSE /\ UNCHANGED <<lPass, lActive, lSess, lToken, lReq>>
    BY <1>16 DEF L!Expire
  <2>2. L!TypeOK'
    <3>1. lCopy' \in 0..MaxPassword /\ lOld' \in BOOLEAN
      BY <1>c, <2>1
    <3> QED BY <1>0, <2>1, <3>1 DEF L!TypeOK
  <2> QED BY <2>1, <2>2 DEF SessInv, SessOK, SessChanging
<1> QED BY <1>1, <1>2, <1>3, <1>4, <1>5, <1>6, <1>7, <1>8, <1>9, <1>10, <1>11, <1>12, <1>13, <1>14, <1>15, <1>16
   DEF L!Next

LEMMA SessInvariant == L!Spec => []SessInv
<1>1. L!Init => SessInv
  <2>1. MaxPassword \in Nat \ {0}
    BY ConstantsFit DEF L!SessionsAssumption
  <2> SUFFICES ASSUME L!Init PROVE SessInv
    OBVIOUS
  <2>2. L!TypeOK
    <3>1. 0 \in 0..MaxPassword /\ 1 \in 1..MaxPassword
      BY <2>1
    <3>2. lReq \in [Client -> SessReq] /\ lSess \in [Session -> 0..MaxPassword] /\ lCopy \in 0..MaxPassword
      BY <3>1, SessQuiet DEF L!Init
    <3> QED BY <3>1, <3>2 DEF L!Init, L!TypeOK, SessReq
  <2>3. \A r \in Client : lReq[r].row = 0 /\ lReq[r].at = "idle"
    BY SessQuiet DEF L!Init
  <2> QED BY <2>2, <2>3 DEF L!Init, SessInv, SessOK, SessHolds
<1>2. SessInv /\ [L!Next]_(L!vars) => SessInv'
  BY SessStep
<1> QED BY <1>1, <1>2, PTL DEF L!Spec

LEMMA SessRuns == SuiteSpec => L!Spec
<1>1. SuiteInit => L!Init
  BY DEF SuiteInit
<1>2. [SuiteNext]_allVars => [L!Next]_(L!vars)
  BY DEF SuiteNext, allVars, loginVars, L!vars
<1> QED BY <1>1, <1>2, PTL DEF SuiteSpec, L!Spec

\* However many requests log in, authenticate and change the password, a session of a
\* former password is refused once the change is done, but by who had looked the user
\* up before (user/logics.go:341).
THEOREM ChangeEndsSessions == SuiteSpec => []SessionsEnd
<1>1. SessInv => SessionsEnd
  <2> SUFFICES ASSUME SessInv, NEW r \in Client, L!Accepts(r), lReq[r].row # lPass
               PROVE  lReq[r].late \/ \E q \in Client : lReq[q].at \in {"tokens", "revoke", "edited"}
    BY DEF SessionsEnd, L!SessionsEnd, SessInv
  <2> QED BY DEF SessInv, SessOK, SessChanging, SessPending, SessHolds, L!Accepts
<1> QED BY <1>1, SessRuns, SessInvariant, PTL
-----------------------------------------------------------------------------
(* The updater *)

UpBefore == {"remove", "backup"}
UpAfter  == {"install", "chmod", "exec"}

\* An upgrade is of the process that runs, to a newer version; it has moved the program
\* aside or not, and put the new one there or not.
UpJobOK ==
  /\ vUpgrading <=> vJob.at # "none"
  /\ vJob.at # "none" => vProc.up /\ vJob.path + 1 \in V!Path /\ vJob.new.ver > vProc.ver
  /\ vJob.at \in UpBefore => vProc.path = vJob.path
  /\ vJob.at \in UpAfter => vProc.path = vJob.path + 1
  /\ vJob.at \in {"chmod", "exec"} => vFile[vJob.path] = vJob.new

\* The file of the running program is kept, and otherwise that of some other.
UpKept ==
  /\ vProc.up => vFile[vProc.path].runs /\ vFile[vProc.path].ver = vProc.ver
  /\ \E p \in V!Path : vFile[p].runs

\* While nothing has gone wrong the program runs from where it is installed, or is
\* being replaced there.
UpUnharmed ==
  ~vHarmed =>
    /\ vProc.up /\ vJob.at \notin UpAfter => vProc.path = 0
    /\ vJob.at \in UpAfter => vJob.path = 0
    /\ vJob.at \notin UpAfter => vFile[0].runs /\ vFile[0].ver >= vProc.ver

UpInv == V!TypeOK /\ UpJobOK /\ UpKept /\ UpUnharmed

LEMMA UpFacts ==
  /\ Version \subseteq Nat \ {0} /\ MaxPath \in Nat /\ MaxLostMoves \in Nat /\ 0 \in V!Path
  /\ V!Path \subseteq Nat /\ V!None.runs = FALSE /\ V!NoJob.at = "none"
  /\ \A f \in V!Binary \cup {V!None} : f.ver \in Nat /\ f.runs \in BOOLEAN
<1>1. Version \subseteq Nat \ {0} /\ MaxPath \in Nat /\ MaxLostMoves \in Nat
  BY ConstantsFit DEF V!UpdaterAssumption
<1>2. 0 \in V!Path /\ V!Path \subseteq Nat
  BY <1>1 DEF V!Path
<1>3. V!None.runs = FALSE /\ V!NoJob.at = "none" /\ V!None.ver = 0
  BY DEF V!None, V!NoJob
<1>n. 0 \in Nat /\ FALSE \in BOOLEAN
  OBVIOUS
<1>4. ASSUME NEW f \in V!Binary \cup {V!None} PROVE f.ver \in Nat /\ f.runs \in BOOLEAN
  <2>1. CASE f \in V!Binary
    BY <1>1, <2>1 DEF V!Binary
  <2>2. CASE f = V!None
    BY <1>3, <1>n, <2>2, Zenon
  <2> QED BY <2>1, <2>2
<1> QED BY <1>1, <1>2, <1>3, <1>4

\* The newest of two releases that can be used is one of them.
LEMMA UpNewest ==
  ASSUME NEW a \in V!Asset, NEW b \in V!Asset, NEW v \in V!Newest({a, b})
  PROVE  v \in Version
<1> DEFINE usable == {x.ver : x \in {y \in {a, b} : V!Usable(y)}}
<1>1. usable # {} /\ v = V!Max(usable)
  BY DEF V!Newest
<1>2. usable \subseteq Version /\ usable \subseteq {a.ver, b.ver}
  BY DEF V!Usable, V!Asset
<1> HIDE DEF usable
<1>3. \E x \in usable : \A y \in usable : x >= y
  <2>1. \A x \in usable : x \in Nat
    BY <1>2, UpFacts
  <2>2. PICK x \in usable : TRUE
    BY <1>1
  <2>3. CASE \E y \in usable : y > x
    <3>1. PICK y \in usable : y > x
      BY <2>3
    <3>2. usable \subseteq {x, y}
      BY <1>2, <2>1, <3>1
    <3> QED BY <2>1, <2>2, <3>1, <3>2
  <2>4. CASE ~ \E y \in usable : y > x
    BY <2>1, <2>2, <2>4
  <2> QED BY <2>3, <2>4
<1>4. V!Max(usable) \in usable
  BY <1>3 DEF V!Max
<1> QED BY <1>1, <1>2, <1>4

\* Files, process and job after a step.
UpTyped(f, p, j) ==
  /\ f \in [V!Path -> V!Binary \cup {V!None}]
  /\ p \in [up : BOOLEAN, ver : Version, path : V!Path]
  /\ j \in {V!NoJob} \cup [at : V!Steps, path : V!Path, new : V!Binary]

LEMMA UpJobFacts ==
  ASSUME UpInv, vJob.at # "none"
  PROVE  /\ vJob \in [at : V!Steps, path : V!Path, new : V!Binary]
         /\ vJob.path \in V!Path /\ vJob.new \in V!Binary /\ vJob.path + 1 # vJob.path
         /\ vJob.path + 1 # 0 /\ V!Backup = vJob.path + 1 /\ V!Backup \in V!Path
<1>1. vJob \in [at : V!Steps, path : V!Path, new : V!Binary]
  BY UpFacts DEF UpInv, V!TypeOK
<1>2. vJob.path \in Nat /\ vJob.path + 1 \in V!Path
  BY <1>1, UpFacts DEF UpInv, UpJobOK
<1> QED BY <1>1, <1>2 DEF V!Backup

LEMMA UpStep == ASSUME UpInv, [V!Next]_(V!vars) PROVE UpInv'
<1> USE UpFacts
<1>0. /\ V!TypeOK /\ UpJobOK /\ UpKept /\ UpUnharmed
      /\ vFile \in [V!Path -> V!Binary \cup {V!None}]
      /\ vProc \in [up : BOOLEAN, ver : Version, path : V!Path]
      /\ vProc.up \in BOOLEAN /\ vProc.ver \in Version /\ vProc.path \in V!Path
      /\ vHarmed \in BOOLEAN /\ vUpgrading \in BOOLEAN /\ vFaults \in 0..MaxLostMoves
      /\ UpTyped(vFile, vProc, vJob)
  BY DEF UpInv, V!TypeOK, UpTyped
<1>f. ASSUME V!MayFail PROVE vFaults' \in 0..MaxLostMoves
  BY <1>0, <1>f DEF V!MayFail
<1>t. ASSUME UpTyped(vFile, vProc, vJob)', vUpgrading' \in BOOLEAN, vHarmed' \in BOOLEAN,
             vFaults' \in 0..MaxLostMoves
      PROVE  V!TypeOK'
  BY <1>t DEF V!TypeOK, UpTyped
<1>e. ASSUME V!FinishUpgrade PROVE vJob' = V!NoJob /\ vUpgrading' = FALSE /\ vJob'.at = "none"
  BY <1>e DEF V!FinishUpgrade
<1>1. CASE UNCHANGED V!vars
  BY <1>0, <1>1 DEF V!vars, UpInv, V!TypeOK, UpJobOK, UpKept, UpUnharmed
<1>2. CASE V!PrepareUpgrade
  <2>1. /\ vProc.up /\ ~vUpgrading /\ vProc.path < MaxPath /\ vUpgrading' = TRUE
        /\ UNCHANGED <<vFile, vProc, vHarmed, vFaults>>
    BY <1>2 DEF V!PrepareUpgrade
  <2>2. PICK a \in V!Asset, b \in V!Asset : \E v \in V!Newest({a, b}) : \E runs \in BOOLEAN :
          v > vProc.ver /\ vJob' = [at |-> "remove", path |-> vProc.path, new |-> [ver |-> v, runs |-> runs]]
    <3>1. PICK a \in V!Asset, b \in V!Asset, archive \in SUBSET {"program", "helper"} :
            \E v \in V!Newest({a, b}), f \in V!Chosen(archive) :
              /\ v > vProc.ver
              /\ vJob' = [at |-> "remove", path |-> vProc.path, new |-> [ver |-> v, runs |-> f = "program"]]
      BY <1>2 DEF V!PrepareUpgrade
    <3>2. PICK v \in V!Newest({a, b}), f \in V!Chosen(archive) :
              /\ v > vProc.ver
              /\ vJob' = [at |-> "remove", path |-> vProc.path, new |-> [ver |-> v, runs |-> f = "program"]]
      BY <3>1
    <3>3. (f = "program") \in BOOLEAN
      OBVIOUS
    <3> QED BY <3>2, <3>3, Zenon
  <2>3. PICK v \in Version, runs \in BOOLEAN :
          v > vProc.ver /\ vJob' = [at |-> "remove", path |-> vProc.path, new |-> [ver |-> v, runs |-> runs]]
    BY <2>2, UpNewest
  <2>4. /\ vJob'.at = "remove" /\ vJob'.path = vProc.path /\ vJob'.new.ver > vProc.ver
        /\ vProc.path + 1 \in V!Path
    BY <1>0, <2>1, <2>3 DEF V!Path
  <2>5. V!TypeOK'
    BY <1>0, <1>t, <2>1, <2>3 DEF UpTyped, V!Steps, V!Binary
  <2>6. vJob.at = "none"
    BY <1>0, <2>1 DEF UpJobOK
  <2>7. UpJobOK' /\ UpKept'
    BY <1>0, <2>1, <2>4 DEF UpJobOK, UpKept, UpBefore, UpAfter
  <2>8. UpUnharmed'
    BY <1>0, <2>1, <2>4, <2>6 DEF UpUnharmed, UpAfter
  <2> QED BY <2>5, <2>7, <2>8 DEF UpInv
<1>g. ASSUME NEW at \in V!Steps, V!Goto(at), vJob.at # "none"
      PROVE  /\ vJob'.at = at /\ vJob'.path = vJob.path /\ vJob'.new = vJob.new /\ vUpgrading' = vUpgrading
             /\ vJob' \in {V!NoJob} \cup [at : V!Steps, path : V!Path, new : V!Binary]
  BY <1>g, UpJobFacts DEF V!Goto
<1>3. CASE V!RemoveBackup
  <2>1. /\ vJob.at = "remove" /\ vFile' = [vFile EXCEPT ![V!Backup] = V!None] /\ V!Goto("backup")
        /\ UNCHANGED <<vProc, vHarmed, vFaults>>
    BY <1>3 DEF V!RemoveBackup
  <2>2. /\ vJob'.at = "backup" /\ vJob'.path = vJob.path /\ vJob'.new = vJob.new /\ vUpgrading' = vUpgrading
        /\ vJob' \in {V!NoJob} \cup [at : V!Steps, path : V!Path, new : V!Binary]
    BY <1>g, <2>1 DEF V!Steps
  <2>3. /\ vFile' \in [V!Path -> V!Binary \cup {V!None}]
        /\ \A p \in V!Path : p # vJob.path + 1 => vFile'[p] = vFile[p]
    BY <1>0, <2>1, UpJobFacts
  <2>4. V!TypeOK'
    BY <1>0, <1>t, <2>1, <2>2, <2>3 DEF UpTyped
  <2>5. UpJobOK'
    BY <1>0, <2>1, <2>2 DEF UpJobOK, UpBefore, UpAfter
  <2>6. vProc.path = vJob.path /\ vProc.up
    BY <1>0, <2>1 DEF UpJobOK, UpBefore
  <2>7. UpKept' /\ UpUnharmed'
    BY <1>0, <2>1, <2>2, <2>3, <2>6, UpJobFacts DEF UpKept, UpUnharmed, UpAfter
  <2> QED BY <2>4, <2>5, <2>7 DEF UpInv
<1>4. CASE V!RenameToBackup
  <2>1. /\ vJob.at = "backup" /\ V!Moved(vJob.path, V!Backup) /\ V!Goto("install")
        /\ vFile' = [vFile EXCEPT ![V!Backup] = vFile[vJob.path], ![vJob.path] = V!None]
        /\ UNCHANGED <<vHarmed, vFaults>>
    BY <1>4 DEF V!RenameToBackup
  <2>2. /\ vJob'.at = "install" /\ vJob'.path = vJob.path /\ vJob'.new = vJob.new /\ vUpgrading' = vUpgrading
        /\ vJob' \in {V!NoJob} \cup [at : V!Steps, path : V!Path, new : V!Binary]
    BY <1>g, <2>1 DEF V!Steps
  <2>3. vProc.path = vJob.path /\ vProc.up
    BY <1>0, <2>1 DEF UpJobOK, UpBefore
  <2>4. /\ vProc' \in [up : BOOLEAN, ver : Version, path : V!Path]
        /\ vProc'.path = vJob.path + 1 /\ vProc'.up /\ vProc'.ver = vProc.ver
    BY <1>0, <2>1, <2>3, UpJobFacts DEF V!Moved
  <2>5. vFile' \in [V!Path -> V!Binary \cup {V!None}] /\ vFile'[vJob.path + 1] = vFile[vJob.path]
    BY <1>0, <2>1, UpJobFacts
  <2>6. V!TypeOK'
    BY <1>0, <1>t, <2>1, <2>2, <2>4, <2>5 DEF UpTyped
  <2>7. UpJobOK'
    BY <1>0, <2>1, <2>2, <2>4 DEF UpJobOK, UpBefore, UpAfter
  <2>8. UpKept'
    <3>1. vJob.path + 1 \in V!Path /\ vFile'[vJob.path + 1].runs /\ vFile'[vJob.path + 1].ver = vProc.ver
      BY <1>0, <2>1, <2>3, <2>5, UpJobFacts DEF UpKept
    <3> QED BY <2>4, <3>1 DEF UpKept
  <2>9. UpUnharmed'
    BY <1>0, <2>1, <2>2, <2>3 DEF UpUnharmed, UpAfter
  <2> QED BY <2>6, <2>7, <2>8, <2>9 DEF UpInv
<1>5. CASE V!RenameStaged \/ V!Chmod
  <2>1. /\ vJob.at \in {"install", "chmod"} /\ vFile' = [vFile EXCEPT ![vJob.path] = vJob.new]
        /\ UNCHANGED <<vProc, vHarmed, vFaults>>
    BY <1>0, <1>5 DEF V!RenameStaged, V!Chmod, UpJobOK
  <2>2. PICK at \in {"chmod", "exec"} : V!Goto(at)
    BY <1>5 DEF V!RenameStaged, V!Chmod
  <2>3. /\ vJob'.at = at /\ vJob'.path = vJob.path /\ vJob'.new = vJob.new /\ vUpgrading' = vUpgrading
        /\ vJob' \in {V!NoJob} \cup [at : V!Steps, path : V!Path, new : V!Binary]
    BY <1>g, <2>1, <2>2 DEF V!Steps
  <2>4. /\ vFile' \in [V!Path -> V!Binary \cup {V!None}] /\ vFile'[vJob.path] = vJob.new
        /\ vFile'[vJob.path + 1] = vFile[vJob.path + 1]
    BY <1>0, <2>1, UpJobFacts
  <2>5. vProc.path = vJob.path + 1 /\ vProc.up
    BY <1>0, <2>1 DEF UpJobOK, UpAfter
  <2>6. V!TypeOK'
    BY <1>0, <1>t, <2>1, <2>3, <2>4 DEF UpTyped
  <2>7. UpJobOK'
    BY <1>0, <2>1, <2>3, <2>4 DEF UpJobOK, UpBefore, UpAfter
  <2>8. UpKept' /\ UpUnharmed'
    BY <1>0, <2>1, <2>3, <2>4, <2>5, UpJobFacts DEF UpKept, UpUnharmed, UpAfter
  <2> QED BY <2>6, <2>7, <2>8 DEF UpInv
<1>6. CASE V!Exec
  <2>1. /\ vJob.at = "exec" /\ vJob.new.runs /\ UNCHANGED <<vFile, vHarmed, vFaults>>
        /\ vProc' = [up |-> TRUE, ver |-> vJob.new.ver, path |-> vJob.path]
        /\ vJob' = V!NoJob /\ vUpgrading' = FALSE /\ vJob'.at = "none"
    BY <1>e, <1>6 DEF V!Exec
  <2>2. vFile[vJob.path] = vJob.new /\ vJob.new.ver \in Version
    BY <1>0, <2>1, UpJobFacts DEF UpJobOK, V!Binary
  <2>3. V!TypeOK'
    BY <1>0, <1>t, <2>1, <2>2, UpJobFacts DEF UpTyped
  <2>4. UpJobOK' /\ UpKept'
    BY <1>0, <2>1, <2>2, UpJobFacts DEF UpJobOK, UpKept, UpBefore, UpAfter
  <2>5. UpUnharmed'
    BY <1>0, <2>1, <2>2 DEF UpUnharmed, UpAfter
  <2> QED BY <2>3, <2>4, <2>5 DEF UpInv
<1>7. CASE V!BackupFails
  <2>1. /\ vJob.at \in UpBefore /\ UNCHANGED <<vFile, vProc, vHarmed>> /\ vFaults' \in 0..MaxLostMoves
        /\ vJob' = V!NoJob /\ vUpgrading' = FALSE /\ vJob'.at = "none"
    BY <1>e, <1>f, <1>7 DEF V!BackupFails, UpBefore
  <2>2. V!TypeOK'
    BY <1>0, <1>t, <2>1 DEF UpTyped
  <2> QED BY <1>0, <2>1, <2>2 DEF UpInv, UpJobOK, UpKept, UpUnharmed, UpBefore, UpAfter
<1>8. CASE V!InstallFails
  <2>1. /\ vJob.at \in UpAfter /\ vFaults' \in 0..MaxLostMoves
        /\ vJob' = V!NoJob /\ vUpgrading' = FALSE /\ vJob'.at = "none"
    BY <1>e, <1>f, <1>8 DEF V!InstallFails, UpAfter
  <2>2. /\ vProc.path = vJob.path + 1 /\ vProc.up /\ vFile[vJob.path + 1].runs
        /\ vFile[vJob.path + 1].ver = vProc.ver
    BY <1>0, <2>1 DEF UpJobOK, UpKept, UpAfter
  <2>j. /\ vJob.path \in V!Path /\ vJob.path + 1 # vJob.path
        /\ vJob.path + 1 # 0 /\ V!Backup = vJob.path + 1 /\ V!Backup \in V!Path
    BY <2>1, UpJobFacts DEF UpAfter
  <2>3. CASE /\ vFile' = [vFile EXCEPT ![vJob.path] = vFile[V!Backup], ![V!Backup] = V!None]
             /\ V!Moved(V!Backup, vJob.path) /\ UNCHANGED vHarmed
    <3>1. vFile' \in [V!Path -> V!Binary \cup {V!None}] /\ vFile'[vJob.path] = vFile[vJob.path + 1]
      BY <1>0, <2>3, <2>j
    <3>2. /\ vProc' \in [up : BOOLEAN, ver : Version, path : V!Path]
          /\ vProc'.path = vJob.path /\ vProc'.up /\ vProc'.ver = vProc.ver
      BY <1>0, <2>2, <2>3, <2>j DEF V!Moved
    <3>3. V!TypeOK'
      BY <1>0, <1>t, <2>1, <2>3, <3>1, <3>2 DEF UpTyped
    <3>4. UpJobOK' /\ UpKept'
      BY <2>1, <2>2, <2>j, <3>1, <3>2 DEF UpJobOK, UpKept, UpBefore, UpAfter
    <3>5. UpUnharmed'
      <4>1. vProc.ver \in Nat
        BY <1>0
      <4>2. ~vHarmed => vJob.path = 0
        BY <1>0, <2>1 DEF UpUnharmed
      <4>3. vFile'[vJob.path].runs /\ vFile'[vJob.path].ver = vProc.ver
        BY <2>2, <3>1
      <4> QED BY <2>1, <2>3, <3>2, <4>1, <4>2, <4>3 DEF UpUnharmed, UpAfter
    <3> QED BY <3>3, <3>4, <3>5 DEF UpInv
  <2>4. CASE vFile' = [vFile EXCEPT ![vJob.path] = V!None] /\ vHarmed' = TRUE /\ UNCHANGED vProc
    <3>1. vFile' \in [V!Path -> V!Binary \cup {V!None}] /\ vFile'[vJob.path + 1] = vFile[vJob.path + 1]
      BY <1>0, <2>4, <2>j
    <3>2. V!TypeOK'
      BY <1>0, <1>t, <2>1, <2>4, <3>1 DEF UpTyped
    <3>3. UpJobOK' /\ UpKept' /\ UpUnharmed'
      BY <2>1, <2>2, <2>4, <2>j, <3>1 DEF UpJobOK, UpKept, UpUnharmed, UpBefore, UpAfter
    <3> QED BY <3>2, <3>3 DEF UpInv
  <2> QED BY <1>8, <2>3, <2>4 DEF V!InstallFails
<1>9. CASE V!ExecFails
  <2>1. /\ UNCHANGED <<vFile, vProc, vFaults>> /\ vHarmed' = TRUE
        /\ vJob' = V!NoJob /\ vUpgrading' = FALSE /\ vJob'.at = "none"
    BY <1>e, <1>9 DEF V!ExecFails
  <2>2. V!TypeOK'
    BY <1>0, <1>t, <2>1 DEF UpTyped
  <2> QED BY <1>0, <2>1, <2>2 DEF UpInv, UpJobOK, UpKept, UpUnharmed, UpBefore, UpAfter
<1>10. CASE V!Crash
  <2>1. /\ vProc.up /\ UNCHANGED <<vFile, vFaults>> /\ vProc' = [vProc EXCEPT !.up = FALSE]
        /\ vJob' = V!NoJob /\ vUpgrading' = FALSE /\ vJob'.at = "none"
        /\ vHarmed' = (vHarmed \/ vJob.at = "install" \/ (vJob.at \in {"chmod", "exec"} /\ ~vJob.new.runs))
    BY <1>e, <1>10 DEF V!Crash
  <2>2. /\ vProc' \in [up : BOOLEAN, ver : Version, path : V!Path]
        /\ ~vProc'.up /\ vProc'.ver = vProc.ver
    BY <1>0, <2>1
  <2>3. V!TypeOK'
    BY <1>0, <1>t, <2>1, <2>2 DEF UpTyped
  <2>4. UpJobOK' /\ UpKept'
    BY <1>0, <2>1, <2>2 DEF UpJobOK, UpKept, UpBefore, UpAfter
  <2>5. UpUnharmed'
    <3>1. CASE vJob.at \notin UpAfter
      BY <1>0, <2>1, <2>2, <3>1 DEF UpUnharmed, UpAfter
    <3>2. CASE vJob.at \in UpAfter
      <4>1. ~vHarmed' => vJob.at \in {"chmod", "exec"} /\ vJob.new.runs /\ ~vHarmed
        BY <1>0, <2>1, <3>2 DEF UpAfter
      <4>2. vJob.new.ver > vProc.ver /\ vJob.new.ver \in Nat /\ vProc.ver \in Nat
        BY <1>0, <3>2, UpJobFacts DEF UpJobOK, UpAfter
      <4> QED BY <1>0, <2>1, <2>2, <3>2, <4>1, <4>2 DEF UpUnharmed, UpJobOK, UpAfter
    <3> QED BY <3>1, <3>2
  <2> QED BY <2>3, <2>4, <2>5 DEF UpInv
<1>11. CASE V!Start
  <2>1. /\ ~vProc.up /\ vFile[0].runs /\ vHarmed' = FALSE /\ UNCHANGED <<vFile, vUpgrading, vJob, vFaults>>
        /\ vProc' = [up |-> TRUE, ver |-> vFile[0].ver, path |-> 0]
    BY <1>11 DEF V!Start
  <2>2. vJob.at = "none" /\ vFile[0].ver \in Version /\ vFile[0].ver \in Nat
    <3>1. vFile[0] \in V!Binary
      BY <1>0, <2>1
    <3> QED BY <1>0, <2>1, <3>1 DEF UpJobOK, V!Binary
  <2>3. V!TypeOK'
    BY <1>0, <1>t, <2>1, <2>2 DEF UpTyped
  <2> QED BY <1>0, <2>1, <2>2, <2>3 DEF UpInv, UpJobOK, UpKept, UpUnharmed, UpBefore, UpAfter
<1>12. CASE V!Reinstall
  <2>1. ~vProc.up /\ vHarmed' = FALSE /\ UNCHANGED <<vProc, vUpgrading, vJob, vFaults>>
    BY <1>12 DEF V!Reinstall
  <2>2. PICK v \in Version : v >= vProc.ver /\ vFile' = [vFile EXCEPT ![0] = [ver |-> v, runs |-> TRUE]]
    BY <1>12 DEF V!Reinstall
  <2>3. /\ vFile' \in [V!Path -> V!Binary \cup {V!None}] /\ vFile'[0].runs /\ vFile'[0].ver = v
    BY <1>0, <2>2 DEF V!Binary
  <2>4. vJob.at = "none"
    BY <1>0, <2>1 DEF UpJobOK
  <2>5. V!TypeOK'
    BY <1>0, <1>t, <2>1, <2>3 DEF UpTyped
  <2>6. UpJobOK' /\ UpKept' /\ UpUnharmed'
    BY <1>0, <2>1, <2>2, <2>3, <2>4 DEF UpJobOK, UpKept, UpUnharmed, UpBefore, UpAfter
  <2> QED BY <2>5, <2>6 DEF UpInv
<1> QED BY <1>1, <1>2, <1>3, <1>4, <1>5, <1>6, <1>7, <1>8, <1>9, <1>10, <1>11, <1>12 DEF V!Next

LEMMA UpInitHolds == ASSUME V!Init PROVE UpInv
<1> USE UpFacts
<1>1. PICK v \in Version :
        /\ vFile = [p \in V!Path |-> IF p = 0 THEN [ver |-> v, runs |-> TRUE] ELSE V!None]
        /\ vProc = [up |-> TRUE, ver |-> v, path |-> 0]
  BY DEF V!Init
<1>2. vUpgrading = FALSE /\ vJob = V!NoJob /\ vHarmed = FALSE /\ vFaults = 0
  BY DEF V!Init
<1>3. vFile[0].runs /\ vFile[0].ver = v /\ v \in Nat
  BY <1>1
<1>4. V!TypeOK
  <2>1. vFile \in [V!Path -> V!Binary \cup {V!None}]
    <3>1. [ver |-> v, runs |-> TRUE] \in V!Binary
      BY DEF V!Binary
    <3> QED BY <1>1, <3>1
  <2>2. vProc \in [up : BOOLEAN, ver : Version, path : V!Path] /\ vFaults \in 0..MaxLostMoves
    BY <1>1, <1>2
  <2> QED BY <1>2, <2>1, <2>2 DEF V!TypeOK
<1> QED BY <1>1, <1>2, <1>3, <1>4 DEF UpInv, UpJobOK, UpKept, UpUnharmed, UpBefore, UpAfter

LEMMA UpInvariant == V!Spec => []UpInv
<1>1. V!Init => UpInv
  BY UpInitHolds
<1>2. UpInv /\ [V!Next]_(V!vars) => UpInv'
  BY UpStep
<1> QED BY <1>1, <1>2, PTL DEF V!Spec

LEMMA UpRuns == SuiteSpec => V!Spec
<1>1. SuiteInit => V!Init
  BY DEF SuiteInit
<1>2. [SuiteNext]_allVars => [V!Next]_(V!vars)
  BY DEF SuiteNext, allVars, versionVars, V!vars
<1> QED BY <1>1, <1>2, PTL DEF SuiteSpec, V!Spec

\* However often the program is upgraded, and whatever move fails or is cut off by a
\* crash, some path holds a program that runs, and the installed one does unless one
\* of the three known reasons says otherwise (updater/restart_unix.go:30).
THEOREM UpgradesAreRecoverable == SuiteSpec => []UpgradeIsRecoverable
<1>1. UpInv => UpgradeIsRecoverable
  BY DEF UpInv, UpKept, UpUnharmed, UpAfter, UpgradeIsRecoverable, V!UpgradeIsRecoverable
<1> QED BY <1>1, UpRuns, UpInvariant, PTL
-----------------------------------------------------------------------------
(* The access log *)

LogTyped ==
  /\ ch \in {"nil", "open", "closed"}
  /\ queue \in SUBSET Item /\ batch \in SUBSET Item /\ flushed \in SUBSET Item
  /\ worker \in {"none", "loop", "flush", "last", "done"}
  /\ again \in BOOLEAN
  /\ request \in [Item -> {"none", "handler", "send"} \cup Outcome]
  /\ stop \in [Stopper -> {"no", "closing", "wait", "nil", "err"}]

\* What was accepted is in the channel, with the goroutine or handed over, in one place.
LogPlaced ==
  /\ Accepted = queue \cup batch \cup flushed
  /\ queue \cap batch = {} /\ queue \cap flushed = {} /\ batch \cap flushed = {}

\* The goroutine ends when nothing more can come.
LogEnds ==
  /\ worker \in {"last", "done"} => ch = "closed" /\ queue = {}
  /\ worker = "done" => batch = {}
  /\ ch = "nil" => Accepted = {}

LogStops ==
  \A s \in Stopper :
    /\ stop[s] \in {"closing", "wait"} => ch # "nil"
    /\ stop[s] = "nil" => worker = "done" \/ (ch = "nil" /\ server # "up")

LogInv == LogTyped /\ LogPlaced /\ LogEnds /\ LogStops /\ ~again

LEMMA LogStep == ASSUME LogInv, [Next]_vars PROVE LogInv'
<1> USE DEF Accepted
<1>0. LogTyped /\ LogPlaced /\ LogEnds /\ LogStops /\ ~again
  BY DEF LogInv
<1>1. CASE UNCHANGED vars
  BY <1>0, <1>1 DEF vars, LogInv, LogTyped, LogPlaced, LogEnds, LogStops
<1>2. CASE Start
  BY <1>0, <1>2 DEF Start, LogInv, LogTyped, LogPlaced, LogEnds, LogStops
<1>3. ASSUME NEW i \in Item, Arrive(i) \/ Handled(i) PROVE LogInv'
  <2>1. PICK x \in {"handler", "send", "refused", "unlogged"} : request' = [request EXCEPT ![i] = x]
    BY <1>3 DEF Arrive, Handled
  <2>2. request[i] \in {"none", "handler"} /\ UNCHANGED <<ch, queue, worker, batch, flushed, again, stop, server>>
    BY <1>3 DEF Arrive, Handled
  <2>3. request' \in [Item -> {"none", "handler", "send"} \cup Outcome] /\ Accepted' = Accepted
    BY <1>0, <2>1, <2>2 DEF LogTyped, Outcome
  <2> QED BY <1>0, <2>2, <2>3 DEF LogInv, LogTyped, LogPlaced, LogEnds, LogStops
<1>4. ASSUME NEW i \in Item, TryEnqueue(i) PROVE LogInv'
  <2>1. request[i] = "send" /\ UNCHANGED <<ch, worker, batch, flushed, again, stop, server>>
    BY <1>4 DEF TryEnqueue
  <2>2. CASE queue' = queue /\ \E x \in {"panicked", "dropped"} : request' = [request EXCEPT ![i] = x]
    <3>1. request' \in [Item -> {"none", "handler", "send"} \cup Outcome] /\ Accepted' = Accepted
      BY <1>0, <2>1, <2>2 DEF LogTyped, Outcome
    <3> QED BY <1>0, <2>1, <2>2, <3>1 DEF LogInv, LogTyped, LogPlaced, LogEnds, LogStops
  <2>3. CASE ch = "open" /\ queue' = queue \cup {i} /\ request' = [request EXCEPT ![i] = "accepted"]
    <3>1. /\ request' \in [Item -> {"none", "handler", "send"} \cup Outcome]
          /\ Accepted' = Accepted \cup {i} /\ i \notin Accepted
      BY <1>0, <2>1, <2>3 DEF LogTyped, Outcome
    <3> QED BY <1>0, <2>1, <2>3, <3>1 DEF LogInv, LogTyped, LogPlaced, LogEnds, LogStops
  <2> QED BY <1>4, <2>2, <2>3 DEF TryEnqueue
<1>5. ASSUME NEW i \in Item, Receive(i) PROVE LogInv'
  <2>1. /\ worker = "loop" /\ i \in queue /\ queue' = queue \ {i} /\ batch' = batch \cup {i}
        /\ worker' \in {"flush", "loop"} /\ UNCHANGED <<ch, flushed, again, request, stop, server>>
    BY <1>5 DEF Receive
  <2> QED BY <1>0, <2>1 DEF LogInv, LogTyped, LogPlaced, LogEnds, LogStops
<1>6. CASE Tick \/ Closed
  BY <1>0, <1>6 DEF Tick, Closed, LogInv, LogTyped, LogPlaced, LogEnds, LogStops
<1>7. CASE Flush
  BY <1>0, <1>7 DEF Flush, LogInv, LogTyped, LogPlaced, LogEnds, LogStops
<1>8. CASE Shutdown \/ Drained \/ Exit \/ Ended
  BY <1>0, <1>8 DEF Shutdown, Drained, Exit, Ended, vars, LogInv, LogTyped, LogPlaced, LogEnds, LogStops
<1>9. ASSUME NEW s \in Stopper, StopBegin(s) PROVE LogInv'
  BY <1>0, <1>9 DEF StopBegin, LogInv, LogTyped, LogPlaced, LogEnds, LogStops
<1>10. ASSUME NEW s \in Stopper, Close(s) PROVE LogInv'
  BY <1>0, <1>10 DEF Close, LogInv, LogTyped, LogPlaced, LogEnds, LogStops
<1>11. ASSUME NEW s \in Stopper, StopEnd(s) PROVE LogInv'
  BY <1>0, <1>11 DEF StopEnd, LogInv, LogTyped, LogPlaced, LogEnds, LogStops
<1> QED BY <1>1, <1>2, <1>3, <1>4, <1>5, <1>6, <1>7, <1>8, <1>9, <1>10, <1>11 DEF Next

LEMMA LogRuns == SuiteSpec => Spec
<1>1. SuiteInit => Init
  BY DEF SuiteInit
<1>2. [SuiteNext]_allVars => [Next]_vars
  BY DEF SuiteNext, allVars, vars
<1> QED BY <1>1, <1>2, PTL DEF SuiteSpec, Spec

\* However many requests log, and whoever stops the writer meanwhile, an item is handed
\* over once, and a Stop that returns nil comes after all that were accepted
\* (batchwriter/writer.go:88).
THEOREM StopsAreFlushed == SuiteSpec => []StopMeansFlushed
<1>1. Init => LogInv
  BY DEF Init, LogInv, LogTyped, LogPlaced, LogEnds, LogStops, Accepted
<1>2. LogInv /\ [Next]_vars => LogInv'
  BY LogStep
<1>3. LogInv => StopMeansFlushed
  BY DEF LogInv, LogPlaced, LogEnds, LogStops, StopMeansFlushed
<1> QED BY <1>1, <1>2, <1>3, LogRuns, PTL DEF Spec
=============================================================================
