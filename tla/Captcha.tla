------------------------------- MODULE Captcha -------------------------------
(***************************************************************************)
(* The proof of work asked for at the login: a signed challenge, which is  *)
(* kept nowhere; its redemption for a token, with a nonce in the store     *)
(* that shall keep it from being redeemed again; the token, which serves   *)
(* once.  The store is Redis or the process's memory: they expire an entry *)
(* at, or just after, its time.  Time is a bounded clock, and one action   *)
(* one access to the clock or the store.                                   *)
(***************************************************************************)
EXTENDS Integers

CONSTANTS
  Request,      \* requests in progress
  ChallengeTTL, \* the challenge, issued at 0, is good until then
  TokenTTL,     \* so long is a token
  MaxTime       \* bound of the clock

CaptchaAssumption == ChallengeTTL \in Nat \ {0} /\ TokenTTL \in Nat \ {0} /\ MaxTime \in Nat

VARIABLES
  now,     \* the clock
  strict,  \* the store still shows an entry at the very time it expires
  nonce,   \* when the nonce of the challenge expires; 0: it was never set
  token,   \* token[r]: when the token given to r expires; 0: none is stored
  req,     \* req[r]: what request r is doing
  won      \* redemptions that have set the nonce

vars == <<now, strict, nonce, token, req, won>>

Req == [at : {"idle", "solved", "nonce", "settings", "issue", "done", "use"}, ttl : Nat]

TypeOK ==
  /\ now \in 0..MaxTime /\ strict \in BOOLEAN
  /\ nonce \in Nat /\ token \in [Request -> Nat]
  /\ req \in [Request -> Req] /\ won \in Nat

Init ==
  /\ now = 0 /\ strict \in BOOLEAN /\ nonce = 0 /\ won = 0
  /\ token = [r \in Request |-> 0]
  /\ req = [r \in Request |-> [at |-> "idle", ttl |-> 0]]

Shown(until) == until # 0 /\ (now < until \/ (strict /\ now = until))
Goto(r, at)  == req' = [req EXCEPT ![r].at = at]

Tick == now < MaxTime /\ now' = now + 1 /\ UNCHANGED <<strict, nonce, token, req, won>>

\* Another challenge; the earlier one, and its tokens, are of no matter to it.
GenerateChallenge ==
  /\ \A r \in Request : req[r].at \in {"idle", "done"}
  /\ now' = 0 /\ nonce' = 0 /\ won' = 0
  /\ token' = [r \in Request |-> 0]
  /\ req' = [r \in Request |-> [at |-> "idle", ttl |-> 0]]
  /\ UNCHANGED strict

Challenge == GenerateChallenge

\* The signature, the scope, the challenge's age and the solutions are right.
VerifyChallengeSolutions(r) ==
  /\ req[r].at \in {"idle", "done"} /\ now <= ChallengeTTL
  /\ Goto(r, "solved")
  /\ UNCHANGED <<now, strict, nonce, token, won>>

\* A client hands solutions in, as often as it likes.
SubmitSolutions(r) == VerifyChallengeSolutions(r)

\* Mutated form, no part of the specification: the nonce lasts a second.
ShortNonceTTL(r) ==
  /\ req[r].at = "solved"
  /\ req' = [req EXCEPT ![r] = [at |-> "nonce", ttl |-> 1]]
  /\ UNCHANGED <<now, strict, nonce, token, won>>

\* The nonce is to last as long as the challenge, a second at least.
NonceTTL(r) ==
  /\ req[r].at = "solved"
  /\ req' = [req EXCEPT ![r] = [at |-> "nonce", ttl |-> IF now < ChallengeTTL THEN ChallengeTTL - now ELSE 1]]
  /\ UNCHANGED <<now, strict, nonce, token, won>>

SetNX(r) ==
  /\ req[r].at = "nonce"
  /\ IF Shown(nonce)
     THEN Goto(r, "done") /\ UNCHANGED <<nonce, won>>
     ELSE Goto(r, "settings") /\ nonce' = now + req[r].ttl /\ won' = won + 1
  /\ UNCHANGED <<now, strict, token>>

\* How long tokens last; an error leaves the challenge spent.
CurrentSettings(r) ==
  /\ req[r].at = "settings"
  /\ Goto(r, "issue") \/ Goto(r, "done")
  /\ UNCHANGED <<now, strict, nonce, token, won>>

Redeem(r) ==
  /\ req[r].at = "issue"
  /\ token' = [token EXCEPT ![r] = now + TokenTTL] /\ Goto(r, "use")
  /\ UNCHANGED <<now, strict, nonce, won>>

\* VerifyToken: the token is taken out of the store, and opens a login if it is not
\* over its time, which it carries too.
VerifyToken(r) ==
  /\ req[r].at = "use"
  /\ token' = [token EXCEPT ![r] = 0] /\ Goto(r, "done")
  /\ UNCHANGED <<now, strict, nonce, won>>

\* Before a login, where the protection is on.
VerifyMiddleware(r) == VerifyToken(r)

\* cleanupExpired.
Cleanup ==
  /\ \E r \in Request : token[r] # 0 /\ ~Shown(token[r])
  /\ token' = [r \in Request |-> IF Shown(token[r]) THEN token[r] ELSE 0]
  /\ UNCHANGED <<now, strict, nonce, req, won>>

\* The store fails.
Fail(r) ==
  /\ req[r].at \in {"nonce", "issue"} /\ Goto(r, "done")
  /\ UNCHANGED <<now, strict, nonce, token, won>>

Next ==
  \/ Tick \/ Cleanup \/ Challenge
  \/ \E r \in Request :
       \/ SubmitSolutions(r) \/ NonceTTL(r) \/ SetNX(r) \/ CurrentSettings(r)
       \/ Redeem(r) \/ VerifyMiddleware(r) \/ Fail(r)

Spec == Init /\ [][Next]_vars

-----------------------------------------------------------------------------
\* While a challenge is good it is redeemed once: whoever redeems it again had its
\* solutions verified in time and came to the store when the challenge had expired.
RedeemedOnce == now < ChallengeTTL => won <= 1
=============================================================================
