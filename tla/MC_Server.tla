------------------------------ MODULE MC_Server ------------------------------
(***************************************************************************)
(* SettingsCache, AccessLogWriter, PixivAccount, SyncData, RowCaches,      *)
(* Accounts, Sessions, Captcha and Updater checked in one run.  They share *)
(* no state: the first state picks the one that takes the steps, and those *)
(* to explore are those of each, not of their product.  Two nodes share    *)
(* the settings and the copies of a row; two calls an account; three       *)
(* transactions write two synchronised tables; two requests edit two users *)
(* and one identity, or use one session and three access tokens; three     *)
(* versions are released.                                                  *)
(***************************************************************************)
EXTENDS AccessLogWriter

CONSTANTS
  Node, Key, StorageKey, Value, Visible, MaxFills, MaxQueue,      \* SettingsCache; RowCaches
  Call, MaxToken, MaxLostWrites,                                  \* PixivAccount
  Table, Tx,                                                      \* SyncData
  UserId, Identity, Client,                                       \* Accounts
  Session, AccessToken, MaxTokens, MaxPassword,                   \* Sessions
  ChallengeTTL, TokenTTL, MaxTime,                                \* Captcha
  Version, MaxPath, MaxLostMoves                                  \* Updater

VARIABLES sRow, sRam, sFill, sWrite, sQueue, sHears, sStart, sOvertaken,
          aRow, aCall, aLive, aValid, aRotates, aIssued, aKnown, aLost, aFaults,
          yRows, yTx, yGone, yLast, yMet,
          rKind, rLive, rRedis, rRam, rRead, rWrite, rNews,
          uUser, uOwner, uCode, uState, uReq, uAstray,
          lPass, lActive, lCopy, lOld, lSess, lToken, lReq,
          pNow, pStrict, pNonce, pToken, pReq, pWon,
          vFile, vProc, vUpgrading, vJob, vHarmed, vFaults,
          focus

S == INSTANCE SettingsCache WITH
       row <- sRow, ram <- sRam, fill <- sFill, write <- sWrite, queue <- sQueue,
       hears <- sHears, start <- sStart, overtaken <- sOvertaken

A == INSTANCE PixivAccount WITH
       MaxFaults <- MaxLostWrites,
       row <- aRow, call <- aCall, live <- aLive, valid <- aValid, rotates <- aRotates,
       issued <- aIssued, known <- aKnown, lost <- aLost, faults <- aFaults

Y == INSTANCE SyncData WITH
       rows <- yRows, tx <- yTx, gone <- yGone, last <- yLast, met <- yMet

R == INSTANCE RowCaches WITH
       kind <- rKind, live <- rLive, redis <- rRedis, ram <- rRam,
       read <- rRead, write <- rWrite, news <- rNews

U == INSTANCE Accounts WITH
       Request <- Client,
       user <- uUser, owner <- uOwner, code <- uCode,
       state <- uState, req <- uReq, astray <- uAstray

L == INSTANCE Sessions WITH
       Request <- Client, Token <- AccessToken,
       pass <- lPass, active <- lActive, copy <- lCopy, old <- lOld,
       sess <- lSess, token <- lToken, req <- lReq

P == INSTANCE Captcha WITH
       Request <- Client,
       now <- pNow, strict <- pStrict, nonce <- pNonce, token <- pToken, req <- pReq, won <- pWon

V == INSTANCE Updater WITH
       MaxFaults <- MaxLostMoves,
       file <- vFile, proc <- vProc, upgrading <- vUpgrading, job <- vJob,
       harmed <- vHarmed, faults <- vFaults

settingsVars == <<sRow, sRam, sFill, sWrite, sQueue, sHears, sStart, sOvertaken>>
accountVars  == <<aRow, aCall, aLive, aValid, aRotates, aIssued, aKnown, aLost, aFaults>>
syncVars     == <<yRows, yTx, yGone, yLast, yMet>>
rowVars      == <<rKind, rLive, rRedis, rRam, rRead, rWrite, rNews>>
userVars     == <<uUser, uOwner, uCode, uState, uReq, uAstray>>
loginVars    == <<lPass, lActive, lCopy, lOld, lSess, lToken, lReq>>
captchaVars  == <<pNow, pStrict, pNonce, pToken, pReq, pWon>>
versionVars  == <<vFile, vProc, vUpgrading, vJob, vHarmed, vFaults>>
allVars      == <<vars, settingsVars, accountVars, syncVars, rowVars, userVars, loginVars,
                  captchaVars, versionVars, focus>>

\* What the others start with is of no matter: one start of them is enough.
SuiteInit ==
  /\ Init /\ S!Init /\ A!Init /\ Y!Init /\ R!Init /\ U!Init /\ L!Init /\ P!Init /\ V!Init
  /\ focus \in {"writer", "settings", "account", "sync", "row", "user", "login", "captcha", "version"}
  /\ focus # "settings" => sRow = S!Empty
  /\ focus # "account"  => aRotates
  /\ focus # "row"      => rKind = "user" /\ rLive /\ rWrite.node = CHOOSE n \in Node : TRUE
  /\ focus # "captcha"  => pStrict
  /\ focus # "version"  => vProc.ver = CHOOSE v \in Version : TRUE

SuiteNext ==
  \/ /\ focus = "writer" /\ Next
     /\ UNCHANGED <<settingsVars, accountVars, syncVars, rowVars, userVars, loginVars, captchaVars,
                    versionVars, focus>>
  \/ /\ focus = "settings" /\ S!Next
     /\ UNCHANGED <<vars, accountVars, syncVars, rowVars, userVars, loginVars, captchaVars,
                    versionVars, focus>>
  \/ /\ focus = "account" /\ A!Next
     /\ UNCHANGED <<vars, settingsVars, syncVars, rowVars, userVars, loginVars, captchaVars,
                    versionVars, focus>>
  \/ /\ focus = "sync" /\ Y!Next
     /\ UNCHANGED <<vars, settingsVars, accountVars, rowVars, userVars, loginVars, captchaVars,
                    versionVars, focus>>
  \/ /\ focus = "row" /\ R!Next
     /\ UNCHANGED <<vars, settingsVars, accountVars, syncVars, userVars, loginVars, captchaVars,
                    versionVars, focus>>
  \/ /\ focus = "user" /\ U!Next
     /\ UNCHANGED <<vars, settingsVars, accountVars, syncVars, rowVars, loginVars, captchaVars,
                    versionVars, focus>>
  \/ /\ focus = "login" /\ L!Next
     /\ UNCHANGED <<vars, settingsVars, accountVars, syncVars, rowVars, userVars, captchaVars,
                    versionVars, focus>>
  \/ /\ focus = "captcha" /\ P!Next
     /\ UNCHANGED <<vars, settingsVars, accountVars, syncVars, rowVars, userVars, loginVars,
                    versionVars, focus>>
  \/ /\ focus = "version" /\ V!Next
     /\ UNCHANGED <<vars, settingsVars, accountVars, syncVars, rowVars, userVars, loginVars,
                    captchaVars, focus>>

SuiteSpec == SuiteInit /\ [][SuiteNext]_allVars

\* What the modules ask of their constants.
ASSUME ConstantsFit ==
  /\ S!SettingsAssumption /\ A!AccountAssumption /\ U!AccountsAssumption /\ L!SessionsAssumption
  /\ P!CaptchaAssumption /\ V!UpdaterAssumption /\ Y!SyncAssumption

\* In each property of a model: where it takes the steps, its states are well
\* typed as well.
\* SettingsCache's: a copy that differs from its row was overtaken by the change
\* (src/internal/repository/system_config_cache.go:149).
StaleWasOvertaken == focus = "settings" => S!TypeOK /\ S!StaleWasOvertaken

\* PixivAccount's: the refresh token that is stored was not spent
\* (src/internal/service/pixez/client.go:283).
StoredIsLive == focus = "account" => A!TypeOK /\ A!StoredIsLive

\* SyncData's: a write that begins after another replaces it
\* (src/internal/apps/pixez/routers.go:402).
LastReplaces == Y!LastReplaces

\* SyncData's: transactions never wait in a circle
\* (src/internal/apps/pixez/routers.go:562).
SomeGoesOn == focus = "sync" => Y!TypeOK /\ Y!SomeGoesOn

\* RowCaches': a copy that differs from its row is about to go, or its removal was
\* missed (src/internal/apps/oauth/cache.go:201).
OldCopiesGo == focus = "row" => R!TypeOK /\ R!OldCopiesGo

\* Accounts': what was done to an account is undone by an edit that overlapped it
\* (src/internal/apps/user/logics.go:284).
UndoneByOverlapOnly == U!UndoneByOverlapOnly

\* Accounts': an identity leads to an account that exists
\* (src/internal/model/auth_source.go:243).
IdentityLeadsSomewhere == focus = "user" => U!TypeOK /\ U!IdentityLeadsSomewhere

\* Sessions': a changed password ends the sessions
\* (src/internal/apps/user/logics.go:341).
SessionsEnd == focus = "login" => L!TypeOK /\ L!SessionsEnd

\* Captcha's: a challenge that is good is redeemed once
\* (src/internal/apps/cap/manager.go:86).
RedeemedOnce == focus = "captcha" => P!TypeOK /\ P!RedeemedOnce

\* Updater's: a failed upgrade leaves a program that can be started
\* (src/internal/apps/admin/updater/restart_unix.go:30).
UpgradeIsRecoverable == focus = "version" => V!TypeOK /\ V!UpgradeIsRecoverable
=============================================================================
