----------------------------- MODULE ArtistScan -----------------------------
(***************************************************************************)
(* The directory scan of one artist and one kind of works (illustrations   *)
(* or novels): the subscription, its scan runs, and the artist's works.    *)
(*                                                                         *)
(* A scan run is reserved on the subscription (active_run_id and a lease)  *)
(* before its task is dispatched; the workers Asynq hands the task to      *)
(* claim the run with an execution token and a lease of its own, read the  *)
(* artist's catalogue page by page, and save the page cursor after each    *)
(* page, so that a later attempt resumes there.  Callers are the HTTP      *)
(* handlers and the periodic due check, which reserve runs; the user       *)
(* toggles the subscription at any time.                                   *)
(*                                                                         *)
(* One action is one statement or transaction on the database; leases run  *)
(* out in the steps LapseRun and LapseSub.                                 *)
(***************************************************************************)
EXTENDS Integers, Sequences, FiniteSets

CONSTANTS
  Work,       \* works of the artist, of the one kind
  Mirrored,   \* those that are mirrored without the scan, from a bookmark or by hand
  Catalogue,  \* the pages Pixiv returns, all categories one after the other
  Worker,     \* Asynq worker goroutines
  Caller,     \* request handlers and the due check
  MaxRun,     \* bound: scan runs
  MaxTries,   \* bound: deliveries of a run's task (Asynq attempts, RetryTask)
  MaxRevision \* bound: switches of the subscription

ASSUME ScanConstantsOK ==
  /\ Mirrored \subseteq Work
  /\ Catalogue \in Seq(SUBSET Work)
  /\ Worker \cap Caller = {}
  /\ {MaxRun, MaxTries, MaxRevision} \subseteq Nat

VARIABLES
  sub,   \* the pixez_artist_subscriptions row
  scan,  \* scan[r]: the pixez_artist_sync_runs row r
  work,  \* work[w]: the pixez_artist_works row w
  proc   \* proc[x]: what worker or caller x is executing

vars == <<sub, scan, work, proc>>

-----------------------------------------------------------------------------
RunId == 1..MaxRun
NoRun == 0
NoTry == 0          \* execution_token = ''
End   == Len(Catalogue) + 1                       \* next_url = ''
Lease == {"none", "held", "lapsed"}
Proc  == Worker \cup Caller

Subscription == [enabled : BOOLEAN, revision : Nat, active : RunId \cup {NoRun},
                 lease : Lease, due : BOOLEAN]    \* due: next_due_at is past

Scan == [status : {"absent", "pending", "running", "retrying",
                   "success", "failed", "cancelled"},
         download : BOOLEAN, revision : Nat, sent : BOOLEAN,
         token : 0..MaxTries,  \* the delivery that holds it: uuids never repeat
         lease : Lease, cursor : 1..End, account : BOOLEAN, tries : 0..MaxTries]

NoScan == [status |-> "absent", download |-> FALSE, revision |-> 0, sent |-> FALSE,
           token |-> NoTry, lease |-> "none", cursor |-> 1, account |-> FALSE, tries |-> 0]

WorkRow == [known : BOOLEAN, seen : RunId \cup {NoRun}, missing : BOOLEAN,
            arranged : BOOLEAN]  \* found backed up, or a mirror task was sent

\* Program counters of ScanArtistRun, FailArtistRun and the dispatch.
Scanning == {"account", "renewrun", "renewsub", "fetch", "index", "arrange",
             "save", "cancel", "finish"}
PC == {"idle", "initial", "read", "claim", "release", "failread", "failrun", "failsub",
       "dispatch", "redue"} \cup Scanning

Local == [pc : PC, run : RunId \cup {NoRun}, try : 0..MaxTries, final : BOOLEAN,
          cursor : 1..End, account : BOOLEAN,     \* as read from the run
          todo : SUBSET Work,                     \* works left on the page
          at : SUBSET Work,                       \* the work being arranged, if any
          err : BOOLEAN]

Idle == [pc |-> "idle", run |-> NoRun, try |-> NoTry, final |-> FALSE, cursor |-> 1,
         account |-> FALSE, todo |-> {}, at |-> {}, err |-> FALSE]

TypeOK ==
  /\ sub \in Subscription
  /\ scan \in [RunId -> Scan]
  /\ work \in [Work -> WorkRow]
  /\ proc \in [Proc -> Local]

-----------------------------------------------------------------------------
Listed == UNION {Catalogue[p] : p \in 1..Len(Catalogue)}

\* artistExecutionQuery: the run still carries the token of x.
Owns(x) == scan[proc[x].run].token = proc[x].try
Open(r) == scan[r].status \notin {"cancelled", "failed"}

\* The condition under which run r may use the subscription.
Current(r) == /\ sub.active = r /\ sub.revision = scan[r].revision
              /\ scan[r].download => sub.enabled

Fresh(r) == scan[r].status = "absent" /\ \A q \in 1..(r - 1) : scan[q].status # "absent"

Become(x, p) == proc' = [proc EXCEPT ![x] = p]
Goto(x, pc)  == Become(x, [proc[x] EXCEPT !.pc = pc])
Leave(x)     == Become(x, Idle)

\* The scan ends, or its failure is about to be reported; what was read is dropped.
Return(x, err) == Become(x, [Idle EXCEPT !.pc = "release", !.run = proc[x].run,
                                         !.try = proc[x].try, !.err = err])
Report(x)      == Become(x, [Idle EXCEPT !.pc = "failread", !.run = proc[x].run])

\* The head of the page loop, and of the loop over a page.
Top(cursor) == IF cursor = End THEN "finish" ELSE "renewrun"
Rest(todo)   == IF todo = {} THEN "save" ELSE "index"

Free         == [sub EXCEPT !.active = NoRun, !.lease = "none"]
Close(r, s)  == IF r # NoRun /\ scan[r].status \notin {"success", "cancelled"}
                THEN [scan EXCEPT ![r].status = s] ELSE scan

-----------------------------------------------------------------------------
(***************************************************************************)
(* Mutated forms of some of the actions below.  They are no part of the    *)
(* specification: each shows that a property notices the bug it names.     *)
(***************************************************************************)
\* The cursor is saved when the page arrives, before its works are indexed.
FetchSavesCursor(x) ==
  LET p == proc[x]
  IN /\ p.pc = "fetch"
     /\ scan' = IF Owns(x) THEN [scan EXCEPT ![p.run].cursor = p.cursor + 1] ELSE scan
     /\ Become(x, [p EXCEPT !.pc = Rest(Catalogue[p.cursor]), !.todo = Catalogue[p.cursor]])
     /\ UNCHANGED <<sub, work>>

\* The run is cancelled without the token condition.
CancelUnprotected(x) ==
  /\ proc[x].pc = "cancel"
  /\ scan' = [scan EXCEPT ![proc[x].run].status = "cancelled"]
  /\ Return(x, FALSE)
  /\ UNCHANGED <<sub, work>>

\* Switching the subscription leaves its reservation alone.
SetSubscriptionKeepsRun(enabled) ==
  /\ sub.enabled # enabled
  /\ sub.revision < MaxRevision
  /\ sub' = [sub EXCEPT !.enabled = enabled, !.revision = @ + 1, !.due = @ \/ enabled]
  /\ UNCHANGED scan

\* A reserved subscription is never reserved again, whatever its lease.
CreateUnreserved(x, download) ==
  /\ download => sub.enabled
  /\ sub.active = NoRun
  /\ \E r \in RunId :
       /\ Fresh(r)
       /\ sub' = [sub EXCEPT !.active = r, !.lease = "held"]
       /\ scan' = [scan EXCEPT ![r] = [NoScan EXCEPT !.status = "pending",
                                        !.download = download, !.revision = sub.revision]]
       /\ Become(x, [Idle EXCEPT !.pc = "dispatch", !.run = r])
  /\ UNCHANGED work

-----------------------------------------------------------------------------
Init ==
  /\ sub = [enabled |-> FALSE, revision |-> 0, active |-> NoRun, lease |-> "none", due |-> TRUE]
  /\ scan = [r \in RunId |-> NoScan]
  /\ work = [w \in Work |-> [known |-> FALSE, seen |-> NoRun, missing |-> FALSE,
                             arranged |-> FALSE]]
  /\ proc = [x \in Proc |-> Idle]

\* SetArtistSubscription, one transaction: the switch, with the reservation and its run given up.
SetSubscription(enabled) ==
  /\ sub.enabled # enabled
  /\ sub.revision < MaxRevision
  /\ sub' = [Free EXCEPT !.enabled = enabled, !.revision = @ + 1,
                                     !.due = @ \/ enabled]
  /\ scan' = Close(sub.active, "cancelled")

\* UpdateArtistSubscription: a subscription just switched on is scanned next.
UpdateArtistSubscription(x, enabled) ==
  /\ x \in Caller /\ proc[x].pc = "idle"
  /\ SetSubscription(enabled)
  /\ IF enabled THEN Goto(x, "initial") ELSE UNCHANGED proc
  /\ UNCHANGED work

\* CreateArtistRun reserves the subscription, unless a scan holds it.  A scan whose
\* lease ran out is given up.
CanCreate(download) ==
  (download => sub.enabled) /\ sub.lease # "held" /\ \E r \in RunId : Fresh(r)

Create(x, download) ==
  /\ download => sub.enabled
  /\ sub.lease # "held"
  /\ \E r \in RunId :
       /\ Fresh(r)
       /\ sub' = [sub EXCEPT !.active = r, !.lease = "held"]
       /\ scan' = [Close(sub.active, "failed") EXCEPT
                     ![r] = [NoScan EXCEPT !.status = "pending", !.download = download,
                                           !.revision = sub.revision]]
       /\ Become(x, [Idle EXCEPT !.pc = "dispatch", !.run = r])
  /\ UNCHANGED work

\* The first scan; it finds the subscription switched off again, or held.
Initial(x) ==
  /\ proc[x].pc = "initial"
  /\ \/ Create(x, TRUE)
     \/ ~CanCreate(TRUE) /\ Leave(x) /\ UNCHANGED <<sub, scan, work>>

\* The user has the directory listed, without mirrors, ...
RefreshArtistDirectory(x) == x \in Caller /\ proc[x].pc = "idle" /\ Create(x, FALSE)

\* ... or scanned for new works at once.
SyncArtistSubscription(x) ==
  x \in Caller /\ proc[x].pc = "idle" /\ sub.enabled /\ Create(x, TRUE)

\* ArtistDueTaskHandler: a due subscription that no scan holds is scanned.
CheckDue(x) ==
  x \in Caller /\ proc[x].pc = "idle" /\ sub.enabled /\ sub.due /\ Create(x, TRUE)

\* DispatchTask: the enqueue may fail, or be reported as failed though the task
\* was queued; then FailArtistDispatch runs.
Dispatch(x) ==
  /\ proc[x].pc = "dispatch"
  /\ \/ scan' = [scan EXCEPT ![proc[x].run].sent = TRUE] /\ (Leave(x) \/ Report(x))
     \/ UNCHANGED scan /\ Report(x)
  /\ UNCHANGED <<sub, work>>

\* Asynq hands the run's task to a worker: new, retried or redelivered, or sent
\* once more by RetryTask.
Deliver(x, r) ==
  /\ x \in Worker /\ proc[x].pc = "idle"
  /\ scan[r].sent /\ scan[r].tries < MaxTries
  /\ Become(x, [Idle EXCEPT !.pc = "read", !.run = r, !.try = scan[r].tries + 1])
  /\ scan' = [scan EXCEPT ![r].tries = @ + 1]
  /\ UNCHANGED <<sub, work>>

\* ScanArtistRun reads the run; what it read is used until the scan ends.
Read(x) ==
  LET r == proc[x].run
  IN /\ proc[x].pc = "read"
     /\ IF scan[r].status \in {"success", "cancelled", "failed"}
        THEN Leave(x)
        ELSE Become(x, [proc[x] EXCEPT !.pc = "claim", !.cursor = scan[r].cursor,
                                       !.account = scan[r].account])
     /\ UNCHANGED <<sub, scan, work>>

\* claimArtistExecution; a claim that matches no row ends the task as a success.
Claim(x) ==
  LET r == proc[x].run
  IN /\ proc[x].pc = "claim"
     /\ IF scan[r].status \in {"pending", "running", "retrying"} /\ scan[r].lease # "held"
        THEN /\ scan' = [scan EXCEPT ![r].token = proc[x].try, ![r].lease = "held"]
             /\ Goto(x, "account")
        ELSE Leave(x) /\ UNCHANGED scan
     /\ UNCHANGED <<sub, work>>

\* artistScanAccount: the account is chosen once; the write looks at the token
\* and not at the status.
Account(x) ==
  LET r == proc[x].run
  IN /\ proc[x].pc = "account"
     /\ scan' = IF ~proc[x].account /\ Owns(x)
                THEN [scan EXCEPT ![r].account = TRUE, ![r].status = "running"]
                ELSE scan
     /\ Become(x, [proc[x] EXCEPT !.pc = Top(proc[x].cursor), !.account = FALSE])
     /\ UNCHANGED <<sub, work>>

\* renewArtistRun, first the run's lease ...
RenewRun(x) ==
  LET r == proc[x].run
  IN /\ proc[x].pc = "renewrun"
     /\ IF Owns(x) /\ Open(r)
        THEN scan' = [scan EXCEPT ![r].lease = "held"] /\ Goto(x, "renewsub")
        ELSE UNCHANGED scan /\ Goto(x, "cancel")
     /\ UNCHANGED <<sub, work>>

\* ... then the subscription's.  It is asked before a page and before a mirror.
RenewSub(x) ==
  /\ proc[x].pc = "renewsub"
  /\ IF Current(proc[x].run)
     THEN /\ sub' = [sub EXCEPT !.lease = "held"]
          /\ Goto(x, IF proc[x].at = {} THEN "fetch" ELSE "arrange")
     ELSE UNCHANGED sub /\ Goto(x, "cancel")
  /\ UNCHANGED <<scan, work>>

\* scanArtist{Illust,Novel}Page: Pixiv returned the page.
Fetch(x) ==
  LET page == Catalogue[proc[x].cursor]
  IN /\ proc[x].pc = "fetch"
     /\ Become(x, [proc[x] EXCEPT !.pc = Rest(page), !.todo = page])
     /\ UNCHANGED <<sub, scan, work>>

\* Index{Illust,Novel}, one transaction per work, not conditional on the run.
Index(x) ==
  LET p == proc[x]
  IN /\ p.pc = "index"
     /\ \E w \in p.todo :
          /\ work' = [work EXCEPT ![w].known = TRUE, ![w].seen = p.run, ![w].missing = FALSE]
          /\ Become(x, IF scan[p.run].download
                       THEN [p EXCEPT !.pc = "renewrun", !.todo = @ \ {w}, !.at = {w}]
                       ELSE [p EXCEPT !.pc = Rest(p.todo \ {w}), !.todo = @ \ {w}])
     /\ UNCHANGED <<sub, scan>>

\* The work is backed up already, a task for it was under way in the last quarter
\* of an hour, or one is sent now.
EnqueueArtistMirror(w) == work' = [work EXCEPT ![w].arranged = TRUE]

\* enqueueArtistWork: where the row of a task that was sent cannot be written, the
\* scan fails (Fail), and its next attempt sends another.
Arrange(x) ==
  LET p == proc[x]
  IN /\ p.pc = "arrange"
     /\ \E w \in p.at : EnqueueArtistMirror(w)
     /\ Become(x, [p EXCEPT !.pc = Rest(p.todo), !.at = {}])
     /\ UNCHANGED <<sub, scan>>

\* saveArtistProgress: whether the row was written is not looked at.
Save(x) ==
  LET p == proc[x]
  IN /\ p.pc = "save"
     /\ scan' = IF Owns(x) /\ Open(p.run)
                THEN [scan EXCEPT ![p.run].status = "running", ![p.run].cursor = p.cursor + 1]
                ELSE scan
     /\ Become(x, [p EXCEPT !.pc = Top(p.cursor + 1), !.cursor = @ + 1])
     /\ UNCHANGED <<sub, work>>

\* cancelArtistRun, when the run may not go on.
Cancel(x) ==
  LET r == proc[x].run
  IN /\ proc[x].pc = "cancel"
     /\ scan' = IF Owns(x) THEN [scan EXCEPT ![r].status = "cancelled"] ELSE scan
     /\ Return(x, FALSE)
     /\ UNCHANGED <<sub, work>>

\* finishArtistRun, one transaction: the run succeeds, the subscription is
\* released, and the works this run did not stamp are marked as not returned.
Finish(x) ==
  LET r == proc[x].run
  IN /\ proc[x].pc = "finish"
     /\ IF ~(Owns(x) /\ Open(r)) THEN UNCHANGED <<sub, scan, work>>
        ELSE IF ~Current(r)
        THEN scan' = [scan EXCEPT ![r].status = "cancelled"] /\ UNCHANGED <<sub, work>>
        ELSE /\ scan' = [scan EXCEPT ![r].status = "success"]
             /\ sub' = [Free EXCEPT !.due = @ /\ ~scan[r].download]
             /\ work' = [w \in Work |-> [work[w] EXCEPT
                           !.missing = @ \/ (work[w].known /\ work[w].seen # r)]]
     /\ Return(x, FALSE)

\* Pixiv, the database or the task queue fails, or the process is shut down.
Fail(x) ==
  /\ \/ proc[x].pc \in Scanning /\ Return(x, TRUE)
     \/ proc[x].pc \in {"read", "claim"} /\ Report(x)
  /\ UNCHANGED <<sub, scan, work>>

\* releaseArtistExecution, deferred; an error of it is only logged.
Release(x) ==
  LET r == proc[x].run
  IN /\ proc[x].pc = "release"
     /\ \/ scan' = IF Owns(x) THEN [scan EXCEPT ![r].token = NoTry, ![r].lease = "none"] ELSE scan
        \/ UNCHANGED scan
     /\ IF proc[x].err THEN Report(x) ELSE Leave(x)
     /\ UNCHANGED <<sub, work>>

\* FailArtistRun reads the run; any delivery may be the last of its task, and a
\* failed dispatch counts as one ...
FailRead(x) ==
  LET r == proc[x].run
  IN /\ proc[x].pc = "failread"
     /\ IF scan[r].status \notin {"success", "cancelled"} /\ scan[r].lease # "held"
        THEN \E final \in BOOLEAN :
               /\ x \in Caller => final
               /\ Become(x, [proc[x] EXCEPT !.pc = "failrun", !.final = final])
        ELSE IF x \in Caller THEN Goto(x, "redue") ELSE Leave(x)
     /\ UNCHANGED <<sub, scan, work>>

\* ... marks it ...
FailRun(x) ==
  /\ proc[x].pc = "failrun"
  /\ scan' = Close(proc[x].run, IF proc[x].final THEN "failed" ELSE "retrying")
  /\ Goto(x, "failsub")
  /\ UNCHANGED <<sub, work>>

\* ... and gives the subscription up, or keeps it for the next attempt.
FailSub(x) ==
  LET r == proc[x].run
  IN /\ proc[x].pc = "failsub"
     /\ sub' = IF sub.active # r THEN sub
               ELSE IF proc[x].final THEN [Free EXCEPT !.due = FALSE]
               ELSE [sub EXCEPT !.lease = "held"]
     /\ IF x \in Caller THEN Goto(x, "redue") ELSE Leave(x)
     /\ UNCHANGED <<scan, work>>

\* FailArtistDispatch: the subscription stays due.
Redue(x) ==
  /\ proc[x].pc = "redue"
  /\ sub' = [sub EXCEPT !.due = @ \/ (sub.active = NoRun /\ sub.enabled)]
  /\ Leave(x)
  /\ UNCHANGED <<scan, work>>

\* The process dies, or a statement of the failure path fails.
Crash(x) ==
  /\ proc[x].pc # "idle"
  /\ Leave(x)
  /\ UNCHANGED <<sub, scan, work>>

\* A mirror of the work is filled, or BackfillArtistMirrors finds one.
Discover(w) ==
  /\ w \in Mirrored /\ ~work[w].known
  /\ work' = [work EXCEPT ![w].known = TRUE]
  /\ UNCHANGED <<sub, scan, proc>>

\* Fifteen minutes pass without a renewal; a day passes.
LapseRun(r) ==
  /\ scan[r].lease = "held"
  /\ scan' = [scan EXCEPT ![r].lease = "lapsed"]
  /\ UNCHANGED <<sub, work, proc>>

LapseSub ==
  /\ sub.lease = "held"
  /\ sub' = [sub EXCEPT !.lease = "lapsed"]
  /\ UNCHANGED <<scan, work, proc>>

FallDue ==
  /\ ~sub.due
  /\ sub' = [sub EXCEPT !.due = TRUE]
  /\ UNCHANGED <<scan, work, proc>>

-----------------------------------------------------------------------------
Execute(x) ==
  \/ Initial(x) \/ Dispatch(x) \/ Read(x) \/ Claim(x) \/ Account(x) \/ RenewRun(x) \/ RenewSub(x)
  \/ Fetch(x) \/ Index(x) \/ Arrange(x) \/ Save(x) \/ Cancel(x) \/ Finish(x) \/ Fail(x)
  \/ Release(x) \/ FailRead(x) \/ FailRun(x) \/ FailSub(x) \/ Redue(x)

Next ==
  \/ \E x \in Proc, enabled \in BOOLEAN : UpdateArtistSubscription(x, enabled)
  \/ \E x \in Proc : RefreshArtistDirectory(x) \/ SyncArtistSubscription(x) \/ CheckDue(x)
  \/ \E x \in Proc : Execute(x) \/ Crash(x)
  \/ \E x \in Proc, r \in RunId : Deliver(x, r)
  \/ \E r \in RunId : LapseRun(r)
  \/ \E w \in Work : Discover(w)
  \/ LapseSub \/ FallDue

Spec == Init /\ [][Next]_vars

\* The clock runs, and the due check is scheduled every five minutes and gets
\* through; the workers promise nothing.
Fairness ==
  /\ WF_vars(LapseSub) /\ WF_vars(FallDue)
  /\ \A x \in Caller : WF_vars(CheckDue(x)) /\ WF_vars(Execute(x))

FairSpec == Spec /\ Fairness

-----------------------------------------------------------------------------
(***************************************************************************)
(* Correctness.                                                            *)
(***************************************************************************)
\* The reservation is the current revision's: a run of a subscription that has
\* been switched off, or off and on again, no longer holds it, and a run that
\* has succeeded has released it, so that the next scan is not refused.
ReservationIsCurrent ==
  /\ sub.active = NoRun <=> sub.lease = "none"
  /\ sub.active # NoRun =>
       /\ scan[sub.active].revision = sub.revision
       /\ scan[sub.active].download => sub.enabled
       /\ scan[sub.active].status \notin {"absent", "success"}

\* A download scan that succeeded has found every work of the catalogue backed
\* up, or has sent a mirror task for it, whichever attempts got how far.
SuccessArrangesAll ==
  \A r \in RunId : scan[r].status = "success" /\ scan[r].download
                     => \A w \in Listed : work[w].known /\ work[w].arranged

\* A scan that succeeded went through the whole catalogue: no page was skipped by
\* a crash, a retry or two workers on the same run, though a page's works are
\* indexed one by one and the cursor is saved after them
\* (docs/design/artist-subscriptions.md:161, and the acceptance table, line 240).
SuccessListsAll ==
  \A r \in RunId : scan[r].status = "success" => \A w \in Listed : work[w].seen # NoRun

\* A scan that succeeded has done both (service/pixez/artist_scan.go:209).
SuccessCoversAll == SuccessListsAll /\ SuccessArrangesAll

\* No late worker, failure report or subscription switch changes the outcome of
\* a scan that has succeeded.
SuccessIsFinal ==
  [][\A r \in RunId : scan[r].status = "success" => scan'[r].status = "success"]_vars

\* Whatever happens to the scan that reserved an enabled subscription, its
\* reservation ends: a crashed scan cannot keep the artist from being scanned.
\* (Of the last run within MaxRun nothing is said: no other can replace it.)
ReservationEnds ==
  \A r \in 1..(MaxRun - 1) :
    sub.active = r /\ sub.enabled ~> sub.active # r \/ ~sub.enabled
=============================================================================
