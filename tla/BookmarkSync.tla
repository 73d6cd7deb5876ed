---------------------------- MODULE BookmarkSync ----------------------------
(***************************************************************************)
(* The bookmarks of one Pixiv account, of one kind and one restrict: the   *)
(* export that copies the list Pixiv serves into the bookmark rows and     *)
(* marks what is gone as removed, and the automatic enqueueing that has a  *)
(* mirror made of every bookmark.                                          *)
(*                                                                         *)
(* Exports are tasks: the daily schedule, an administrator, and Asynq's    *)
(* retries may have several running at once.  The mirror tasks are those   *)
(* of MirrorWork, of which only the outcome is kept here.  The Pixiv user  *)
(* changes the list at any time, and an author may hide a work, which      *)
(* Pixiv then lists with a placeholder image.                              *)
(*                                                                         *)
(* One action is one statement on the database or one request to Pixiv.    *)
(* The export-run rows, which are only displayed, and the retry counter    *)
(* are left out.                                                           *)
(***************************************************************************)
EXTENDS Naturals, FiniteSets

CONSTANTS
  Work,      \* the works that may be bookmarked
  Exporter,  \* Asynq workers executing export tasks
  Feeder,    \* Asynq workers executing the automatic enqueueing
  Miner,     \* Asynq workers executing mirror tasks
  PageSize,  \* bookmarks per page of Pixiv's answer
  Limit      \* mirrors enqueued by one execution

ASSUME BookmarkConstantsOK ==
  /\ IsFiniteSet(Work)
  /\ PageSize \in Nat \ {0}
  /\ Limit \in Nat \ {0}

VARIABLES
  shelf,   \* the works that Pixiv lists as bookmarked
  hidden,  \* the works that Pixiv shows with a placeholder
  saved,   \* the pixiv_users row of the account exists
  row,     \* row[w]: the bookmark row of w
  export,  \* export[x]: what exporter x is executing
  feed,    \* feed[f]: what feeder f is executing
  queued,  \* the works a mirror task waits for
  mine,    \* mine[m]: the mirror task that m is executing
  backup   \* the works whose mirror is complete

vars == <<shelf, hidden, saved, row, export, feed, queued, mine, backup>>
pixiv == <<shelf, hidden>>
mirrors == <<feed, queued, mine, backup>>

-----------------------------------------------------------------------------
Row == [known : BOOLEAN, removed : BOOLEAN,
        stamp : SUBSET Exporter,    \* last_export_run_id, if that run is under way
        mirror : {"none", "processing", "done", "failed"}]

NoRow == [known |-> FALSE, removed |-> FALSE, stamp |-> {}, mirror |-> "none"]

Export == [pc : {"idle", "ready", "first", "fetch", "look", "write", "mark", "close"},
           older : SUBSET Work,     \* what next_url leads to: Pixiv's cursor
           last : BOOLEAN,          \* next_url = ''
           page : SUBSET Work,      \* works of the page that are left
           veiled : SUBSET Work,    \* those of them with a placeholder
           at : SUBSET Work,        \* the work being saved, if any
           found : {"no", "yes", "gone"},  \* its row was found; was deleted since
           steady : SUBSET Work]    \* history: listed and visible since the run began

IdleExport == [pc |-> "idle", older |-> {}, last |-> FALSE, page |-> {}, veiled |-> {},
               at |-> {}, found |-> "no", steady |-> {}]

Feed == [pc : {"idle", "dispatch", "note"}, todo : SUBSET Work, at : SUBSET Work,
         ids : SUBSET Work]         \* the candidates whose rows are still there
IdleFeed == [pc |-> "idle", todo |-> {}, at |-> {}, ids |-> {}]

Mine == [pc : {"idle", "check", "fill", "tell"}, at : SUBSET Work, ok : BOOLEAN]
IdleMine == [pc |-> "idle", at |-> {}, ok |-> FALSE]

TypeOK ==
  /\ shelf \subseteq Work /\ hidden \subseteq Work /\ saved \in BOOLEAN
  /\ row \in [Work -> Row]
  /\ export \in [Exporter -> Export]
  /\ feed \in [Feeder -> Feed]
  /\ queued \subseteq Work /\ backup \subseteq Work
  /\ mine \in [Miner -> Mine]

-----------------------------------------------------------------------------
Active(w) == row[w].known /\ ~row[w].removed

\* What the automatic enqueueing looks for.
Candidate(w) == Active(w) /\ row[w].mirror \in {"none", "failed"}

\* The sets of n members of S, or S if it has fewer.
Batches(n, S) == {B \in SUBSET S : Cardinality(B) = IF Cardinality(S) < n THEN Cardinality(S) ELSE n}

GoExport(x, e) == export' = [export EXCEPT ![x] = e]
GoFeed(f, e)   == feed' = [feed EXCEPT ![f] = e]
GoMine(m, e)   == mine' = [mine EXCEPT ![m] = e]

\* What follows the works of a page.
Turn(e) == IF e.page # {} THEN "look" ELSE IF e.last THEN "mark" ELSE "fetch"

-----------------------------------------------------------------------------
(***************************************************************************)
(* Mutated forms of some of the actions below.  They are no part of the    *)
(* specification: each shows that a property notices the bug it names.     *)
(***************************************************************************)
\* A row that is active already is left as it is.
WriteChangedOnly(x) ==
  LET e == export[x]
      Saved(w) == [row[w] EXCEPT !.known = TRUE, !.removed = w \in e.veiled, !.stamp = {x}]
  IN /\ e.pc = "write"
     /\ \E w \in e.at :
          row' = IF e.found = "gone" \/ (e.found = "yes" /\ row[w].removed = (w \in e.veiled))
                 THEN row ELSE [row EXCEPT ![w] = Saved(w)]
     /\ GoExport(x, [e EXCEPT !.pc = Turn(e), !.at = {}])
     /\ UNCHANGED <<pixiv, saved, mirrors>>

\* A bookmark that was removed stays so.
WriteKeepsRemoved(x) ==
  LET e == export[x]
      Saved(w) == [row[w] EXCEPT !.known = TRUE, !.removed = @ \/ w \in e.veiled, !.stamp = {x}]
  IN /\ e.pc = "write"
     /\ \E w \in e.at :
          row' = IF e.found = "gone" THEN row ELSE [row EXCEPT ![w] = Saved(w)]
     /\ GoExport(x, [e EXCEPT !.pc = Turn(e), !.at = {}])
     /\ UNCHANGED <<pixiv, saved, mirrors>>

\* All runs of an account have one id.
StartReusesRun(x) ==
  /\ export[x].pc = "ready"
  /\ GoExport(x, [IdleExport EXCEPT !.pc = "first", !.steady = shelf \ hidden])
  /\ UNCHANGED <<pixiv, saved, row, mirrors>>

\* Only bookmarks that were never mirrored are looked for.
LoadNever(f) ==
  /\ feed[f].pc = "idle"
  /\ \E B \in Batches(Limit, {w \in Work : Candidate(w) /\ row[w].mirror = "none"}) :
       B # {} /\ GoFeed(f, [IdleFeed EXCEPT !.pc = "dispatch", !.todo = B, !.ids = B])
  /\ UNCHANGED <<pixiv, saved, row, export, queued, mine, backup>>

-----------------------------------------------------------------------------
Init ==
  /\ shelf = {} /\ hidden = {} /\ saved = TRUE
  /\ row = [w \in Work |-> NoRow]
  /\ export = [x \in Exporter |-> IdleExport]
  /\ feed = [f \in Feeder |-> IdleFeed]
  /\ queued = {} /\ backup = {}
  /\ mine = [m \in Miner |-> IdleMine]

\* The Pixiv user bookmarks a work: it becomes the newest of the list, ahead of
\* every cursor.
Bookmark(w) ==
  /\ w \notin shelf
  /\ shelf' = shelf \cup {w}
  /\ UNCHANGED <<hidden, saved, row, export, mirrors>>

Unbookmark(w) ==
  /\ w \in shelf
  /\ shelf' = shelf \ {w}
  /\ export' = [x \in Exporter |-> [export[x] EXCEPT !.older = @ \ {w}, !.steady = @ \ {w}]]
  /\ UNCHANGED <<hidden, saved, row, mirrors>>

\* The author hides a work, and shows it again.
Hide(w) ==
  /\ w \notin hidden
  /\ hidden' = hidden \cup {w}
  /\ export' = [x \in Exporter |-> [export[x] EXCEPT !.steady = @ \ {w}]]
  /\ UNCHANGED <<shelf, saved, row, mirrors>>

Show(w) ==
  /\ w \in hidden
  /\ hidden' = hidden \ {w}
  /\ UNCHANGED <<shelf, saved, row, export, mirrors>>

\* The account is saved; DeleteUser removes it, if it is there, and its bookmark
\* rows, so that the row ids that tasks hold lead nowhere.
SaveUser ==
  /\ ~saved
  /\ saved' = TRUE
  /\ UNCHANGED <<pixiv, row, export, mirrors>>

DeleteUser ==
  /\ saved' = FALSE
  /\ row' = [w \in Work |-> NoRow]
  /\ export' = [x \in Exporter |-> [export[x] EXCEPT !.found = IF @ = "yes" THEN "gone" ELSE @]]
  /\ feed' = [f \in Feeder |-> [feed[f] EXCEPT !.ids = {}]]
  /\ UNCHANGED <<pixiv, queued, mine, backup>>

-----------------------------------------------------------------------------
\* exportUsers: the task finds the account among the saved ones; other accounts and
\* the other restrict may come first.
ReadUser(x) ==
  /\ saved /\ export[x].pc = "idle"
  /\ GoExport(x, [IdleExport EXCEPT !.pc = "ready"])
  /\ UNCHANGED <<pixiv, saved, row, mirrors>>

\* exportIllustRestrict, exportNovelRestrict: a new run, whose id no row carries.
Start(x) ==
  /\ export[x].pc = "ready"
  /\ GoExport(x, [IdleExport EXCEPT !.pc = "first", !.steady = shelf \ hidden])
  /\ row' = [w \in Work |-> [row[w] EXCEPT !.stamp = @ \ {x}]]
  /\ UNCHANGED <<pixiv, saved, mirrors>>

\* GetBookmark{Illusts,Novels}: the newest bookmarks, or those next_url leads to.
Fetch(x) ==
  LET e == export[x]
      rest == IF e.pc = "first" THEN shelf ELSE e.older
  IN /\ e.pc \in {"first", "fetch"}
     /\ \E page \in Batches(PageSize, rest) :
          LET got == [e EXCEPT !.page = page, !.veiled = page \cap hidden,
                               !.older = rest \ page, !.last = (rest = page)]
          IN GoExport(x, [got EXCEPT !.pc = Turn(got)])
     /\ UNCHANGED <<pixiv, saved, row, mirrors>>

\* upsertBookmark{Illust,Novel} and markBookmark{Illust,Novel}Removed look the
\* row of a work up ...
Look(x) ==
  LET e == export[x]
  IN /\ e.pc = "look"
     /\ \E w \in e.page :
          GoExport(x, [e EXCEPT !.pc = "write", !.page = @ \ {w}, !.at = {w},
                                !.found = IF row[w].known THEN "yes" ELSE "no"])
     /\ UNCHANGED <<pixiv, saved, row, mirrors>>

\* ... and update it by its id, or create it.  The update of a row that was
\* deleted meanwhile changes nothing; the creation of one that exists fails.
Write(x) ==
  LET e == export[x]
      Saved(w) == [row[w] EXCEPT !.known = TRUE, !.removed = w \in e.veiled, !.stamp = {x}]
  IN /\ e.pc = "write"
     /\ \E w \in e.at :
          \/ /\ e.found = "yes" \/ (e.found = "no" /\ ~row[w].known)
             /\ row' = [row EXCEPT ![w] = Saved(w)]
             /\ GoExport(x, [e EXCEPT !.pc = Turn(e), !.at = {}])
          \/ /\ e.found = "gone"
             /\ GoExport(x, [e EXCEPT !.pc = Turn(e), !.at = {}]) /\ UNCHANGED row
          \/ /\ e.found = "no" /\ row[w].known
             /\ GoExport(x, IdleExport) /\ UNCHANGED row
     /\ UNCHANGED <<pixiv, saved, mirrors>>

\* markMissing{Illust,Novel}BookmarksRemoved.
MarkMissing(x) ==
  /\ export[x].pc = "mark"
  /\ row' = [w \in Work |-> [row[w] EXCEPT
               !.removed = @ \/ (row[w].known /\ row[w].stamp # {x})]]
  /\ GoExport(x, [export[x] EXCEPT !.pc = "close"])
  /\ UNCHANGED <<pixiv, saved, mirrors>>

\* markBookmarkRunSuccess.
CloseRun(x) ==
  /\ export[x].pc = "close"
  /\ GoExport(x, IdleExport)
  /\ UNCHANGED <<pixiv, saved, row, mirrors>>

\* Pixiv or the database fails (markBookmarkRunFailed), or the process dies.
FailExport(x) ==
  /\ export[x].pc # "idle"
  /\ GoExport(x, IdleExport)
  /\ UNCHANGED <<pixiv, saved, row, mirrors>>

-----------------------------------------------------------------------------
\* loadBookmarkMirrorCandidates.
Load(f) ==
  /\ feed[f].pc = "idle"
  /\ \E B \in Batches(Limit, {w \in Work : Candidate(w)}) :
       B # {} /\ GoFeed(f, [IdleFeed EXCEPT !.pc = "dispatch", !.todo = B, !.ids = B])
  /\ UNCHANGED <<pixiv, saved, row, export, queued, mine, backup>>

\* DispatchTask and EnsureMirror*Queued, for the next candidate ...
Dispatch(f, w) ==
  /\ feed[f].pc = "dispatch" /\ w \in feed[f].todo
  /\ queued' = queued \cup {w}
  /\ GoFeed(f, [feed[f] EXCEPT !.pc = "note", !.todo = @ \ {w}, !.at = {w}])
  /\ UNCHANGED <<pixiv, saved, row, export, mine, backup>>

\* ... and the status of its bookmark, whatever became of the task meanwhile.
Note(f) ==
  LET e == feed[f]
  IN /\ e.pc = "note"
     /\ row' = [w \in Work |-> IF w \in e.at \cap e.ids
                               THEN [row[w] EXCEPT !.mirror = "processing"] ELSE row[w]]
     /\ GoFeed(f, IF e.todo = {} THEN IdleFeed ELSE [e EXCEPT !.pc = "dispatch", !.at = {}])
     /\ UNCHANGED <<pixiv, saved, export, queued, mine, backup>>

\* An error ends the execution, as the death of the process does.
FailFeed(f) ==
  /\ feed[f].pc # "idle"
  /\ GoFeed(f, IdleFeed)
  /\ UNCHANGED <<pixiv, saved, row, export, queued, mine, backup>>

-----------------------------------------------------------------------------
\* A mirror is asked for by hand, or by an artist subscription; whether one is
\* needed was read before and may have changed.
Request(w) ==
  /\ w \notin queued
  /\ queued' = queued \cup {w}
  /\ UNCHANGED <<pixiv, saved, row, export, feed, mine, backup>>

\* The user deletes a mirror; its bookmark is not told.
DeleteMirror(w) ==
  /\ w \in backup
  /\ backup' = backup \ {w}
  /\ UNCHANGED <<pixiv, saved, row, export, feed, queued, mine>>

\* Asynq hands a mirror task over.
Take(m, w) ==
  /\ mine[m].pc = "idle" /\ w \in queued
  /\ queued' = queued \ {w}
  /\ GoMine(m, [IdleMine EXCEPT !.pc = "check", !.at = {w}])
  /\ UNCHANGED <<pixiv, saved, row, export, feed, backup>>

\* MirrorNeedsWork and the claim: a work that is complete, or that another worker
\* fills, ends the task as a success.
Check(m) ==
  LET t == mine[m]
      busy == \E n \in Miner \ {m} : mine[n].pc \in {"fill", "tell"} /\ mine[n].at = t.at
  IN /\ t.pc = "check"
     /\ GoMine(m, IF busy \/ t.at \subseteq backup THEN IdleMine ELSE [t EXCEPT !.pc = "fill"])
     /\ UNCHANGED <<pixiv, saved, row, export, feed, queued, backup>>

\* fillMirror{Illust,Novel}: the mirror is complete, or some image was missed ...
Fill(m) ==
  /\ mine[m].pc = "fill"
  /\ \/ backup' = backup \cup mine[m].at /\ GoMine(m, [mine[m] EXCEPT !.pc = "tell", !.ok = TRUE])
     \/ UNCHANGED backup /\ GoMine(m, [mine[m] EXCEPT !.pc = "tell"])
  /\ UNCHANGED <<pixiv, saved, row, export, feed, queued>>

\* ... and then updateBookmarkMirrorStatus; an incomplete mirror is an error of
\* the task, which Asynq retries for a while.
Tell(m) ==
  LET t == mine[m]
  IN /\ t.pc = "tell"
     /\ row' = [w \in Work |-> IF w \in t.at /\ row[w].known
                  THEN [row[w] EXCEPT !.mirror = IF t.ok THEN "done" ELSE "failed"] ELSE row[w]]
     /\ GoMine(m, IdleMine)
     /\ queued' \in {queued, IF t.ok THEN queued ELSE queued \cup t.at}
     /\ UNCHANGED <<pixiv, saved, export, feed, backup>>

\* Any other error, or the death of the process: the task is retried, unless it
\* was the last attempt.
FailMine(m) ==
  /\ mine[m].pc # "idle"
  /\ GoMine(m, IdleMine)
  /\ queued' \in {queued, queued \cup mine[m].at}
  /\ UNCHANGED <<pixiv, saved, row, export, feed, backup>>

-----------------------------------------------------------------------------
ExportStep(x) == Start(x) \/ Fetch(x) \/ Look(x) \/ Write(x) \/ MarkMissing(x) \/ CloseRun(x)
MineStep(m)   == (\E w \in Work : Take(m, w)) \/ Check(m) \/ Fill(m) \/ Tell(m)

Next ==
  \/ \E w \in Work : \/ Bookmark(w) \/ Unbookmark(w) \/ Hide(w) \/ Show(w)
                     \/ Request(w) \/ DeleteMirror(w)
  \/ SaveUser \/ DeleteUser
  \/ \E x \in Exporter : ReadUser(x) \/ ExportStep(x) \/ FailExport(x)
  \/ \E f \in Feeder : Load(f) \/ (\E w \in Work : Dispatch(f, w)) \/ Note(f) \/ FailFeed(f)
  \/ \E m \in Miner : MineStep(m) \/ FailMine(m)

Spec == Init /\ [][Next]_vars

\* The schedule starts exports and the automatic enqueueing again and again
\* (cron, daily and every ten minutes); a task once taken goes on, unless it
\* fails; the queue does not refuse a work for ever.
Fairness ==
  /\ \A x \in Exporter : WF_vars(ReadUser(x)) /\ WF_vars(ExportStep(x))
  /\ \A f \in Feeder : WF_vars(Load(f)) /\ WF_vars(Note(f))
  /\ \A f \in Feeder, w \in Work : SF_vars(Dispatch(f, w))
  /\ \A m \in Miner : WF_vars(MineStep(m))

FairSpec == Spec /\ Fairness

-----------------------------------------------------------------------------
(***************************************************************************)
(* Correctness.                                                            *)
(***************************************************************************)
\* No export hides a bookmark that Pixiv has listed, and shown, ever since that
\* export began, also not one that fails on the way or saves its pages while the
\* list changes (docs/design/pixez-server-wavelet.md:273, 274; README.md:175).
SteadyIsKept ==
  [][\A x \in Exporter : \A w \in export[x].steady :
       export[x].pc = "mark" /\ export'[x].pc = "close" /\ Active(w) => ~row'[w].removed]_vars

\* Why it holds of an export that runs alone: what Pixiv has listed all along is
\* still to come, or is being saved, or carries the stamp of the run (its row may
\* have been deleted with the account).
CursorOK ==
  \A x \in Exporter :
    LET e == export[x]
    IN /\ e.pc = "fetch" => e.page = {}
       /\ e.pc \in {"first", "fetch", "look"} => e.at = {}
       /\ e.pc = "write" => \E w \in Work : e.at = {w} /\ (e.found = "gone" => ~row[w].known)
       /\ e.pc \in {"look", "write"} /\ e.last => e.older = {}
       /\ e.pc = "mark" => e.older \cup e.page \cup e.at = {}

SteadyOK ==
  \A x \in Exporter : export[x].pc \notin {"idle", "ready", "close"} =>
    /\ export[x].steady \subseteq shelf
    /\ export[x].pc # "first" =>
         \A w \in export[x].steady :
           \/ w \in export[x].older \cup export[x].page \cup export[x].at
           \/ Active(w) => row[w].stamp = {x}

Inv == TypeOK /\ CursorOK /\ SteadyOK

\* The rows follow the list: if exports of the account keep coming to their end,
\* a work that stays bookmarked and visible is shown at last, and stays shown ...
ListedIsShown ==
  \A w \in Work :
    /\ <>[](saved /\ w \in shelf \ hidden)
    /\ \A x \in Exporter : []<>(export[x].pc = "close")
    => <>[]Active(w)

\* ... and one that stays off the list is not, though a page fetched before it
\* was taken off may be saved late.
GoneIsRemoved ==
  \A w \in Work :
    /\ <>[](w \notin shelf)
    /\ \A x \in Exporter : []<>(export[x].pc = "close")
    => <>[]~Active(w)

\* A bookmark that was never mirrored, or whose mirror was reported as failed, is
\* sent to the mirror queue.
CandidateIsOffered ==
  \A w \in Work : Candidate(w) ~> w \in queued \/ ~Candidate(w)
=============================================================================
