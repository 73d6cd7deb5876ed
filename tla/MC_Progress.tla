----------------------------- MODULE MC_Progress -----------------------------
(***************************************************************************)
(* What must come to be, checked in one run: the bookmark rows that follow *)
(* the list Pixiv serves, the bookmarks that are sent to the mirror queue, *)
(* and the worker that waits for a mirror slot.  BookmarkSync is taken     *)
(* twice, once with an export and two works, once with an export, the      *)
(* automatic enqueueing and a mirror worker for one work; MirrorWork once, *)
(* with two novels and one slot.  They share no state: the first state     *)
(* picks the one that takes the steps.                                     *)
(***************************************************************************)
EXTENDS BookmarkSync

CONSTANTS w1, x1, f1, m1, n1, n2, h1, y1, y2, NoWork, NoFile, Inline

VARIABLES bShelf, bHidden, bSaved, bRow, bExport, bFeed, bQueued, bMine, bBackup,
          gRow, gUpload, gRun, gNextToken, gDeletion,
          focus

B == INSTANCE BookmarkSync WITH
       Work <- {w1}, Exporter <- {x1}, Feeder <- {f1}, Miner <- {m1},
       PageSize <- 1, Limit <- 1,
       shelf <- bShelf, hidden <- bHidden, saved <- bSaved, row <- bRow,
       export <- bExport, feed <- bFeed, queued <- bQueued, mine <- bMine,
       backup <- bBackup

G == INSTANCE MirrorWork WITH
       Work <- {n1, n2}, Novel <- {n1, n2}, PageCount <- [w \in {n1, n2} |-> 1],
       Hash <- {h1}, Served <- [w \in {n1, n2} |-> [p \in {1} |-> {h1}]],
       UploadId <- {}, Worker <- {y1, y2}, ReadsMayFail <- FALSE,
       Limit <- 1, MaxToken <- 1,
       row <- gRow, upload <- gUpload, run <- gRun, nextToken <- gNextToken,
       deletion <- gDeletion

mirrorVars == <<bShelf, bHidden, bSaved, bRow, bExport, bFeed, bQueued, bMine, bBackup>>
gateVars   == <<gRow, gUpload, gRun, gNextToken, gDeletion>>
allVars    == <<vars, mirrorVars, gateVars, focus>>

InExport == focus = "export" /\ UNCHANGED <<mirrorVars, gateVars, focus>>
InMirror == focus = "mirror" /\ UNCHANGED <<vars, gateVars, focus>>
InGate   == focus = "gate"   /\ UNCHANGED <<vars, mirrorVars, focus>>

SuiteInit ==
  /\ Init /\ B!Init /\ G!Init
  /\ focus \in {"export", "mirror", "gate"}

SuiteNext ==
  \/ InExport /\ Next
  \/ InMirror /\ B!Next
  \/ InGate   /\ G!Next

\* The fairness of the two modules, each within its own steps.
SuiteFairness ==
  /\ \A x \in Exporter : /\ WF_allVars(InExport /\ ReadUser(x))
                         /\ WF_allVars(InExport /\ ExportStep(x))
  /\ WF_allVars(InMirror /\ B!ReadUser(x1))
  /\ WF_allVars(InMirror /\ B!ExportStep(x1))
  /\ WF_allVars(InMirror /\ B!Load(f1))
  /\ WF_allVars(InMirror /\ B!Note(f1))
  /\ SF_allVars(InMirror /\ B!Dispatch(f1, w1))
  /\ \A m \in {m1} : WF_allVars(InMirror /\ B!MineStep(m))
  /\ \A y \in {y1, y2} : WF_allVars(InGate /\ G!PassGate(y))
  /\ \A n \in {n1, n2} : WF_allVars(InGate /\ G!Age(n))
SuiteSpec == SuiteInit /\ [][SuiteNext]_allVars /\ SuiteFairness

\* BookmarkSync's, where mirrors are made: a bookmark that was never mirrored, or
\* whose mirror was reported as failed, is sent to the mirror queue
\* (src/internal/apps/pixez/tasks.go:437).
EveryCandidateIsOffered == B!CandidateIsOffered

\* MirrorWork's: a worker that waits for a slot gets one
\* (src/internal/service/pixez/mirror.go:565).
SlotIsGranted == G!SlotIsGranted
=============================================================================
