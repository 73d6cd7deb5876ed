--------------------------- MODULE ArtistScanProofs ---------------------------
(***************************************************************************)
(* Proofs about ArtistScan for every catalogue, every number of workers    *)
(* and callers, and every bound on runs, deliveries and switches.          *)
(***************************************************************************)
EXTENDS ArtistScan, TLAPS

\* What the success of run r asks of work w.
Covered(r, w) == /\ work[w].known /\ work[w].seen # NoRun
                 /\ scan[r].download => work[w].arranged

\* Every work on the pages before c.
UpTo(r, c) == \A i \in 1..Len(Catalogue) : i < c => \A w \in Catalogue[i] : Covered(r, w)

\* A page is being gone through: the works no longer in todo are covered, but for
\* the one that is being arranged.
InPage(p) == p.pc \in {"index", "arrange", "save"} \/ (p.pc \in {"renewrun", "renewsub"} /\ p.at # {})
PageOK(p) ==
  \A w \in Catalogue[p.cursor] :
    w \notin p.todo => /\ work[w].known /\ work[w].seen # NoRun
                       /\ scan[p.run].download /\ w \notin p.at => work[w].arranged

Paging == {"renewrun", "renewsub", "fetch", "index", "arrange", "save"}

ProcOK(x) ==
  LET p == proc[x]
  IN /\ p.pc \notin {"idle", "initial"} =>
          p.run \in RunId /\ scan[p.run].status # "absent" /\ p.try <= scan[p.run].tries
     /\ p.pc \in {"idle", "initial"} => p.try = NoTry
     /\ p.pc \in Scanning \cup {"read", "claim"} => p.try >= 1
     /\ p.pc \in Paging => p.cursor < End
     /\ p.pc = "finish" => p.cursor = End
     /\ p.pc \in Scanning \cup {"claim"} => UpTo(p.run, p.cursor)
     /\ InPage(p) => PageOK(p)
     /\ p.at = {} \/ \E w \in Work : p.at = {w}
     /\ p.pc = "arrange" => p.at # {}
     /\ p.pc \notin {"renewrun", "renewsub", "arrange", "cancel"} => p.at = {}
     /\ p.pc \in {"save", "read", "claim", "account"} => p.todo = {}
     /\ p.pc \in {"renewrun", "renewsub"} /\ p.at = {} => p.todo = {}

ProcsOK == \A x \in Proc : ProcOK(x)

\* Two deliveries never go by one token, and what was not dispatched is not delivered.
TokensOK ==
  /\ \A r \in RunId : scan[r].sent => scan[r].status # "absent"
  /\ \A x, y \in Proc :
       x # y /\ proc[x].run = proc[y].run /\ proc[x].try = proc[y].try => proc[x].try = NoTry

\* Nobody scans for a run that has succeeded and still owns it.
SettledOK ==
  \A x \in Proc :
    proc[x].pc \in Scanning /\ scan[proc[x].run].status = "success" => ~Owns(x)

ScansOK == \A r \in RunId : UpTo(r, scan[r].cursor)

SuccessOK == \A r \in RunId : scan[r].status = "success" => UpTo(r, End)

IInv == /\ TypeOK /\ ProcsOK /\ TokensOK /\ SettledOK /\ ScansOK /\ SuccessOK
        /\ ReservationIsCurrent

-----------------------------------------------------------------------------
(***************************************************************************)
(* What all steps keep.                                                    *)
(***************************************************************************)
Grows ==
  \A w \in Work : /\ work[w].known => work'[w].known
                  /\ work[w].seen # NoRun => work'[w].seen # NoRun
                  /\ work[w].arranged => work'[w].arranged

RunsKept ==
  \A r \in RunId : scan[r].status # "absent" =>
    /\ scan'[r].status # "absent" /\ scan'[r].download = scan[r].download
    /\ scan'[r].revision = scan[r].revision /\ scan[r].tries <= scan'[r].tries

LEMMA Pages == /\ Len(Catalogue) \in Nat /\ End \in Nat /\ End >= 1
               /\ \A i \in 1..Len(Catalogue) : Catalogue[i] \subseteq Work
               /\ \A i \in 1..End : i < End => i \in 1..Len(Catalogue)
               /\ MaxRun \in Nat /\ MaxTries \in Nat
               /\ NoRun \notin RunId
  BY ScanConstantsOK DEF ScanConstantsOK, End, NoRun, RunId

LEMMA BecomeTyped ==
  ASSUME TypeOK, NEW x \in Proc, NEW p \in Local, Become(x, p)
  PROVE  /\ proc' \in [Proc -> Local] /\ proc'[x] = p
         /\ \A y \in Proc : y # x => proc'[y] = proc[y]
  BY DEF TypeOK, Become

LEMMA LocalTyped ==
  ASSUME TypeOK, NEW x \in Proc
  PROVE  /\ proc[x] \in Local
         /\ proc[x].pc \in PC /\ proc[x].run \in RunId \cup {NoRun} /\ proc[x].try \in 0..MaxTries
         /\ proc[x].final \in BOOLEAN /\ proc[x].cursor \in 1..End /\ proc[x].account \in BOOLEAN
         /\ proc[x].todo \in SUBSET Work /\ proc[x].at \in SUBSET Work /\ proc[x].err \in BOOLEAN
<1>1. proc[x] \in Local
  BY DEF TypeOK
<1> QED BY <1>1 DEF Local

LEMMA ScanTyped ==
  ASSUME TypeOK, NEW r \in RunId
  PROVE  /\ scan[r] \in Scan /\ scan[r].download \in BOOLEAN /\ scan[r].revision \in Nat
         /\ scan[r].token \in 0..MaxTries /\ scan[r].cursor \in 1..End /\ scan[r].tries \in 0..MaxTries
<1>1. scan[r] \in Scan
  BY DEF TypeOK
<1> QED BY <1>1 DEF Scan

LEMMA ScanTypedNext == ASSUME TypeOK', NEW r \in RunId PROVE scan'[r].tries \in 0..MaxTries
<1>1. scan'[r] \in Scan
  BY DEF TypeOK
<1> QED BY <1>1 DEF Scan

LEMMA IdleTyped == Idle \in Local
  BY Pages DEF Idle, Local, PC, NoRun, NoTry

\* Covered works stay covered.
LEMMA UpToKept ==
  ASSUME Grows, NEW r \in RunId, scan'[r].download = scan[r].download
  PROVE  \A c \in 1..End : UpTo(r, c) => UpTo(r, c)'
  BY Pages DEF UpTo, Covered, Grows

LEMMA UpToFirst == ASSUME NEW r PROVE UpTo(r, 1)
  BY Pages DEF UpTo

LEMMA PageKept ==
  ASSUME TypeOK, NEW x \in Proc, proc[x].run \in RunId, Grows,
         proc'[x].run = proc[x].run, proc'[x].cursor = proc[x].cursor,
         proc'[x].todo = proc[x].todo, proc'[x].at = proc[x].at,
         scan'[proc[x].run].download = scan[proc[x].run].download,
         proc[x].cursor < End, PageOK(proc[x])
  PROVE  PageOK(proc[x])'
  BY Pages, LocalTyped DEF PageOK, Grows

LEMMA ProcKept ==
  ASSUME TypeOK, TypeOK', NEW x \in Proc, ProcOK(x), proc'[x] = proc[x], Grows, RunsKept
  PROVE  ProcOK(x)'
<1> DEFINE p == proc[x]
<1>t. p \in Local /\ p.cursor \in 1..End
  BY LocalTyped
<1>r. p.pc \notin {"idle", "initial"} =>
        /\ p.run \in RunId /\ scan'[p.run].status # "absent" /\ scan[p.run].tries <= scan'[p.run].tries
        /\ scan'[p.run].download = scan[p.run].download
  BY DEF ProcOK, RunsKept
<1>1. p.pc \notin {"idle", "initial"} =>
        /\ p.run \in RunId /\ scan'[p.run].status # "absent" /\ p.try <= scan'[p.run].tries
  <2> SUFFICES ASSUME p.pc \notin {"idle", "initial"} PROVE p.try <= scan'[p.run].tries
    BY <1>r
  <2>1. p.try <= scan[p.run].tries /\ p.run \in RunId /\ scan[p.run].tries <= scan'[p.run].tries
    BY <1>r DEF ProcOK
  <2>2. p.try \in Nat /\ scan[p.run].tries \in Nat /\ scan'[p.run].tries \in Nat
    BY <2>1, LocalTyped, ScanTyped, ScanTypedNext, Pages
  <2> QED BY <2>1, <2>2
<1>2. p.pc \in Scanning \cup {"claim"} => UpTo(proc[x].run, proc[x].cursor)'
  <2> SUFFICES ASSUME p.pc \in Scanning \cup {"claim"} PROVE UpTo(proc[x].run, proc[x].cursor)'
    OBVIOUS
  <2>1. p.run \in RunId /\ scan'[p.run].download = scan[p.run].download /\ UpTo(p.run, p.cursor)
    BY <1>r DEF ProcOK, Scanning
  <2> QED BY <2>1, <1>t, UpToKept
<1>3. InPage(p) => PageOK(proc[x])'
  <2> SUFFICES ASSUME InPage(p) PROVE PageOK(proc[x])'
    OBVIOUS
  <2>1. p.pc \in Paging /\ p.pc \notin {"idle", "initial"}
    BY DEF InPage, Paging
  <2>2. p.cursor < End /\ PageOK(p)
    BY <2>1 DEF ProcOK
  <2> QED BY <2>1, <2>2, <1>r, PageKept
<1>4. /\ p.pc \in {"idle", "initial"} => p.try = NoTry
      /\ p.pc \in Scanning \cup {"read", "claim"} => p.try >= 1
      /\ p.pc \in Paging => p.cursor < End
      /\ p.pc = "finish" => p.cursor = End
      /\ p.at = {} \/ \E w \in Work : p.at = {w}
      /\ p.pc = "arrange" => p.at # {}
      /\ p.pc \notin {"renewrun", "renewsub", "arrange", "cancel"} => p.at = {}
      /\ p.pc \in {"save", "read", "claim", "account"} => p.todo = {}
      /\ p.pc \in {"renewrun", "renewsub"} /\ p.at = {} => p.todo = {}
  BY DEF ProcOK
<1>5. (InPage(proc[x])' => InPage(p)) /\ proc'[x] = p
  BY DEF InPage
<1> HIDE DEF p
<1> QED BY <1>1, <1>2, <1>3, <1>4, <1>5 DEF ProcOK

-----------------------------------------------------------------------------
(***************************************************************************)
(* How a process moves on.                                                 *)
(***************************************************************************)
LEMMA GotoLocal ==
  ASSUME TypeOK, NEW x \in Proc, NEW pc \in PC, Goto(x, pc)
  PROVE  /\ proc' \in [Proc -> Local] /\ proc'[x].pc = pc
         /\ proc'[x].run = proc[x].run /\ proc'[x].try = proc[x].try
         /\ proc'[x].cursor = proc[x].cursor /\ proc'[x].todo = proc[x].todo
         /\ proc'[x].at = proc[x].at
         /\ \A y \in Proc : y # x => proc'[y] = proc[y]
<1>1. [proc[x] EXCEPT !.pc = pc] \in Local
  BY LocalTyped DEF Local
<1> QED BY <1>1, BecomeTyped, LocalTyped DEF Goto, Local

LEMMA LeaveLocal ==
  ASSUME TypeOK, NEW x \in Proc, Leave(x)
  PROVE  /\ proc' \in [Proc -> Local] /\ proc'[x] = Idle
         /\ \A y \in Proc : y # x => proc'[y] = proc[y]
  BY IdleTyped, BecomeTyped DEF Leave

LEMMA ReturnLocal ==
  ASSUME TypeOK, NEW x \in Proc, NEW err \in BOOLEAN, Return(x, err)
  PROVE  /\ proc' \in [Proc -> Local] /\ proc'[x].pc = "release"
         /\ proc'[x].run = proc[x].run /\ proc'[x].try = proc[x].try /\ proc'[x].at = {}
         /\ \A y \in Proc : y # x => proc'[y] = proc[y]
<1> DEFINE q == [Idle EXCEPT !.pc = "release", !.run = proc[x].run, !.try = proc[x].try, !.err = err]
<1>1. q \in Local
  BY LocalTyped, IdleTyped DEF Local, PC
<1>2. q.pc = "release" /\ q.run = proc[x].run /\ q.try = proc[x].try /\ q.at = {}
  BY DEF Idle
<1> HIDE DEF q
<1>3. Become(x, q)
  BY DEF Return, q
<1> QED BY <1>1, <1>2, <1>3, BecomeTyped

LEMMA ReportLocal ==
  ASSUME TypeOK, NEW x \in Proc, Report(x)
  PROVE  /\ proc' \in [Proc -> Local] /\ proc'[x].pc = "failread"
         /\ proc'[x].run = proc[x].run /\ proc'[x].try = NoTry /\ proc'[x].at = {}
         /\ \A y \in Proc : y # x => proc'[y] = proc[y]
<1> DEFINE q == [Idle EXCEPT !.pc = "failread", !.run = proc[x].run]
<1>1. q \in Local
  BY LocalTyped, IdleTyped DEF Local, PC
<1>2. q.pc = "failread" /\ q.run = proc[x].run /\ q.try = NoTry /\ q.at = {}
  BY DEF Idle
<1> HIDE DEF q
<1>3. Become(x, q)
  BY DEF Report, q
<1> QED BY <1>1, <1>2, <1>3, BecomeTyped

LEMMA ScanWrite ==
  ASSUME TypeOK, NEW r \in RunId, NEW s \in Scan, scan' = [scan EXCEPT ![r] = s]
  PROVE  /\ scan' \in [RunId -> Scan] /\ scan'[r] = s
         /\ \A q \in RunId : q # r => scan'[q] = scan[q]
  BY DEF TypeOK

\* Outside of the scan proper little is known of a process.
LEMMA PlainOK ==
  ASSUME NEW x \in Proc, proc'[x].at = {}, proc'[x].run \in RunId,
         proc'[x].pc \notin Scanning \cup {"read", "claim", "idle", "initial"},
         scan'[proc'[x].run].status # "absent", proc'[x].try <= scan'[proc'[x].run].tries
  PROVE  ProcOK(x)'
  BY DEF ProcOK, InPage, Paging, Scanning

LEMMA IdleOK == ASSUME NEW x \in Proc, proc'[x] = Idle PROVE ProcOK(x)'
  BY DEF ProcOK, InPage, Paging, Scanning, Idle

-----------------------------------------------------------------------------
(***************************************************************************)
(* Steps that let the outcome of every run be, and take no token.          *)
(***************************************************************************)
\* The run has gone through the catalogue, has released the subscription, and no
\* worker is left that scans for it.
Concluded(r) ==
  /\ UpTo(r, End) /\ sub'.active # r /\ scan'[r].download = scan[r].download
  /\ \A y \in Proc : proc'[y].pc \in Scanning /\ proc'[y].run = r => proc'[y].try # scan'[r].token

QuietScans ==
  \A r \in RunId :
    /\ scan[r].status # "absent" =>
         /\ scan'[r].status # "absent" /\ scan'[r].download = scan[r].download
         /\ scan'[r].revision = scan[r].revision /\ scan[r].tries <= scan'[r].tries
    /\ \/ scan'[r].cursor = 1
       \/ scan'[r].cursor = scan[r].cursor /\ scan'[r].download = scan[r].download
       \/ /\ scan'[r].cursor \in 1..End /\ UpTo(r, scan'[r].cursor)
          /\ scan'[r].download = scan[r].download
    /\ scan[r].status = "success" => scan'[r].status = "success"
    /\ scan'[r].status = "success" => scan[r].status = "success" \/ Concluded(r)
    /\ scan'[r].token \in {scan[r].token, NoTry} \/ scan'[r].status # "success"
    /\ scan'[r].sent => scan[r].sent \/ scan'[r].status # "absent"

Settled == \A r \in RunId : scan[r].status = "success" => scan'[r].status = "success"

SubKept ==
  /\ sub'.enabled = sub.enabled /\ sub'.revision = sub.revision
  /\ \/ sub'.active = sub.active /\ (sub'.lease = "none" <=> sub.lease = "none")
     \/ sub'.active = NoRun /\ sub'.lease = "none"

\* The process keeps to its delivery, or has none any more.
KeepsTry(x) == proc'[x].try = NoTry \/ (proc'[x].run = proc[x].run /\ proc'[x].try = proc[x].try)

LEMMA UnchangedScans == ASSUME TypeOK, scan' = scan PROVE QuietScans
  BY ScanTyped DEF QuietScans

LEMMA UnchangedWork == ASSUME work' = work PROVE Grows
  BY DEF Grows

LEMMA QuietRuns == ASSUME QuietScans PROVE RunsKept
  BY DEF QuietScans, RunsKept

LEMMA QuietReservation ==
  ASSUME TypeOK, ReservationIsCurrent, SubKept, QuietScans
  PROVE  ReservationIsCurrent'
<1>1. sub.active # NoRun => sub.active \in RunId
  BY DEF TypeOK, Subscription
<1> QED BY <1>1 DEF ReservationIsCurrent, SubKept, QuietScans, Concluded

LEMMA QuietProgress ==
  ASSUME TypeOK, ScansOK, SuccessOK, Grows, QuietScans
  PROVE  ScansOK' /\ SuccessOK'
<1> SUFFICES ASSUME NEW r \in RunId
             PROVE  UpTo(r, scan[r].cursor)' /\ (scan'[r].status = "success" => UpTo(r, End)')
  BY DEF ScansOK, SuccessOK
<1>1. scan[r].cursor \in 1..End /\ End \in 1..End
  BY ScanTyped, Pages
<1>2. UpTo(r, scan[r].cursor)'
  <2>1. CASE scan'[r].cursor = 1
    BY <2>1, Pages DEF UpTo
  <2>2. CASE /\ scan'[r].cursor \in 1..End /\ UpTo(r, scan'[r].cursor)
             /\ scan'[r].download = scan[r].download
    BY <2>2, UpToKept
  <2>3. CASE scan'[r].cursor = scan[r].cursor /\ scan'[r].download = scan[r].download
    BY <1>1, <2>3, UpToKept DEF ScansOK
  <2> QED BY <2>1, <2>2, <2>3 DEF QuietScans
<1>3. scan'[r].status = "success" => UpTo(r, End)'
  <2> SUFFICES ASSUME scan'[r].status = "success" PROVE UpTo(r, End)'
    OBVIOUS
  <2>1. UpTo(r, End) /\ scan'[r].download = scan[r].download
    BY DEF QuietScans, Concluded, SuccessOK
  <2> QED BY <1>1, <2>1, UpToKept
<1> QED BY <1>2, <1>3

\* Who scans after a step scanned before it, or its run has not succeeded.
Placed(y) ==
  /\ ProcOK(y)'
  /\ proc'[y].pc \in Scanning =>
       \/ /\ proc[y].pc \in Scanning
          /\ proc'[y].run = proc[y].run /\ proc'[y].try = proc[y].try
       \/ scan'[proc'[y].run].status # "success"

Moved(y) == Placed(y) /\ KeepsTry(y)

LEMMA Moves ==
  ASSUME IInv, TypeOK', TokensOK', ReservationIsCurrent', QuietScans, Grows,
         \A y \in Proc : proc'[y] = proc[y] \/ Placed(y)
  PROVE  IInv' /\ Settled
<1>1. TypeOK /\ ProcsOK /\ TokensOK /\ SettledOK /\ ScansOK /\ SuccessOK /\ ReservationIsCurrent
  BY DEF IInv
<1>2. ProcsOK'
  BY <1>1, ProcKept, QuietRuns DEF ProcsOK, Placed
<1>4. SettledOK'
  <2> SUFFICES ASSUME NEW y \in Proc, proc'[y].pc \in Scanning,
                      scan'[proc'[y].run].status = "success"
               PROVE  scan'[proc'[y].run].token # proc'[y].try
    BY DEF SettledOK, Owns
  <2>1. proc[y].pc \in Scanning /\ proc'[y].run = proc[y].run /\ proc'[y].try = proc[y].try
    BY DEF Placed
  <2>2. proc[y].run \in RunId /\ proc[y].try >= 1
    BY <1>1, <2>1 DEF ProcsOK, ProcOK, Scanning
  <2>3. CASE scan[proc[y].run].status = "success"
    <3>1. scan[proc[y].run].token # proc[y].try
      BY <1>1, <2>1, <2>2, <2>3 DEF SettledOK, Owns
    <3>2. scan'[proc[y].run].token \in {scan[proc[y].run].token, NoTry}
      BY <2>1, <2>2 DEF QuietScans
    <3> QED BY <2>1, <2>2, <3>1, <3>2 DEF NoTry
  <2>4. CASE Concluded(proc[y].run)
    BY <2>1, <2>4 DEF Concluded
  <2> QED BY <2>1, <2>2, <2>3, <2>4 DEF QuietScans
<1>5. Settled
  BY DEF Settled, QuietScans
<1> QED BY <1>1, <1>2, <1>4, <1>5, QuietProgress DEF IInv

LEMMA QuietTokens ==
  ASSUME TokensOK, QuietScans, \A y \in Proc : proc'[y] = proc[y] \/ KeepsTry(y)
  PROVE  TokensOK'
<1>1. \A r \in RunId : scan'[r].sent => scan'[r].status # "absent"
  BY DEF TokensOK, QuietScans
<1>2. ASSUME NEW x \in Proc, NEW y \in Proc, x # y,
             proc'[x].run = proc'[y].run, proc'[x].try = proc'[y].try, proc'[x].try # NoTry
      PROVE  FALSE
  BY <1>2 DEF TokensOK, KeepsTry
<1> QED BY <1>1, <1>2 DEF TokensOK

LEMMA QuietMoves ==
  ASSUME IInv, TypeOK', QuietScans, SubKept, Grows,
         \A y \in Proc : proc'[y] = proc[y] \/ Moved(y)
  PROVE  IInv' /\ Settled
<1>1. TokensOK' /\ ReservationIsCurrent'
  BY QuietTokens, QuietReservation DEF IInv, Moved
<1> QED BY <1>1, Moves DEF Moved

\* One process moves and all else that matters stays, ...
LEMMA QuietStep ==
  ASSUME IInv, TypeOK', scan' = scan, sub' = sub, Grows, NEW x \in Proc, Moved(x),
         \A y \in Proc : y # x => proc'[y] = proc[y]
  PROVE  IInv' /\ Settled
<1>1. QuietScans /\ SubKept
  BY UnchangedScans DEF IInv, SubKept
<1> QED BY <1>1, QuietMoves

\* ... or leaves its delivery.
LEMMA MovedOut ==
  ASSUME NEW x \in Proc, proc'[x].pc \notin Scanning \cup {"read", "claim", "idle", "initial"}, proc'[x].at = {},
         KeepsTry(x), proc'[x].run \in RunId, scan'[proc'[x].run].status # "absent",
         proc'[x].try <= scan'[proc'[x].run].tries
  PROVE  Moved(x)
  BY PlainOK DEF Moved, Placed

LEMMA MovedIdle == ASSUME NEW x \in Proc, proc'[x] = Idle PROVE Moved(x)
<1>1. Idle.pc = "idle" /\ Idle.try = NoTry
  BY DEF Idle
<1>2. ProcOK(x)'
  BY IdleOK
<1> QED BY <1>1, <1>2 DEF Moved, Placed, KeepsTry, Scanning

\* A process that is after its run: what is known of it.
LEMMA Running ==
  ASSUME IInv, NEW x \in Proc, proc[x].pc \notin {"idle", "initial"}
  PROVE  /\ proc[x].run \in RunId /\ scan[proc[x].run] \in Scan
         /\ scan[proc[x].run].status # "absent"
         /\ proc[x].try <= scan[proc[x].run].tries /\ 0 <= scan[proc[x].run].tries
         /\ proc[x].cursor \in 1..End
<1>1. ProcOK(x) /\ TypeOK
  BY DEF IInv, ProcsOK
<1>2. proc[x].run \in RunId
  BY <1>1 DEF ProcOK
<1> QED BY <1>1, <1>2, ScanTyped, LocalTyped, Pages DEF ProcOK

LEMMA QuietRun ==
  ASSUME IInv, QuietScans, scan' \in [RunId -> Scan],
         NEW x \in Proc, proc[x].pc \notin {"idle", "initial"}
  PROVE  /\ proc[x].run \in RunId /\ scan'[proc[x].run].status # "absent"
         /\ proc[x].try <= scan'[proc[x].run].tries /\ 0 <= scan'[proc[x].run].tries
<1> DEFINE r == proc[x].run
<1>1. r \in RunId /\ scan[r].status # "absent" /\ proc[x].try <= scan[r].tries
  BY Running
<1>2. scan'[r].status # "absent" /\ scan[r].tries <= scan'[r].tries
  BY <1>1 DEF QuietScans
<1>3. scan[r].tries \in Nat /\ scan'[r].tries \in Nat /\ proc[x].try \in Nat
  BY <1>1, ScanTyped, LocalTyped, Pages, SMTT(30) DEF IInv, Scan
<1> QED BY <1>1, <1>2, <1>3

LEMMA LeaveMoves ==
  ASSUME IInv, NEW x \in Proc, Leave(x)
  PROVE  /\ Moved(x) /\ proc' \in [Proc -> Local]
         /\ \A y \in Proc : y # x => proc'[y] = proc[y]
  BY LeaveLocal, MovedIdle DEF IInv

LEMMA ReturnMoves ==
  ASSUME IInv, QuietScans, scan' \in [RunId -> Scan], NEW err \in BOOLEAN,
         NEW x \in Proc, proc[x].pc \notin {"idle", "initial"}, Return(x, err)
  PROVE  /\ Moved(x) /\ proc' \in [Proc -> Local]
         /\ \A y \in Proc : y # x => proc'[y] = proc[y]
<1>1. /\ proc' \in [Proc -> Local] /\ proc'[x].pc = "release"
      /\ proc'[x].run = proc[x].run /\ proc'[x].try = proc[x].try /\ proc'[x].at = {}
      /\ \A y \in Proc : y # x => proc'[y] = proc[y]
  BY ReturnLocal DEF IInv
<1> QED BY <1>1, QuietRun, MovedOut DEF KeepsTry, Scanning

LEMMA ReportMoves ==
  ASSUME IInv, QuietScans, scan' \in [RunId -> Scan],
         NEW x \in Proc, proc[x].pc \notin {"idle", "initial"}, Report(x)
  PROVE  /\ Moved(x) /\ proc' \in [Proc -> Local]
         /\ \A y \in Proc : y # x => proc'[y] = proc[y]
<1>1. /\ proc' \in [Proc -> Local] /\ proc'[x].pc = "failread"
      /\ proc'[x].run = proc[x].run /\ proc'[x].try = NoTry /\ proc'[x].at = {}
      /\ \A y \in Proc : y # x => proc'[y] = proc[y]
  BY ReportLocal DEF IInv
<1>2. proc'[x].try <= scan'[proc'[x].run].tries
  BY <1>1, QuietRun DEF NoTry
<1> QED BY <1>1, <1>2, QuietRun, MovedOut DEF KeepsTry, Scanning

LEMMA GotoMoves ==
  ASSUME IInv, QuietScans, scan' \in [RunId -> Scan], NEW pc \in PC \ (Scanning \cup {"read", "claim", "idle", "initial"}),
         NEW x \in Proc, proc[x].pc \notin {"idle", "initial"}, proc[x].at = {}, Goto(x, pc)
  PROVE  /\ Moved(x) /\ proc' \in [Proc -> Local]
         /\ \A y \in Proc : y # x => proc'[y] = proc[y]
<1>1. /\ proc' \in [Proc -> Local] /\ proc'[x].pc = pc
      /\ proc'[x].run = proc[x].run /\ proc'[x].try = proc[x].try /\ proc'[x].at = proc[x].at
      /\ \A y \in Proc : y # x => proc'[y] = proc[y]
  BY GotoLocal DEF IInv
<1> QED BY <1>1, QuietRun, MovedOut DEF KeepsTry

\* The works of a process that is not in the scan are dropped.
LEMMA AtNone ==
  ASSUME IInv, NEW x \in Proc,
         proc[x].pc \in {"release", "failread", "failrun", "failsub", "dispatch", "redue"}
  PROVE  proc[x].at = {}
  BY DEF IInv, ProcsOK, ProcOK

-----------------------------------------------------------------------------
(***************************************************************************)
(* The steps around a scan.                                                *)
(***************************************************************************)
LEMMA DispatchStep == ASSUME IInv, NEW x \in Proc, Dispatch(x) PROVE IInv' /\ Settled
<1> DEFINE r == proc[x].run
<1>t. TypeOK /\ proc[x].pc = "dispatch" /\ UNCHANGED <<sub, work>>
  BY DEF IInv, Dispatch
<1>r. r \in RunId /\ scan[r] \in Scan /\ scan[r].status # "absent"
  BY <1>t, Running
<1>1. CASE scan' = [scan EXCEPT ![r].sent = TRUE] /\ (Leave(x) \/ Report(x))
  <2> DEFINE s == [scan[r] EXCEPT !.sent = TRUE]
  <2>1. /\ s \in Scan /\ s.download = scan[r].download /\ s.revision = scan[r].revision
        /\ s.cursor = scan[r].cursor /\ s.tries = scan[r].tries /\ s.status = scan[r].status
        /\ s.token = scan[r].token
    BY <1>r DEF Scan
  <2>2. scan' = [scan EXCEPT ![r] = s]
    BY <1>1
  <2> HIDE DEF s
  <2>3. /\ scan' \in [RunId -> Scan] /\ scan'[r] = s
        /\ \A q \in RunId : q # r => scan'[q] = scan[q]
    BY <1>t, <1>r, <2>1, <2>2, ScanWrite
  <2>4. QuietScans
    BY <1>t, <1>r, <2>1, <2>3, ScanTyped DEF QuietScans
  <2>5. /\ Moved(x) /\ proc' \in [Proc -> Local]
        /\ \A y \in Proc : y # x => proc'[y] = proc[y]
    BY <1>t, <1>1, <2>3, <2>4, LeaveMoves, ReportMoves
  <2>6. TypeOK' /\ SubKept /\ Grows
    BY <1>t, <2>3, <2>5 DEF TypeOK, SubKept, Grows
  <2> QED BY <2>4, <2>5, <2>6, QuietMoves
<1>2. CASE UNCHANGED scan /\ Report(x)
  <2>1. QuietScans /\ scan' \in [RunId -> Scan]
    BY <1>t, <1>2, UnchangedScans DEF TypeOK
  <2>2. /\ Moved(x) /\ proc' \in [Proc -> Local]
        /\ \A y \in Proc : y # x => proc'[y] = proc[y]
    BY <1>t, <1>2, <2>1, ReportMoves
  <2>3. TypeOK' /\ Grows
    BY <1>t, <1>2, <2>1, <2>2 DEF TypeOK, Grows
  <2> QED BY <1>t, <1>2, <2>2, <2>3, QuietStep
<1> QED BY <1>1, <1>2 DEF Dispatch

LEMMA ReadStep == ASSUME IInv, NEW x \in Proc, Read(x) PROVE IInv' /\ Settled
<1> DEFINE r == proc[x].run
           p == proc[x]
           q == [p EXCEPT !.pc = "claim", !.cursor = scan[r].cursor, !.account = scan[r].account]
<1>t. TypeOK /\ p.pc = "read" /\ UNCHANGED <<sub, scan, work>> /\ p \in Local
  BY LocalTyped DEF IInv, Read
<1>r. r \in RunId /\ scan[r] \in Scan /\ scan[r].status # "absent" /\ p.try <= scan[r].tries
  BY <1>t, Running
<1>o. p.try >= 1 /\ p.at = {} /\ p.todo = {} /\ UpTo(r, scan[r].cursor)
  BY <1>t, <1>r DEF IInv, ProcsOK, ProcOK, ScansOK
<1>1. CASE Leave(x)
  <2>1. /\ Moved(x) /\ proc' \in [Proc -> Local]
        /\ \A y \in Proc : y # x => proc'[y] = proc[y]
    BY <1>1, LeaveMoves
  <2>2. TypeOK' /\ Grows
    BY <1>t, <2>1 DEF TypeOK, Grows
  <2> QED BY <1>t, <2>1, <2>2, QuietStep
<1>2. CASE Become(x, q)
  <2>1. /\ q \in Local /\ q.pc = "claim" /\ q.run = r /\ q.try = p.try /\ q.cursor = scan[r].cursor
        /\ q.at = {} /\ q.todo = {}
    BY <1>t, <1>r, <1>o DEF Local, PC, Scan
  <2> HIDE DEF q
  <2>2. /\ proc' \in [Proc -> Local] /\ proc'[x] = q
        /\ \A y \in Proc : y # x => proc'[y] = proc[y]
    BY <1>t, <1>2, <2>1, BecomeTyped
  <2>3. TypeOK' /\ Grows
    BY <1>t, <2>2 DEF TypeOK, Grows
  <2>4. UpTo(proc[x].run, proc[x].cursor)'
    BY <1>t, <1>r, <1>o, <2>1, <2>2, <2>3, UpToKept, ScanTyped
  <2>5. ProcOK(x)'
    BY <1>t, <1>r, <1>o, <2>1, <2>2, <2>4 DEF ProcOK, InPage, Paging, Scanning
  <2>6. Moved(x)
    BY <2>1, <2>2, <2>5 DEF Moved, Placed, KeepsTry, Scanning
  <2> QED BY <1>t, <2>2, <2>3, <2>6, QuietStep
<1> QED BY <1>1, <1>2 DEF Read

\* A stale worker only gives up.
LEMMA ReleaseStep == ASSUME IInv, NEW x \in Proc, Release(x) PROVE IInv' /\ Settled
<1> DEFINE r == proc[x].run
           s == [scan[r] EXCEPT !.token = NoTry, !.lease = "none"]
<1>t. TypeOK /\ proc[x].pc = "release" /\ UNCHANGED <<sub, work>> /\ proc[x].at = {}
  BY AtNone DEF IInv, Release
<1>r. r \in RunId /\ scan[r] \in Scan
  BY <1>t, Running
<1>1. scan' = [scan EXCEPT ![r] = s] \/ scan' = scan
  BY DEF Release
<1>2. s \in Scan
  <2>1. NoTry \in 0..MaxTries /\ "none" \in Lease
    BY Pages DEF Lease, NoTry
  <2> QED BY <1>r, <2>1 DEF Scan
<1>k. /\ s.download = scan[r].download /\ s.revision = scan[r].revision
      /\ s.cursor = scan[r].cursor /\ s.tries = scan[r].tries /\ s.status = scan[r].status
      /\ s.token = NoTry /\ s.sent = scan[r].sent
  BY <1>r DEF Scan
<1> HIDE DEF s
<1>3. QuietScans /\ scan' \in [RunId -> Scan]
  <2>1. CASE scan' = scan
    BY <1>t, <2>1, UnchangedScans DEF TypeOK
  <2>2. CASE scan' = [scan EXCEPT ![r] = s]
    <3>1. /\ scan' \in [RunId -> Scan] /\ scan'[r] = s
          /\ \A q \in RunId : q # r => scan'[q] = scan[q]
      BY <1>t, <1>r, <1>2, <2>2, ScanWrite
    <3> QED BY <1>t, <1>r, <1>k, <3>1, ScanTyped DEF QuietScans
  <2> QED BY <1>1, <2>1, <2>2
<1>4. /\ Moved(x) /\ proc' \in [Proc -> Local]
      /\ \A y \in Proc : y # x => proc'[y] = proc[y]
  BY <1>t, <1>3, LeaveMoves, ReportMoves DEF Release
<1>5. TypeOK' /\ SubKept /\ Grows
  BY <1>t, <1>3, <1>4 DEF TypeOK, SubKept, Grows
<1> QED BY <1>3, <1>4, <1>5, QuietMoves

LEMMA QuietWrite ==
  ASSUME TypeOK, NEW r \in RunId, NEW s \in Scan, scan' = [scan EXCEPT ![r] = s],
         s.download = scan[r].download, s.revision = scan[r].revision, s.cursor = scan[r].cursor,
         s.tries = scan[r].tries, s.sent = scan[r].sent, s.token = scan[r].token,
         s.status = "absent" <=> scan[r].status = "absent",
         s.status = "success" <=> scan[r].status = "success"
  PROVE  QuietScans /\ scan' \in [RunId -> Scan]
<1>1. /\ scan' \in [RunId -> Scan] /\ scan'[r] = s
      /\ \A q \in RunId : q # r => scan'[q] = scan[q]
  BY ScanWrite
<1> QED BY <1>1, ScanTyped DEF QuietScans

LEMMA CloseQuiet ==
  ASSUME TypeOK, NEW r \in RunId, NEW st \in {"retrying", "failed", "cancelled"},
         scan[r].status # "absent", scan' = Close(r, st)
  PROVE  QuietScans /\ scan' \in [RunId -> Scan]
<1>1. CASE scan[r].status \in {"success", "cancelled"}
  BY <1>1, UnchangedScans DEF Close, TypeOK
<1>2. CASE scan[r].status \notin {"success", "cancelled"}
  <2> DEFINE s == [scan[r] EXCEPT !.status = st]
  <2>1. scan[r] \in Scan
    BY ScanTyped
  <2>2. s \in Scan
    BY <2>1 DEF Scan
  <2>3. /\ s.download = scan[r].download /\ s.revision = scan[r].revision /\ s.cursor = scan[r].cursor
        /\ s.tries = scan[r].tries /\ s.sent = scan[r].sent /\ s.token = scan[r].token /\ s.status = st
    BY <2>1 DEF Scan
  <2>4. scan' = [scan EXCEPT ![r] = s]
    BY <1>2, Pages DEF Close
  <2> HIDE DEF s
  <2> QED BY <1>2, <2>2, <2>3, <2>4, QuietWrite
<1> QED BY <1>1, <1>2

LEMMA FreeTyped == ASSUME TypeOK
                   PROVE  /\ Free \in Subscription /\ Free.active = NoRun /\ Free.lease = "none"
                          /\ Free.enabled = sub.enabled /\ Free.revision = sub.revision
<1>1. sub \in Subscription
  BY DEF TypeOK
<1>2. Free \in Subscription
  BY <1>1 DEF Free, Subscription, Lease
<1> QED BY <1>1, <1>2 DEF Free, Subscription

LEMMA FailReadStep == ASSUME IInv, NEW x \in Proc, FailRead(x) PROVE IInv' /\ Settled
<1> DEFINE p == proc[x]
<1>t. /\ TypeOK /\ p.pc = "failread" /\ sub' = sub /\ scan' = scan /\ work' = work
      /\ p.at = {} /\ p \in Local
  BY AtNone, LocalTyped DEF IInv, FailRead
<1>q. QuietScans /\ scan' \in [RunId -> Scan]
  BY <1>t, UnchangedScans DEF TypeOK
<1>1. /\ Moved(x) /\ proc' \in [Proc -> Local]
      /\ \A y \in Proc : y # x => proc'[y] = proc[y]
  <2>1. CASE Leave(x)
    BY <2>1, LeaveMoves
  <2>2. CASE Goto(x, "redue")
    BY <1>t, <1>q, <2>2, GotoMoves DEF PC, Scanning
  <2>3. ASSUME NEW final \in BOOLEAN, Become(x, [p EXCEPT !.pc = "failrun", !.final = final])
        PROVE  /\ Moved(x) /\ proc' \in [Proc -> Local]
               /\ \A y \in Proc : y # x => proc'[y] = proc[y]
    <3> DEFINE q == [p EXCEPT !.pc = "failrun", !.final = final]
    <3>1. q \in Local
      BY <1>t DEF Local, PC
    <3>2. q.pc = "failrun" /\ q.run = p.run /\ q.try = p.try /\ q.at = {}
      BY <1>t DEF Local
    <3>3. Become(x, q)
      BY <2>3
    <3> HIDE DEF q
    <3>4. /\ proc' \in [Proc -> Local] /\ proc'[x] = q
          /\ \A y \in Proc : y # x => proc'[y] = proc[y]
      BY <1>t, <3>1, <3>3, BecomeTyped
    <3> QED BY <1>t, <1>q, <3>2, <3>4, QuietRun, MovedOut DEF KeepsTry, Scanning
  <2> QED BY <2>1, <2>2, <2>3 DEF FailRead
<1>2. TypeOK' /\ Grows
  BY <1>t, <1>q, <1>1 DEF TypeOK, Grows
<1> QED BY <1>t, <1>1, <1>2, QuietStep

LEMMA FailRunStep == ASSUME IInv, NEW x \in Proc, FailRun(x) PROVE IInv' /\ Settled
<1>t. /\ TypeOK /\ proc[x].pc = "failrun" /\ UNCHANGED <<sub, work>> /\ proc[x].at = {}
      /\ Goto(x, "failsub")
  BY AtNone DEF IInv, FailRun
<1>r. proc[x].run \in RunId /\ scan[proc[x].run].status # "absent"
  BY <1>t, Running
<1>1. PICK st \in {"retrying", "failed", "cancelled"} : scan' = Close(proc[x].run, st)
  BY DEF FailRun
<1>2. QuietScans /\ scan' \in [RunId -> Scan]
  BY <1>t, <1>r, <1>1, CloseQuiet
<1>3. /\ Moved(x) /\ proc' \in [Proc -> Local]
      /\ \A y \in Proc : y # x => proc'[y] = proc[y]
  BY <1>t, <1>2, GotoMoves DEF PC, Scanning
<1>4. TypeOK' /\ SubKept /\ Grows
  BY <1>t, <1>2, <1>3 DEF TypeOK, SubKept, Grows
<1> QED BY <1>2, <1>3, <1>4, QuietMoves

\* A reservation has a lease.
LEMMA Reserved == ASSUME IInv, NEW r \in RunId, sub.active = r PROVE sub.lease # "none" /\ sub.active # NoRun
  BY Pages DEF IInv, ReservationIsCurrent

LEMMA FailSubStep == ASSUME IInv, NEW x \in Proc, FailSub(x) PROVE IInv' /\ Settled
<1> DEFINE r == proc[x].run
<1>t. /\ TypeOK /\ proc[x].pc = "failsub" /\ scan' = scan /\ work' = work /\ proc[x].at = {}
      /\ sub \in Subscription
  BY AtNone DEF IInv, FailSub, TypeOK
<1>r. r \in RunId
  BY <1>t, Running
<1>1. QuietScans /\ scan' \in [RunId -> Scan]
  BY <1>t, UnchangedScans DEF TypeOK
<1>2. /\ Moved(x) /\ proc' \in [Proc -> Local]
      /\ \A y \in Proc : y # x => proc'[y] = proc[y]
  BY <1>t, <1>1, GotoMoves, LeaveMoves DEF PC, Scanning, FailSub
<1>3. SubKept /\ sub' \in Subscription
  <2>1. CASE sub' = sub
    BY <1>t, <2>1 DEF SubKept
  <2>2. CASE sub' = [Free EXCEPT !.due = FALSE]
    BY <1>t, <2>2, FreeTyped DEF SubKept, Subscription
  <2>3. CASE sub.active = r /\ sub' = [sub EXCEPT !.lease = "held"]
    BY <1>t, <1>r, <2>3, Reserved DEF SubKept, Subscription, Lease
  <2> QED BY <2>1, <2>2, <2>3 DEF FailSub
<1>4. TypeOK' /\ Grows
  BY <1>t, <1>1, <1>2, <1>3 DEF TypeOK, Grows
<1> QED BY <1>1, <1>2, <1>3, <1>4, QuietMoves

LEMMA RedueStep == ASSUME IInv, NEW x \in Proc, Redue(x) PROVE IInv' /\ Settled
<1>t. /\ TypeOK /\ scan' = scan /\ work' = work /\ sub \in Subscription /\ Leave(x)
  BY DEF IInv, Redue, TypeOK
<1>1. QuietScans
  BY <1>t, UnchangedScans
<1>2. /\ Moved(x) /\ proc' \in [Proc -> Local]
      /\ \A y \in Proc : y # x => proc'[y] = proc[y]
  BY <1>t, LeaveMoves
<1>3. PICK due \in BOOLEAN : sub' = [sub EXCEPT !.due = due]
  <2>1. (sub.due \/ (sub.active = NoRun /\ sub.enabled)) \in BOOLEAN
    BY <1>t DEF Subscription
  <2> QED BY <2>1 DEF Redue
<1>4. SubKept /\ sub' \in Subscription
  BY <1>t, <1>3 DEF SubKept, Subscription
<1>5. TypeOK' /\ Grows
  BY <1>t, <1>2, <1>4 DEF TypeOK, Grows
<1> QED BY <1>1, <1>2, <1>4, <1>5, QuietMoves

LEMMA CrashStep == ASSUME IInv, NEW x \in Proc, Crash(x) PROVE IInv' /\ Settled
<1>1. /\ Moved(x) /\ proc' \in [Proc -> Local]
      /\ \A y \in Proc : y # x => proc'[y] = proc[y]
      /\ UNCHANGED <<sub, scan, work>> /\ TypeOK
  BY LeaveMoves DEF Crash, IInv
<1>2. TypeOK' /\ Grows
  BY <1>1 DEF TypeOK, Grows
<1> QED BY <1>1, <1>2, QuietStep

LEMMA FailStep == ASSUME IInv, NEW x \in Proc, Fail(x) PROVE IInv' /\ Settled
<1>t. /\ TypeOK /\ UNCHANGED <<sub, scan, work>> /\ proc[x].pc \notin {"idle", "initial"}
  BY DEF IInv, Fail, Scanning
<1>1. QuietScans /\ scan' \in [RunId -> Scan]
  BY <1>t, UnchangedScans DEF TypeOK
<1>2. /\ Moved(x) /\ proc' \in [Proc -> Local]
      /\ \A y \in Proc : y # x => proc'[y] = proc[y]
  BY <1>t, <1>1, ReturnMoves, ReportMoves DEF Fail
<1>3. TypeOK' /\ Grows
  BY <1>t, <1>1, <1>2 DEF TypeOK, Grows
<1> QED BY <1>t, <1>2, <1>3, QuietStep

-----------------------------------------------------------------------------
(***************************************************************************)
(* The steps of a scan.                                                    *)
(***************************************************************************)
LEMMA InScan ==
  ASSUME IInv, NEW x \in Proc, proc[x].pc \in Scanning
  PROVE  /\ proc[x].run \in RunId /\ scan[proc[x].run] \in Scan
         /\ scan[proc[x].run].status # "absent" /\ proc[x].try >= 1
         /\ UpTo(proc[x].run, proc[x].cursor)
         /\ proc[x].cursor \in 1..End /\ ProcOK(x) /\ proc[x] \in Local
         /\ proc[x].pc \notin {"idle", "initial"}
<1>1. proc[x].pc \notin {"idle", "initial"} /\ ProcOK(x) /\ TypeOK
  BY DEF Scanning, IInv, ProcsOK
<1> QED BY <1>1, Running, LocalTyped DEF ProcOK

\* A process that keeps its place in the catalogue.
LEMMA StaysInScan ==
  ASSUME IInv, QuietScans, Grows, scan' \in [RunId -> Scan], NEW x \in Proc, proc[x].pc \in Scanning,
         proc'[x].run = proc[x].run, proc'[x].try = proc[x].try, proc'[x].cursor = proc[x].cursor
  PROVE  /\ proc'[x].run \in RunId /\ scan'[proc'[x].run].status # "absent"
         /\ proc'[x].try <= scan'[proc'[x].run].tries /\ proc'[x].try >= 1
         /\ UpTo(proc[x].run, proc[x].cursor)'
<1>1. /\ proc[x].run \in RunId /\ UpTo(proc[x].run, proc[x].cursor) /\ proc[x].try >= 1
      /\ proc[x].pc \notin {"idle", "initial"} /\ proc[x].cursor \in 1..End
      /\ scan[proc[x].run].status # "absent"
  BY InScan
<1>2. scan'[proc[x].run].download = scan[proc[x].run].download
  BY <1>1 DEF QuietScans
<1> QED BY <1>1, <1>2, QuietRun, UpToKept

\* One that only waits for the lease, or is refused it.
LEMMA GotoScanning ==
  ASSUME IInv, QuietScans, Grows, scan' \in [RunId -> Scan], NEW x \in Proc,
         NEW pc \in {"renewsub", "fetch", "arrange", "cancel"},
         proc[x].pc \in {"renewrun", "renewsub"}, Goto(x, pc),
         pc = "fetch" => proc[x].at = {},
         pc = "arrange" => proc[x].at # {}
  PROVE  /\ Moved(x) /\ proc' \in [Proc -> Local]
         /\ \A y \in Proc : y # x => proc'[y] = proc[y]
<1>t. TypeOK /\ proc[x].pc \in Scanning /\ pc \in PC /\ pc \in Scanning
  BY DEF IInv, PC, Scanning
<1>1. /\ proc' \in [Proc -> Local] /\ proc'[x].pc = pc
      /\ proc'[x].run = proc[x].run /\ proc'[x].try = proc[x].try
      /\ proc'[x].cursor = proc[x].cursor /\ proc'[x].todo = proc[x].todo
      /\ proc'[x].at = proc[x].at
      /\ \A y \in Proc : y # x => proc'[y] = proc[y]
  BY <1>t, GotoLocal
<1>2. /\ proc'[x].run \in RunId /\ scan'[proc'[x].run].status # "absent"
      /\ proc'[x].try <= scan'[proc'[x].run].tries /\ proc'[x].try >= 1
      /\ UpTo(proc[x].run, proc[x].cursor)'
  BY <1>t, <1>1, StaysInScan
<1>3. /\ ProcOK(x) /\ proc[x].cursor < End /\ proc[x].run \in RunId
      /\ scan[proc[x].run].status # "absent"
      /\ proc[x].at = {} \/ \E w \in Work : proc[x].at = {w}
      /\ proc[x].at = {} => proc[x].todo = {}
      /\ proc[x].at # {} => PageOK(proc[x])
  BY <1>t, InScan DEF ProcOK, Paging, InPage
<1>4. proc[x].at # {} => PageOK(proc[x])'
  BY <1>t, <1>1, <1>3, PageKept DEF QuietScans
<1>5. InPage(proc[x])' => proc[x].at # {}
  BY <1>1 DEF InPage
<1>6. ProcOK(x)'
  BY <1>1, <1>2, <1>3, <1>4, <1>5 DEF ProcOK, Paging
<1> QED BY <1>t, <1>1, <1>6 DEF Moved, Placed, KeepsTry, Scanning

LEMMA RenewRunStep == ASSUME IInv, NEW x \in Proc, RenewRun(x) PROVE IInv' /\ Settled
<1> DEFINE r == proc[x].run
           s == [scan[r] EXCEPT !.lease = "held"]
<1>t. TypeOK /\ proc[x].pc = "renewrun" /\ UNCHANGED <<sub, work>> /\ proc[x].pc \in Scanning
  BY DEF IInv, RenewRun, Scanning
<1>r. r \in RunId /\ scan[r] \in Scan
  BY <1>t, InScan
<1>1. Grows
  BY <1>t DEF Grows
<1>2. CASE scan' = [scan EXCEPT ![r] = s] /\ Goto(x, "renewsub")
  <2>1. s \in Scan
    BY <1>r DEF Scan, Lease
  <2>2. /\ s.download = scan[r].download /\ s.revision = scan[r].revision /\ s.cursor = scan[r].cursor
        /\ s.tries = scan[r].tries /\ s.sent = scan[r].sent /\ s.token = scan[r].token
        /\ s.status = scan[r].status
    BY <1>r DEF Scan
  <2>3. scan' = [scan EXCEPT ![r] = s]
    BY <1>2
  <2> HIDE DEF s
  <2>4. QuietScans /\ scan' \in [RunId -> Scan]
    BY <1>t, <1>r, <2>1, <2>2, <2>3, QuietWrite
  <2>5. /\ Moved(x) /\ proc' \in [Proc -> Local]
        /\ \A y \in Proc : y # x => proc'[y] = proc[y]
    BY <1>t, <1>1, <1>2, <2>4, GotoScanning
  <2>6. TypeOK' /\ SubKept
    BY <1>t, <2>4, <2>5 DEF TypeOK, SubKept
  <2> QED BY <1>1, <2>4, <2>5, <2>6, QuietMoves
<1>3. CASE scan' = scan /\ Goto(x, "cancel")
  <2>1. QuietScans /\ scan' \in [RunId -> Scan]
    BY <1>t, <1>3, UnchangedScans DEF TypeOK
  <2>2. /\ Moved(x) /\ proc' \in [Proc -> Local]
        /\ \A y \in Proc : y # x => proc'[y] = proc[y]
    BY <1>t, <1>1, <1>3, <2>1, GotoScanning
  <2>3. TypeOK'
    BY <1>t, <2>1, <2>2 DEF TypeOK
  <2> QED BY <1>t, <1>1, <1>3, <2>2, <2>3, QuietStep
<1> QED BY <1>2, <1>3 DEF RenewRun

LEMMA RenewSubStep == ASSUME IInv, NEW x \in Proc, RenewSub(x) PROVE IInv' /\ Settled
<1> DEFINE r == proc[x].run
<1>t. /\ TypeOK /\ proc[x].pc = "renewsub" /\ scan' = scan /\ work' = work /\ proc[x].pc \in Scanning
      /\ sub \in Subscription
  BY DEF IInv, RenewSub, Scanning, TypeOK
<1>r. r \in RunId
  BY <1>t, InScan
<1>1. QuietScans /\ scan' \in [RunId -> Scan] /\ Grows
  BY <1>t, UnchangedScans DEF TypeOK, Grows
<1>2. /\ Moved(x) /\ proc' \in [Proc -> Local]
      /\ \A y \in Proc : y # x => proc'[y] = proc[y]
  <2>1. CASE Goto(x, "cancel")
    BY <1>t, <1>1, <2>1, GotoScanning
  <2>2. CASE Goto(x, "fetch") /\ proc[x].at = {}
    BY <1>t, <1>1, <2>2, GotoScanning
  <2>3. CASE Goto(x, "arrange") /\ proc[x].at # {}
    BY <1>t, <1>1, <2>3, GotoScanning
  <2> QED BY <2>1, <2>2, <2>3 DEF RenewSub
<1>3. SubKept /\ sub' \in Subscription
  <2>1. CASE sub' = sub
    BY <1>t, <2>1 DEF SubKept
  <2>2. CASE Current(r) /\ sub' = [sub EXCEPT !.lease = "held"]
    <3>1. sub.lease # "none"
      BY <1>r, <2>2, Reserved DEF Current
    <3> QED BY <1>t, <2>2, <3>1 DEF SubKept, Subscription, Lease
  <2> QED BY <2>1, <2>2 DEF RenewSub
<1>4. TypeOK'
  BY <1>t, <1>1, <1>2, <1>3 DEF TypeOK
<1> QED BY <1>1, <1>2, <1>3, <1>4, QuietMoves

\* A step within a page, or to the next one.
LEMMA ScanMoves ==
  ASSUME IInv, QuietScans, Grows, scan' \in [RunId -> Scan], NEW x \in Proc, proc[x].pc \in Scanning,
         proc'[x].run = proc[x].run, proc'[x].try = proc[x].try, proc'[x].pc \in Scanning,
         UpTo(proc[x].run, proc[x].cursor)',
         proc'[x].pc \in Paging => proc'[x].cursor < End,
         proc'[x].pc = "finish" => proc'[x].cursor = End,
         InPage(proc[x])' => PageOK(proc[x])',
         proc'[x].at = {} \/ \E w \in Work : proc'[x].at = {w},
         proc'[x].pc = "arrange" => proc'[x].at # {},
         proc'[x].pc \notin {"renewrun", "renewsub", "arrange", "cancel"} => proc'[x].at = {},
         proc'[x].pc \in {"save", "account"} => proc'[x].todo = {},
         proc'[x].pc \in {"renewrun", "renewsub"} /\ proc'[x].at = {} => proc'[x].todo = {}
  PROVE  Moved(x)
<1>1. /\ proc'[x].run \in RunId /\ scan'[proc'[x].run].status # "absent"
      /\ proc'[x].try <= scan'[proc'[x].run].tries /\ proc'[x].try >= 1
  BY InScan, QuietRun
<1>2. proc'[x].pc \notin {"read", "claim", "idle", "initial"}
  BY DEF Scanning
<1>3. ProcOK(x)'
  BY <1>1, <1>2 DEF ProcOK
<1> QED BY <1>3 DEF Moved, Placed, KeepsTry

\* A worker that owns its run scans for one that has not succeeded.
LEMMA OwnerUnsettled ==
  ASSUME IInv, NEW x \in Proc, proc[x].pc \in Scanning, Owns(x)
  PROVE  scan[proc[x].run].status # "success"
  BY DEF IInv, SettledOK

LEMMA AccountStep == ASSUME IInv, NEW x \in Proc, Account(x) PROVE IInv' /\ Settled
<1> DEFINE p == proc[x]
           r == p.run
           s == [scan[r] EXCEPT !.account = TRUE, !.status = "running"]
           q == [p EXCEPT !.pc = Top(p.cursor), !.account = FALSE]
<1>t. /\ TypeOK /\ p.pc = "account" /\ UNCHANGED <<sub, work>> /\ p.pc \in Scanning
      /\ Become(x, q)
  BY DEF IInv, Account, Scanning
<1>r. /\ r \in RunId /\ scan[r] \in Scan /\ scan[r].status # "absent" /\ ProcOK(x) /\ p \in Local
      /\ p.cursor \in 1..End
  BY <1>t, InScan
<1>o. p.at = {} /\ p.todo = {}
  BY <1>t, <1>r DEF ProcOK
<1>1. Grows
  BY <1>t DEF Grows
<1>2. QuietScans /\ scan' \in [RunId -> Scan]
  <2>1. CASE scan' = scan
    BY <1>t, <2>1, UnchangedScans DEF TypeOK
  <2>2. CASE Owns(x) /\ scan' = [scan EXCEPT ![r] = s]
    <3>1. scan[r].status # "success"
      BY <1>t, <2>2, OwnerUnsettled
    <3>2. s \in Scan
      BY <1>r DEF Scan
    <3>3. /\ s.download = scan[r].download /\ s.revision = scan[r].revision /\ s.cursor = scan[r].cursor
          /\ s.tries = scan[r].tries /\ s.sent = scan[r].sent /\ s.token = scan[r].token
          /\ s.status = "running"
      BY <1>r DEF Scan
    <3>4. scan' = [scan EXCEPT ![r] = s]
      BY <2>2
    <3> HIDE DEF s
    <3> QED BY <1>t, <1>r, <3>1, <3>2, <3>3, <3>4, QuietWrite
  <2> QED BY <2>1, <2>2 DEF Account
<1>3. /\ q \in Local /\ q.run = r /\ q.try = p.try /\ q.cursor = p.cursor /\ q.at = {} /\ q.todo = {}
      /\ q.pc = Top(p.cursor)
  BY <1>r, <1>o DEF Local, PC, Scanning, Top
<1> HIDE DEF q
<1>4. /\ proc' \in [Proc -> Local] /\ proc'[x] = q
      /\ \A y \in Proc : y # x => proc'[y] = proc[y]
  BY <1>t, <1>3, BecomeTyped
<1>5. UpTo(proc[x].run, proc[x].cursor)'
  BY <1>t, <1>1, <1>2, <1>3, <1>4, StaysInScan
<1>6. /\ q.pc \in {"finish", "renewrun"} /\ q.pc \in Scanning
      /\ q.pc = "finish" => q.cursor = End
      /\ q.pc \in Paging => q.cursor < End
      /\ ~InPage(q)
  BY <1>r, <1>3, Pages DEF Top, Scanning, Paging, InPage
<1>7. Moved(x)
  BY <1>t, <1>1, <1>2, <1>3, <1>4, <1>5, <1>6, ScanMoves
<1>8. TypeOK' /\ SubKept
  BY <1>t, <1>2, <1>4 DEF TypeOK, SubKept
<1> QED BY <1>1, <1>2, <1>4, <1>7, <1>8, QuietMoves

LEMMA FetchStep == ASSUME IInv, NEW x \in Proc, Fetch(x) PROVE IInv' /\ Settled
<1> DEFINE p == proc[x]
           page == Catalogue[p.cursor]
           q == [p EXCEPT !.pc = Rest(page), !.todo = page]
<1>t. /\ TypeOK /\ p.pc = "fetch" /\ scan' = scan /\ sub' = sub /\ work' = work /\ p.pc \in Scanning
      /\ Become(x, q)
  BY DEF IInv, Fetch, Scanning
<1>r. p \in Local /\ p.cursor \in 1..End /\ p.cursor < End /\ p.at = {}
  BY <1>t, InScan DEF ProcOK, Paging
<1>1. Grows /\ QuietScans /\ scan' \in [RunId -> Scan]
  BY <1>t, UnchangedScans DEF Grows, TypeOK
<1>2. page \subseteq Work
  BY <1>r, Pages
<1>3. /\ q \in Local /\ q.run = p.run /\ q.try = p.try /\ q.cursor = p.cursor /\ q.at = {}
      /\ q.todo = page /\ q.pc = Rest(page)
  BY <1>r, <1>2 DEF Local, PC, Scanning, Rest
<1> HIDE DEF q
<1>4. /\ proc' \in [Proc -> Local] /\ proc'[x] = q
      /\ \A y \in Proc : y # x => proc'[y] = proc[y]
  BY <1>t, <1>3, BecomeTyped
<1>5. UpTo(proc[x].run, proc[x].cursor)'
  BY <1>t, <1>1, <1>3, <1>4, StaysInScan
<1>6. /\ q.pc \in {"save", "index"} /\ q.pc \in Scanning
      /\ q.pc = "save" => q.todo = {}
  BY <1>3 DEF Rest, Scanning
<1>7. PageOK(proc[x])'
  BY <1>3, <1>4 DEF PageOK
<1>8. Moved(x)
  BY <1>t, <1>r, <1>1, <1>3, <1>4, <1>5, <1>6, <1>7, ScanMoves
<1>9. TypeOK'
  BY <1>t, <1>1, <1>4 DEF TypeOK
<1> QED BY <1>t, <1>1, <1>4, <1>8, <1>9, QuietStep

LEMMA CancelStep == ASSUME IInv, NEW x \in Proc, Cancel(x) PROVE IInv' /\ Settled
<1> DEFINE r == proc[x].run
           s == [scan[r] EXCEPT !.status = "cancelled"]
<1>t. /\ TypeOK /\ proc[x].pc = "cancel" /\ UNCHANGED <<sub, work>> /\ proc[x].pc \in Scanning
      /\ Return(x, FALSE)
  BY DEF IInv, Cancel, Scanning
<1>r. r \in RunId /\ scan[r] \in Scan /\ scan[r].status # "absent" /\ proc[x].pc \notin {"idle", "initial"}
  BY <1>t, InScan
<1>2. QuietScans /\ scan' \in [RunId -> Scan]
  <2>1. CASE scan' = scan
    BY <1>t, <2>1, UnchangedScans DEF TypeOK
  <2>2. CASE Owns(x) /\ scan' = [scan EXCEPT ![r] = s]
    <3>1. scan[r].status # "success"
      BY <1>t, <2>2, OwnerUnsettled
    <3>2. s \in Scan
      BY <1>r DEF Scan
    <3>3. /\ s.download = scan[r].download /\ s.revision = scan[r].revision /\ s.cursor = scan[r].cursor
          /\ s.tries = scan[r].tries /\ s.sent = scan[r].sent /\ s.token = scan[r].token
          /\ s.status = "cancelled"
      BY <1>r DEF Scan
    <3>4. scan' = [scan EXCEPT ![r] = s]
      BY <2>2
    <3> HIDE DEF s
    <3> QED BY <1>t, <1>r, <3>1, <3>2, <3>3, <3>4, QuietWrite
  <2> QED BY <2>1, <2>2 DEF Cancel
<1>3. /\ Moved(x) /\ proc' \in [Proc -> Local]
      /\ \A y \in Proc : y # x => proc'[y] = proc[y]
  BY <1>t, <1>r, <1>2, ReturnMoves
<1>4. TypeOK' /\ SubKept /\ Grows
  BY <1>t, <1>2, <1>3 DEF TypeOK, SubKept, Grows
<1> QED BY <1>2, <1>3, <1>4, QuietMoves

LEMMA IndexStep == ASSUME IInv, NEW x \in Proc, Index(x) PROVE IInv' /\ Settled
<1> DEFINE p == proc[x]
           r == p.run
<1>t. /\ TypeOK /\ p.pc = "index" /\ sub' = sub /\ scan' = scan /\ p.pc \in Scanning
  BY DEF IInv, Index, Scanning
<1>r. /\ r \in RunId /\ p \in Local /\ p.cursor \in 1..End /\ p.cursor < End /\ p.at = {} /\ ProcOK(x)
      /\ PageOK(p) /\ p.todo \in SUBSET Work
  BY <1>t, InScan, LocalTyped DEF ProcOK, Paging, InPage
<1> DEFINE row(w) == [work[w] EXCEPT !.known = TRUE, !.seen = r, !.missing = FALSE]
           q(w) == IF scan[r].download
                   THEN [p EXCEPT !.pc = "renewrun", !.todo = p.todo \ {w}, !.at = {w}]
                   ELSE [p EXCEPT !.pc = Rest(p.todo \ {w}), !.todo = p.todo \ {w}]
<1>p. PICK w \in p.todo :
         /\ work' = [work EXCEPT ![w].known = TRUE, ![w].seen = p.run, ![w].missing = FALSE]
         /\ Become(x, IF scan[p.run].download
                      THEN [p EXCEPT !.pc = "renewrun", !.todo = @ \ {w}, !.at = {w}]
                      ELSE [p EXCEPT !.pc = Rest(p.todo \ {w}), !.todo = @ \ {w}])
  BY DEF Index
<1>2. w \in Work /\ work[w] \in WorkRow
  BY <1>t, <1>r DEF TypeOK
<1>1. work' = [work EXCEPT ![w] = row(w)] /\ Become(x, q(w))
  <2>1. work' = [work EXCEPT ![w] = row(w)]
    BY <1>t, <1>p, <1>2 DEF TypeOK
  <2>2. Become(x, q(w))
    BY <1>r, <1>p DEF Local
  <2> QED BY <2>1, <2>2
<1>3. row(w) \in WorkRow /\ row(w).known /\ row(w).seen = r /\ row(w).arranged = work[w].arranged
  BY <1>r, <1>2 DEF WorkRow
<1>4. /\ work' \in [Work -> WorkRow] /\ work'[w] = row(w)
      /\ \A v \in Work : v # w => work'[v] = work[v]
  BY <1>t, <1>1, <1>2, <1>3 DEF TypeOK
<1>5. Grows /\ work'[w].known /\ work'[w].seen # NoRun
  BY <1>r, <1>2, <1>3, <1>4, Pages, ZenonT(40) DEF Grows
<1>6. /\ q(w) \in Local /\ q(w).run = r /\ q(w).try = p.try /\ q(w).cursor = p.cursor
      /\ q(w).todo = p.todo \ {w}
      /\ \/ scan[r].download /\ q(w).pc = "renewrun" /\ q(w).at = {w}
         \/ ~scan[r].download /\ q(w).pc = Rest(p.todo \ {w}) /\ q(w).at = {}
  BY <1>r, <1>2 DEF Local, PC, Scanning, Rest
<1> DEFINE o == q(w)
<1>7. /\ o \in Local /\ o.run = r /\ o.try = p.try /\ o.cursor = p.cursor /\ o.todo = p.todo \ {w}
      /\ \/ scan[r].download /\ o.pc = "renewrun" /\ o.at = {w}
         \/ ~scan[r].download /\ o.pc = Rest(p.todo \ {w}) /\ o.at = {}
      /\ Become(x, o)
  BY <1>1, <1>6
<1> HIDE DEF o, q, row
<1>8. /\ proc' \in [Proc -> Local] /\ proc'[x] = o
      /\ \A y \in Proc : y # x => proc'[y] = proc[y]
  BY <1>t, <1>7, BecomeTyped
<1>9. QuietScans /\ scan' \in [RunId -> Scan]
  BY <1>t, UnchangedScans DEF TypeOK
<1>10. UpTo(proc[x].run, proc[x].cursor)'
  BY <1>t, <1>5, <1>7, <1>8, <1>9, StaysInScan
<1>11. /\ o.pc \in Scanning /\ o.pc \in {"renewrun", "save", "index"}
       /\ o.pc = "save" => o.todo = {} /\ o.at = {}
       /\ o.pc = "index" => o.at = {}
       /\ o.pc = "renewrun" => o.at = {w}
  BY <1>7 DEF Rest, Scanning
<1>12. PageOK(proc[x])'
  <2> SUFFICES ASSUME NEW v \in Catalogue[p.cursor], v \notin o.todo
               PROVE  /\ work'[v].known /\ work'[v].seen # NoRun
                      /\ scan'[r].download /\ v \notin o.at => work'[v].arranged
    BY <1>7, <1>8 DEF PageOK
  <2>1. v \in Work
    BY <1>r, Pages
  <2>2. CASE v = w
    BY <1>t, <1>5, <1>7, <2>2
  <2>3. CASE v # w
    BY <1>t, <1>r, <1>4, <1>7, <2>1, <2>3 DEF PageOK
  <2> QED BY <2>2, <2>3
<1>13. Moved(x)
  BY <1>t, <1>r, <1>2, <1>5, <1>7, <1>8, <1>9, <1>10, <1>11, <1>12, ScanMoves
<1>14. TypeOK'
  BY <1>t, <1>4, <1>8, <1>9 DEF TypeOK
<1> QED BY <1>t, <1>5, <1>8, <1>13, <1>14, QuietStep

LEMMA ArrangeStep == ASSUME IInv, NEW x \in Proc, Arrange(x) PROVE IInv' /\ Settled
<1> DEFINE p == proc[x]
           r == p.run
           q == [p EXCEPT !.pc = Rest(p.todo), !.at = {}]
<1>t. /\ TypeOK /\ p.pc = "arrange" /\ sub' = sub /\ scan' = scan /\ p.pc \in Scanning
      /\ Become(x, q)
  BY DEF IInv, Arrange, Scanning
<1>r. /\ r \in RunId /\ p \in Local /\ p.cursor \in 1..End /\ p.cursor < End /\ ProcOK(x)
      /\ PageOK(p) /\ p.at # {}
      /\ p.at = {} \/ \E w \in Work : p.at = {w}
  BY <1>t, InScan DEF ProcOK, Paging, InPage
<1> DEFINE row(w) == [work[w] EXCEPT !.arranged = TRUE]
<1>1. PICK w \in Work : p.at = {w} /\ work' = [work EXCEPT ![w] = row(w)]
  BY <1>r DEF Arrange, EnqueueArtistMirror
<1>2. work[w] \in WorkRow
  BY <1>t DEF TypeOK
<1>3. /\ row(w) \in WorkRow /\ row(w).known = work[w].known /\ row(w).seen = work[w].seen
      /\ row(w).arranged = TRUE
  BY <1>2 DEF WorkRow
<1>4. /\ work' \in [Work -> WorkRow] /\ work'[w] = row(w)
      /\ \A v \in Work : v # w => work'[v] = work[v]
  BY <1>t, <1>1, <1>3 DEF TypeOK
<1> HIDE DEF row
<1>5. Grows /\ work'[w].arranged
  BY <1>3, <1>4 DEF Grows
<1>7. /\ q \in Local /\ q.run = r /\ q.try = p.try /\ q.cursor = p.cursor /\ q.todo = p.todo
      /\ q.at = {} /\ q.pc = Rest(p.todo)
  BY <1>r DEF Local, PC, Scanning, Rest
<1> HIDE DEF q
<1>8. /\ proc' \in [Proc -> Local] /\ proc'[x] = q
      /\ \A y \in Proc : y # x => proc'[y] = proc[y]
  BY <1>t, <1>7, BecomeTyped
<1>9. QuietScans /\ scan' \in [RunId -> Scan]
  BY <1>t, UnchangedScans DEF TypeOK
<1>10. UpTo(proc[x].run, proc[x].cursor)'
  BY <1>t, <1>5, <1>7, <1>8, <1>9, StaysInScan
<1>11. /\ q.pc \in Scanning /\ q.pc \in {"save", "index"}
       /\ q.pc = "save" => q.todo = {}
  BY <1>7 DEF Rest, Scanning
<1>12. PageOK(proc[x])'
  <2> SUFFICES ASSUME NEW v \in Catalogue[p.cursor], v \notin p.todo
               PROVE  /\ work'[v].known /\ work'[v].seen # NoRun
                      /\ (scan'[r].download => work'[v].arranged)
    BY <1>7, <1>8 DEF PageOK
  <2>1. v \in Work
    BY <1>r, Pages
  <2> QED BY <1>t, <1>r, <1>1, <1>3, <1>4, <2>1 DEF PageOK
<1>13. Moved(x)
  BY <1>t, <1>r, <1>5, <1>7, <1>8, <1>9, <1>10, <1>11, <1>12, ScanMoves
<1>14. TypeOK'
  BY <1>t, <1>4, <1>8, <1>9 DEF TypeOK
<1> QED BY <1>t, <1>5, <1>8, <1>13, <1>14, QuietStep

\* The page is finished: the works before the next one are covered.
LEMMA PageDone ==
  ASSUME IInv, NEW x \in Proc, proc[x].pc = "save"
  PROVE  /\ UpTo(proc[x].run, proc[x].cursor + 1) /\ proc[x].cursor + 1 \in 1..End
         /\ proc[x].cursor < End /\ proc[x].cursor \in 1..End /\ proc[x].todo = {} /\ proc[x].at = {}
<1> DEFINE p == proc[x]
           c == p.cursor
<1>1. /\ ProcOK(x) /\ UpTo(p.run, c) /\ c \in 1..End
  BY InScan DEF Scanning
<1>2. /\ PageOK(p) /\ c < End /\ p.todo = {} /\ p.at = {}
  BY <1>1 DEF ProcOK, Paging, InPage
<1>3. \A w \in Catalogue[c] : Covered(p.run, w)
  BY <1>2 DEF PageOK, Covered
<1>4. \A i \in 1..Len(Catalogue) : i < c + 1 => i < c \/ i = c
  BY <1>1, Pages
<1>5. UpTo(p.run, c + 1)
  BY <1>1, <1>3, <1>4 DEF UpTo
<1> QED BY <1>1, <1>2, <1>5, Pages

LEMMA SaveStep == ASSUME IInv, NEW x \in Proc, Save(x) PROVE IInv' /\ Settled
<1> DEFINE p == proc[x]
           r == p.run
           c == p.cursor
           s == [scan[r] EXCEPT !.status = "running", !.cursor = c + 1]
           q == [p EXCEPT !.pc = Top(c + 1), !.cursor = c + 1]
<1>t. /\ TypeOK /\ p.pc = "save" /\ UNCHANGED <<sub, work>> /\ p.pc \in Scanning
      /\ Become(x, q)
  BY DEF IInv, Save, Scanning
<1>r. /\ r \in RunId /\ scan[r] \in Scan /\ scan[r].status # "absent" /\ ProcOK(x) /\ p \in Local
      /\ c \in 1..End
  BY <1>t, InScan
<1>o. UpTo(r, c + 1) /\ c + 1 \in 1..End /\ p.todo = {} /\ p.at = {}
  BY <1>t, PageDone
<1>1. Grows
  BY <1>t DEF Grows
<1>2. QuietScans /\ scan' \in [RunId -> Scan]
  <2>1. CASE scan' = scan
    BY <1>t, <2>1, UnchangedScans DEF TypeOK
  <2>2. CASE Owns(x) /\ scan' = [scan EXCEPT ![r] = s]
    <3>1. scan[r].status # "success"
      BY <1>t, <2>2, OwnerUnsettled
    <3>2. s \in Scan
      BY <1>r, <1>o DEF Scan
    <3>3. /\ s.download = scan[r].download /\ s.revision = scan[r].revision /\ s.cursor = c + 1
          /\ s.tries = scan[r].tries /\ s.sent = scan[r].sent /\ s.token = scan[r].token
          /\ s.status = "running"
      BY <1>r, <1>o DEF Scan
    <3>4. scan' = [scan EXCEPT ![r] = s]
      BY <2>2
    <3> HIDE DEF s
    <3>5. /\ scan' \in [RunId -> Scan] /\ scan'[r] = s
          /\ \A v \in RunId : v # r => scan'[v] = scan[v]
      BY <1>t, <1>r, <3>2, <3>4, ScanWrite
    <3> QED BY <1>t, <1>r, <1>o, <3>1, <3>3, <3>5, ScanTyped DEF QuietScans
  <2> QED BY <2>1, <2>2 DEF Save
<1>3. /\ q \in Local /\ q.run = r /\ q.try = p.try /\ q.cursor = c + 1 /\ q.at = {} /\ q.todo = {}
      /\ q.pc = Top(c + 1)
  BY <1>r, <1>o DEF Local, PC, Scanning, Top
<1> HIDE DEF q
<1>4. /\ proc' \in [Proc -> Local] /\ proc'[x] = q
      /\ \A y \in Proc : y # x => proc'[y] = proc[y]
  BY <1>t, <1>3, BecomeTyped
<1>5. UpTo(proc[x].run, proc[x].cursor)'
  <2>1. scan'[r].download = scan[r].download
    BY <1>r, <1>2 DEF QuietScans
  <2> QED BY <1>1, <1>r, <1>o, <2>1, <1>3, <1>4, UpToKept
<1>6. /\ q.pc \in {"finish", "renewrun"} /\ q.pc \in Scanning
      /\ q.pc = "finish" => q.cursor = End
      /\ q.pc \in Paging => q.cursor < End
      /\ ~InPage(q)
  BY <1>r, <1>o, <1>3, Pages DEF Top, Scanning, Paging, InPage
<1>7. Moved(x)
  BY <1>t, <1>1, <1>2, <1>3, <1>4, <1>5, <1>6, ScanMoves
<1>8. TypeOK' /\ SubKept
  BY <1>t, <1>2, <1>4 DEF TypeOK, SubKept
<1> QED BY <1>1, <1>2, <1>4, <1>7, <1>8, QuietMoves

LEMMA ClaimStep == ASSUME IInv, NEW x \in Proc, Claim(x) PROVE IInv' /\ Settled
<1> DEFINE p == proc[x]
           r == p.run
           s == [scan[r] EXCEPT !.token = p.try, !.lease = "held"]
<1>t. TypeOK /\ p.pc = "claim" /\ UNCHANGED <<sub, work>> /\ ProcOK(x) /\ p \in Local
  BY LocalTyped DEF IInv, ProcsOK, Claim
<1>r. /\ r \in RunId /\ scan[r] \in Scan /\ scan[r].status # "absent" /\ p.cursor \in 1..End
      /\ p.try \in 0..MaxTries
  BY <1>t, Running, LocalTyped
<1>1. Grows
  BY <1>t DEF Grows
<1>2. CASE scan' = scan /\ Leave(x)
  <2>1. Moved(x) /\ proc' \in [Proc -> Local] /\ \A y \in Proc : y # x => proc'[y] = proc[y]
    BY <1>2, LeaveMoves
  <2>2. TypeOK'
    BY <1>t, <1>2, <2>1 DEF TypeOK
  <2> QED BY <1>t, <1>1, <1>2, <2>1, <2>2, QuietStep
<1>3. CASE /\ scan[r].status # "success" /\ scan' = [scan EXCEPT ![r] = s]
           /\ Goto(x, "account")
  <2>1. s \in Scan
    <3>1. "held" \in Lease
      BY DEF Lease
    <3> QED BY <1>r, <3>1 DEF Scan
  <2>2. /\ s.download = scan[r].download /\ s.revision = scan[r].revision /\ s.cursor = scan[r].cursor
        /\ s.tries = scan[r].tries /\ s.sent = scan[r].sent /\ s.status = scan[r].status
    BY <1>r DEF Scan
  <2>3. scan' = [scan EXCEPT ![r] = s]
    BY <1>3
  <2> HIDE DEF s
  <2>4. /\ scan' \in [RunId -> Scan] /\ scan'[r] = s
        /\ \A v \in RunId : v # r => scan'[v] = scan[v]
    BY <1>t, <1>r, <2>1, <2>3, ScanWrite
  <2>5. QuietScans
    BY <1>t, <1>r, <1>3, <2>2, <2>4, ScanTyped DEF QuietScans
  <2>6. /\ proc' \in [Proc -> Local] /\ proc'[x].pc = "account"
        /\ proc'[x].run = r /\ proc'[x].try = p.try
        /\ proc'[x].cursor = p.cursor /\ proc'[x].todo = p.todo
        /\ proc'[x].at = p.at
        /\ \A y \in Proc : y # x => proc'[y] = proc[y]
    BY <1>t, <1>3, GotoLocal DEF PC, Scanning
  <2>7. UpTo(proc[x].run, proc[x].cursor)'
    BY <1>t, <1>r, <1>1, <2>2, <2>4, <2>6, UpToKept DEF ProcOK
  <2>8. /\ p.at = {} /\ p.todo = {} /\ p.try >= 1 /\ p.try <= scan'[r].tries
        /\ scan'[r].status \notin {"absent", "success"}
    BY <1>t, <1>r, <1>3, <2>2, <2>4 DEF ProcOK
  <2>9. ProcOK(x)'
    BY <1>r, <2>6, <2>7, <2>8 DEF ProcOK, InPage, Paging
  <2>10. Moved(x)
    BY <2>6, <2>8, <2>9 DEF Moved, Placed, KeepsTry
  <2>11. TypeOK' /\ SubKept
    BY <1>t, <2>4, <2>6 DEF TypeOK, SubKept
  <2> QED BY <1>1, <2>5, <2>6, <2>10, <2>11, QuietMoves
<1> QED BY <1>2, <1>3 DEF Claim

LEMMA FinishStep == ASSUME IInv, NEW x \in Proc, Finish(x) PROVE IInv' /\ Settled
<1> DEFINE p == proc[x]
           r == p.run
           cancelled == [scan[r] EXCEPT !.status = "cancelled"]
           s == [scan[r] EXCEPT !.status = "success"]
<1>t. /\ TypeOK /\ p.pc = "finish" /\ p.pc \in Scanning /\ Return(x, FALSE) /\ sub \in Subscription
      /\ TokensOK /\ ProcsOK
  BY DEF IInv, Finish, Scanning, TypeOK
<1>r. /\ r \in RunId /\ scan[r] \in Scan /\ scan[r].status # "absent" /\ p.pc \notin {"idle", "initial"}
      /\ p.cursor = End /\ UpTo(r, p.cursor) /\ p.try >= 1
  BY <1>t, InScan DEF ProcOK
<1>1. CASE UNCHANGED <<sub, scan, work>>
  <2>1. QuietScans /\ scan' \in [RunId -> Scan] /\ Grows
    BY <1>t, <1>1, UnchangedScans DEF TypeOK, Grows
  <2>2. Moved(x) /\ proc' \in [Proc -> Local] /\ \A y \in Proc : y # x => proc'[y] = proc[y]
    BY <1>t, <1>r, <2>1, ReturnMoves
  <2>3. TypeOK'
    BY <1>t, <1>1, <2>1, <2>2 DEF TypeOK
  <2> QED BY <1>1, <2>1, <2>2, <2>3, QuietStep
<1>2. CASE Owns(x) /\ scan' = [scan EXCEPT ![r] = cancelled] /\ UNCHANGED <<sub, work>>
  <2>1. scan[r].status # "success"
    BY <1>t, <1>2, OwnerUnsettled
  <2>2. cancelled \in Scan
    BY <1>r DEF Scan
  <2>3. /\ cancelled.download = scan[r].download /\ cancelled.revision = scan[r].revision
        /\ cancelled.cursor = scan[r].cursor /\ cancelled.tries = scan[r].tries
        /\ cancelled.sent = scan[r].sent /\ cancelled.token = scan[r].token
        /\ cancelled.status = "cancelled"
    BY <1>r DEF Scan
  <2>4. scan' = [scan EXCEPT ![r] = cancelled]
    BY <1>2
  <2> HIDE DEF cancelled
  <2>5. QuietScans /\ scan' \in [RunId -> Scan]
    BY <1>t, <1>r, <2>1, <2>2, <2>3, <2>4, QuietWrite
  <2>6. Moved(x) /\ proc' \in [Proc -> Local] /\ \A y \in Proc : y # x => proc'[y] = proc[y]
    BY <1>t, <1>r, <2>5, ReturnMoves
  <2>7. TypeOK' /\ SubKept /\ Grows
    BY <1>t, <1>2, <2>5, <2>6 DEF TypeOK, SubKept, Grows
  <2> QED BY <2>5, <2>6, <2>7, QuietMoves
<1>3. CASE /\ Owns(x) /\ scan' = [scan EXCEPT ![r] = s]
           /\ sub' = [Free EXCEPT !.due = @ /\ ~scan[r].download]
           /\ work' = [w \in Work |-> [work[w] EXCEPT
                         !.missing = @ \/ (work[w].known /\ work[w].seen # r)]]
  <2>1. s \in Scan
    BY <1>r DEF Scan
  <2>2. /\ s.download = scan[r].download /\ s.revision = scan[r].revision /\ s.cursor = scan[r].cursor
        /\ s.tries = scan[r].tries /\ s.sent = scan[r].sent /\ s.token = scan[r].token
        /\ s.status = "success"
    BY <1>r DEF Scan
  <2>3. scan' = [scan EXCEPT ![r] = s]
    BY <1>3
  <2> HIDE DEF s
  <2>4. /\ scan' \in [RunId -> Scan] /\ scan'[r] = s
        /\ \A v \in RunId : v # r => scan'[v] = scan[v]
    BY <1>t, <1>r, <2>1, <2>3, ScanWrite
  <2>5. PICK due \in BOOLEAN : sub' = [Free EXCEPT !.due = due]
    <3>1. (Free.due /\ ~scan[r].download) \in BOOLEAN
      OBVIOUS
    <3> QED BY <1>3, <3>1
  <2>6. SubKept /\ sub' \in Subscription /\ sub'.active = NoRun
    BY <1>t, <2>5, FreeTyped DEF SubKept, Subscription
  <2>7. work' \in [Work -> WorkRow] /\ Grows
    <3>1. ASSUME NEW w \in Work
          PROVE  /\ work'[w] \in WorkRow /\ work'[w].known = work[w].known
                 /\ work'[w].seen = work[w].seen /\ work'[w].arranged = work[w].arranged
      <4>1. work[w] \in WorkRow
        BY <1>t DEF TypeOK
      <4>2. (work[w].missing \/ (work[w].known /\ work[w].seen # r)) \in BOOLEAN
        OBVIOUS
      <4>3. work'[w] = [work[w] EXCEPT !.missing = work[w].missing \/ (work[w].known /\ work[w].seen # r)]
        BY <1>3
      <4> QED BY <4>1, <4>2, <4>3 DEF WorkRow
    <3>2. work' \in [Work -> WorkRow]
      BY <1>3, <3>1
    <3> QED BY <3>1, <3>2 DEF Grows
  <2>8. /\ proc' \in [Proc -> Local] /\ proc'[x].pc = "release"
        /\ proc'[x].run = r /\ proc'[x].try = p.try /\ proc'[x].at = {}
        /\ \A y \in Proc : y # x => proc'[y] = proc[y]
    BY <1>t, ReturnLocal
  <2>9. Concluded(r)
    <3>1. ASSUME NEW y \in Proc, proc'[y].pc \in Scanning, proc'[y].run = r
          PROVE  proc'[y].try # scan'[r].token
      <4>1. y # x /\ proc'[y] = proc[y]
        BY <2>8, <3>1 DEF Scanning
      <4>2. proc[y].try >= 1
        BY <1>t, <3>1, <4>1 DEF ProcsOK, ProcOK
      <4>3. scan'[r].token = p.try
        BY <1>3, <2>2, <2>4 DEF Owns
      <4> QED BY <1>t, <3>1, <4>1, <4>2, <4>3 DEF TokensOK, NoTry
    <3>2. sub'.active # r
      BY <1>r, <2>6, Pages
    <3> QED BY <1>r, <2>2, <2>4, <3>1, <3>2 DEF Concluded
  <2>10. QuietScans
    BY <1>t, <1>r, <2>2, <2>4, <2>9, ScanTyped DEF QuietScans
  <2>11. Moved(x)
    BY <1>t, <1>r, <2>4, <2>8, <2>10, QuietRun, MovedOut DEF KeepsTry, Scanning
  <2>12. TypeOK'
    BY <2>4, <2>6, <2>7, <2>8 DEF TypeOK
  <2> QED BY <2>6, <2>7, <2>8, <2>10, <2>11, <2>12, QuietMoves
<1> QED BY <1>1, <1>2, <1>3 DEF Finish

LEMMA DeliverStep ==
  ASSUME IInv, NEW x \in Proc, NEW r \in RunId, Deliver(x, r) PROVE IInv' /\ Settled
<1> DEFINE n == scan[r].tries + 1
           s == [scan[r] EXCEPT !.tries = n]
           q == [Idle EXCEPT !.pc = "read", !.run = r, !.try = n]
<1>t. /\ TypeOK /\ TokensOK /\ ProcsOK /\ proc[x].pc = "idle" /\ UNCHANGED <<sub, work>>
      /\ scan[r].sent /\ scan[r].tries < MaxTries /\ Become(x, q)
  BY DEF IInv, Deliver
<1>r. scan[r] \in Scan /\ scan[r].tries \in Nat /\ n \in 1..MaxTries /\ scan[r].status # "absent"
  BY <1>t, ScanTyped, Pages DEF TokensOK
<1>1. s \in Scan
  <2>1. n \in 0..MaxTries
    BY <1>r
  <2> QED BY <1>r, <2>1 DEF Scan
<1>2. /\ s.download = scan[r].download /\ s.revision = scan[r].revision /\ s.cursor = scan[r].cursor
      /\ s.tries = n /\ s.sent = scan[r].sent /\ s.token = scan[r].token
      /\ s.status = scan[r].status
  BY <1>r DEF Scan
<1>3. scan' = [scan EXCEPT ![r] = s]
  <2>1. scan' = [scan EXCEPT ![r].tries = n]
    BY DEF Deliver
  <2> QED BY <1>t, <2>1 DEF TypeOK
<1>4. q \in Local
  <2>1. n \in 0..MaxTries /\ "read" \in PC
    BY <1>r, Pages DEF PC
  <2> HIDE DEF n
  <2> QED BY <2>1, IdleTyped DEF Local
<1>5. /\ q.pc = "read" /\ q.run = r /\ q.try = n /\ q.at = {} /\ q.todo = {}
  BY DEF Idle
<1>n. n = scan[r].tries + 1
  OBVIOUS
<1> HIDE DEF s, q, n
<1>6. /\ scan' \in [RunId -> Scan] /\ scan'[r] = s
      /\ \A v \in RunId : v # r => scan'[v] = scan[v]
  BY <1>t, <1>1, <1>3, ScanWrite
<1>7. QuietScans
  BY <1>t, <1>r, <1>n, <1>2, <1>6, ScanTyped DEF QuietScans
<1>8. /\ proc' \in [Proc -> Local] /\ proc'[x] = q
      /\ \A y \in Proc : y # x => proc'[y] = proc[y]
  BY <1>t, <1>4, <1>5, BecomeTyped
<1>9. Placed(x)
  BY <1>r, <1>2, <1>5, <1>6, <1>8 DEF Placed, ProcOK, InPage, Paging, Scanning
<1>10. TokensOK'
  <2>1. \A v \in RunId : scan'[v].sent => scan'[v].status # "absent"
    BY <1>t, <1>2, <1>6 DEF TokensOK
  <2>2. ASSUME NEW y \in Proc, y # x, proc'[y].run = r, proc'[y].try = n
        PROVE  FALSE
    <3>1. proc[y].try = n /\ proc[y].run = r
      BY <1>8, <2>2
    <3>2. proc[y].pc \notin {"idle", "initial"} => proc[y].try <= scan[r].tries
      BY <1>t, <3>1 DEF ProcsOK, ProcOK
    <3>3. proc[y].pc \in {"idle", "initial"} => proc[y].try = 0
      BY <1>t DEF ProcsOK, ProcOK, NoTry
    <3> QED BY <1>r, <1>n, <3>1, <3>2, <3>3
  <2>3. ASSUME NEW y \in Proc, NEW z \in Proc, y # z, y # x, z # x,
               proc'[y].run = proc'[z].run, proc'[y].try = proc'[z].try
        PROVE  proc'[y].try = NoTry
    BY <1>t, <1>8, <2>3 DEF TokensOK
  <2> QED BY <1>5, <1>8, <2>1, <2>2, <2>3 DEF TokensOK
<1>11. TypeOK' /\ Grows /\ SubKept
  BY <1>t, <1>6, <1>8 DEF TypeOK, Grows, SubKept
<1>12. ReservationIsCurrent'
  BY <1>t, <1>7, <1>11, QuietReservation DEF IInv
<1> QED BY <1>7, <1>8, <1>9, <1>10, <1>11, <1>12, Moves

-----------------------------------------------------------------------------
(***************************************************************************)
(* The callers, and the steps of no process.                               *)
(***************************************************************************)
\* The run that holds the subscription is given up: other than that its row stays.
LEMMA CloseActive ==
  ASSUME IInv, NEW st \in {"failed", "cancelled"}
  PROVE  LET c == Close(sub.active, st)
         IN /\ c \in [RunId -> Scan]
            /\ \A r \in RunId :
                 /\ c[r].download = scan[r].download /\ c[r].revision = scan[r].revision
                 /\ c[r].cursor = scan[r].cursor /\ c[r].tries = scan[r].tries
                 /\ c[r].sent = scan[r].sent /\ c[r].token = scan[r].token
                 /\ c[r].status = "absent" <=> scan[r].status = "absent"
                 /\ c[r].status = "success" <=> scan[r].status = "success"
<1> DEFINE a == sub.active
           c == Close(a, st)
           s == [scan[a] EXCEPT !.status = st]
<1>t. TypeOK /\ (a # NoRun => a \in RunId /\ scan[a].status # "absent")
  BY DEF IInv, ReservationIsCurrent, TypeOK, Subscription
<1>1. CASE c = scan
  BY <1>t, <1>1 DEF TypeOK
<1>2. CASE a # NoRun /\ scan[a].status \notin {"success", "cancelled"} /\ c = [scan EXCEPT ![a] = s]
  <2>1. a \in RunId /\ scan[a] \in Scan
    BY <1>t, <1>2, ScanTyped
  <2>2. s \in Scan
    BY <2>1 DEF Scan
  <2>3. /\ s.download = scan[a].download /\ s.revision = scan[a].revision /\ s.cursor = scan[a].cursor
        /\ s.tries = scan[a].tries /\ s.sent = scan[a].sent /\ s.token = scan[a].token /\ s.status = st
    BY <2>1 DEF Scan
  <2>4. c = [scan EXCEPT ![a] = s]
    BY <1>2
  <2> HIDE DEF s, c
  <2>5. c \in [RunId -> Scan] /\ c[a] = s /\ \A r \in RunId : r # a => c[r] = scan[r]
    BY <1>t, <2>1, <2>2, <2>4 DEF TypeOK
  <2>6. \A r \in RunId :
          /\ c[r].download = scan[r].download /\ c[r].revision = scan[r].revision
          /\ c[r].cursor = scan[r].cursor /\ c[r].tries = scan[r].tries
          /\ c[r].sent = scan[r].sent /\ c[r].token = scan[r].token
          /\ c[r].status = "absent" <=> scan[r].status = "absent"
          /\ c[r].status = "success" <=> scan[r].status = "success"
    BY <1>t, <1>2, <2>3, <2>5
  <2> QED BY <2>5, <2>6 DEF c
<1>3. c = scan \/ (a # NoRun /\ scan[a].status \notin {"success", "cancelled"} /\ c = [scan EXCEPT ![a] = s])
  BY DEF Close
<1> QED BY <1>1, <1>2, <1>3

LEMMA CreateStep ==
  ASSUME IInv, NEW x \in Proc, NEW download \in BOOLEAN, proc[x].pc \in {"idle", "initial"},
         Create(x, download)
  PROVE  IInv' /\ Settled
<1> DEFINE c == Close(sub.active, "failed")
<1>t. /\ TypeOK /\ TokensOK /\ sub \in Subscription /\ work' = work
      /\ download => sub.enabled
  BY DEF IInv, TypeOK, Create
<1>1. PICK r \in RunId :
        /\ Fresh(r)
        /\ sub' = [sub EXCEPT !.active = r, !.lease = "held"]
        /\ scan' = [c EXCEPT ![r] = [NoScan EXCEPT !.status = "pending", !.download = download,
                                                   !.revision = sub.revision]]
        /\ Become(x, [Idle EXCEPT !.pc = "dispatch", !.run = r])
  BY DEF Create
<1> DEFINE s == [NoScan EXCEPT !.status = "pending", !.download = download, !.revision = sub.revision]
           q == [Idle EXCEPT !.pc = "dispatch", !.run = r]
<1>2. s \in Scan
  <2>1. sub.revision \in Nat /\ 0 \in 0..MaxTries /\ 1 \in 1..End /\ "none" \in Lease
    BY <1>t, Pages DEF Subscription, Lease
  <2> QED BY <2>1 DEF Scan, NoScan, NoTry
<1>3. /\ s.download = download /\ s.revision = sub.revision /\ s.cursor = 1 /\ s.tries = 0
      /\ s.sent = FALSE /\ s.token = NoTry /\ s.status = "pending"
  BY DEF NoScan
<1>4. q \in Local /\ q.pc = "dispatch" /\ q.run = r /\ q.try = NoTry /\ q.at = {}
  <2>1. q \in Local
    BY IdleTyped DEF Local, PC
  <2> QED BY <2>1 DEF Idle
<1>5. scan' = [c EXCEPT ![r] = s] /\ Become(x, q) /\ scan[r].status = "absent"
  BY <1>1 DEF Fresh
<1> HIDE DEF s, q
<1>6. /\ c \in [RunId -> Scan]
      /\ \A v \in RunId :
           /\ c[v].download = scan[v].download /\ c[v].revision = scan[v].revision
           /\ c[v].cursor = scan[v].cursor /\ c[v].tries = scan[v].tries
           /\ c[v].sent = scan[v].sent /\ c[v].token = scan[v].token
           /\ c[v].status = "absent" <=> scan[v].status = "absent"
           /\ c[v].status = "success" <=> scan[v].status = "success"
  BY CloseActive
<1> HIDE DEF c
<1>7. scan' \in [RunId -> Scan] /\ scan'[r] = s /\ \A v \in RunId : v # r => scan'[v] = c[v]
  BY <1>2, <1>5, <1>6
<1>8. QuietScans
  BY <1>t, <1>3, <1>5, <1>6, <1>7, ScanTyped DEF QuietScans
<1>9. /\ proc' \in [Proc -> Local] /\ proc'[x] = q
      /\ \A y \in Proc : y # x => proc'[y] = proc[y]
  BY <1>t, <1>4, <1>5, BecomeTyped
<1>10. Moved(x)
  BY <1>3, <1>4, <1>7, <1>9, MovedOut DEF KeepsTry, Scanning, NoTry
<1>11. TokensOK'
  BY <1>t, <1>8, <1>9, <1>10, QuietTokens DEF Moved
<1>12. sub' \in Subscription /\ sub'.active = r /\ sub'.lease = "held" /\ sub'.revision = sub.revision
       /\ sub'.enabled = sub.enabled
  BY <1>t, <1>1 DEF Subscription, Lease
<1>13. ReservationIsCurrent'
  BY <1>t, <1>3, <1>7, <1>12, Pages DEF ReservationIsCurrent
<1>14. TypeOK' /\ Grows
  BY <1>t, <1>7, <1>9, <1>12 DEF TypeOK, Grows
<1> QED BY <1>8, <1>9, <1>10, <1>11, <1>13, <1>14, Moves DEF Moved

LEMMA InitialStep == ASSUME IInv, NEW x \in Proc, Initial(x) PROVE IInv' /\ Settled
<1>1. CASE Create(x, TRUE)
  BY <1>1, CreateStep DEF Initial
<1>2. CASE Leave(x) /\ UNCHANGED <<sub, scan, work>>
  <2>1. Moved(x) /\ proc' \in [Proc -> Local] /\ \A y \in Proc : y # x => proc'[y] = proc[y]
    BY <1>2, LeaveMoves
  <2>2. TypeOK' /\ Grows
    BY <1>2, <2>1 DEF TypeOK, Grows, IInv
  <2> QED BY <1>2, <2>1, <2>2, QuietStep
<1> QED BY <1>1, <1>2 DEF Initial

LEMMA UpdateStep ==
  ASSUME IInv, NEW x \in Proc, NEW enabled \in BOOLEAN, UpdateArtistSubscription(x, enabled)
  PROVE  IInv' /\ Settled
<1> DEFINE c == Close(sub.active, "cancelled")
<1>t. /\ TypeOK /\ TokensOK /\ ProcsOK /\ sub \in Subscription /\ work' = work /\ scan' = c
      /\ proc[x].pc = "idle" /\ proc[x] \in Local
  BY LocalTyped DEF IInv, TypeOK, UpdateArtistSubscription, SetSubscription
<1>1. /\ c \in [RunId -> Scan]
      /\ \A v \in RunId :
           /\ c[v].download = scan[v].download /\ c[v].revision = scan[v].revision
           /\ c[v].cursor = scan[v].cursor /\ c[v].tries = scan[v].tries
           /\ c[v].sent = scan[v].sent /\ c[v].token = scan[v].token
           /\ c[v].status = "absent" <=> scan[v].status = "absent"
           /\ c[v].status = "success" <=> scan[v].status = "success"
  BY CloseActive
<1> HIDE DEF c
<1>2. QuietScans
  BY <1>t, <1>1, ScanTyped DEF QuietScans
<1>3. sub' \in Subscription /\ sub'.active = NoRun /\ sub'.lease = "none"
  <2>1. PICK due \in BOOLEAN :
          sub' = [Free EXCEPT !.enabled = enabled, !.revision = Free.revision + 1, !.due = due]
    <3>1. (Free.due \/ enabled) \in BOOLEAN
      OBVIOUS
    <3> QED BY <3>1 DEF UpdateArtistSubscription, SetSubscription
  <2>2. Free \in Subscription /\ Free.active = NoRun /\ Free.lease = "none" /\ Free.revision + 1 \in Nat
    BY <1>t, FreeTyped DEF Subscription
  <2> QED BY <2>1, <2>2 DEF Subscription
<1>4. ReservationIsCurrent'
  BY <1>3 DEF ReservationIsCurrent
<1>5. proc' = proc \/ Goto(x, "initial")
  BY DEF UpdateArtistSubscription
<1>6. /\ proc' \in [Proc -> Local]
      /\ \A y \in Proc : proc'[y] = proc[y] \/ Moved(y)
  <2>1. CASE proc' = proc
    BY <1>t, <2>1 DEF TypeOK
  <2>2. CASE Goto(x, "initial")
    <3>1. /\ proc' \in [Proc -> Local] /\ proc'[x].pc = "initial"
          /\ proc'[x].run = proc[x].run /\ proc'[x].try = proc[x].try
          /\ proc'[x].cursor = proc[x].cursor /\ proc'[x].todo = proc[x].todo
          /\ proc'[x].at = proc[x].at
          /\ \A y \in Proc : y # x => proc'[y] = proc[y]
      BY <1>t, <2>2, GotoLocal DEF PC
    <3>2. proc[x].at = {} /\ proc[x].try = NoTry
      BY <1>t DEF ProcsOK, ProcOK
    <3>3. Moved(x)
      BY <3>1, <3>2 DEF Moved, Placed, KeepsTry, ProcOK, InPage, Paging, Scanning
    <3> QED BY <3>1, <3>3
  <2> QED BY <1>5, <2>1, <2>2
<1>7. TypeOK' /\ Grows
  BY <1>t, <1>1, <1>3, <1>6 DEF TypeOK, Grows
<1>8. TokensOK'
  BY <1>t, <1>2, <1>6, QuietTokens DEF Moved
<1> QED BY <1>2, <1>4, <1>6, <1>7, <1>8, Moves DEF Moved

\* Nothing but a lease, a due time or the knowledge of a work changes.
LEMMA EnvironmentStep ==
  ASSUME IInv,
         \/ \E r \in RunId : LapseRun(r)
         \/ \E w \in Work : Discover(w)
         \/ LapseSub \/ FallDue
  PROVE  IInv' /\ Settled
<1>t. TypeOK /\ sub \in Subscription /\ proc' = proc
  BY DEF IInv, TypeOK, LapseRun, Discover, LapseSub, FallDue
<1>1. CASE \E r \in RunId : LapseRun(r)
  <2>1. PICK r \in RunId : LapseRun(r)
    BY <1>1
  <2> DEFINE s == [scan[r] EXCEPT !.lease = "lapsed"]
  <2>2. scan[r] \in Scan /\ scan' = [scan EXCEPT ![r] = s] /\ sub' = sub /\ work' = work
    BY <1>t, <2>1, ScanTyped DEF LapseRun
  <2>3. s \in Scan
    <3>1. "lapsed" \in Lease
      BY DEF Lease
    <3> QED BY <2>2, <3>1 DEF Scan
  <2>4. /\ s.download = scan[r].download /\ s.revision = scan[r].revision /\ s.cursor = scan[r].cursor
        /\ s.tries = scan[r].tries /\ s.sent = scan[r].sent /\ s.token = scan[r].token
        /\ s.status = scan[r].status
    BY <2>2 DEF Scan
  <2> HIDE DEF s
  <2>5. QuietScans /\ scan' \in [RunId -> Scan]
    BY <1>t, <2>2, <2>3, <2>4, QuietWrite
  <2>6. TypeOK' /\ Grows /\ SubKept
    BY <1>t, <2>2, <2>5 DEF TypeOK, Grows, SubKept
  <2> QED BY <1>t, <2>5, <2>6, QuietMoves
<1>2. CASE \E w \in Work : Discover(w)
  <2>1. PICK w \in Work : Discover(w)
    BY <1>2
  <2> DEFINE row == [work[w] EXCEPT !.known = TRUE]
  <2>2. work[w] \in WorkRow /\ work' = [work EXCEPT ![w] = row] /\ sub' = sub /\ scan' = scan
    BY <1>t, <2>1 DEF TypeOK, Discover
  <2>3. row \in WorkRow /\ row.known /\ row.seen = work[w].seen /\ row.arranged = work[w].arranged
    BY <2>2 DEF WorkRow
  <2> HIDE DEF row
  <2>4. work' \in [Work -> WorkRow] /\ Grows
    BY <1>t, <2>2, <2>3 DEF TypeOK, Grows
  <2>5. QuietScans /\ SubKept /\ TypeOK'
    BY <1>t, <2>2, <2>4, UnchangedScans DEF TypeOK, SubKept
  <2> QED BY <1>t, <2>4, <2>5, QuietMoves
<1>3. CASE LapseSub \/ FallDue
  <2>1. scan' = scan /\ work' = work
    BY <1>3 DEF LapseSub, FallDue
  <2>2. sub' \in Subscription /\ SubKept
    BY <1>t, <1>3 DEF LapseSub, FallDue, SubKept, Subscription, Lease
  <2>3. QuietScans /\ TypeOK' /\ Grows
    BY <1>t, <2>1, <2>2, UnchangedScans DEF TypeOK, Grows
  <2> QED BY <1>t, <2>2, <2>3, QuietMoves
<1> QED BY <1>1, <1>2, <1>3

-----------------------------------------------------------------------------
LEMMA InitHolds == ASSUME Init PROVE IInv
<1>1. TypeOK
  <2>1. sub \in Subscription
    BY DEF Init, Subscription, Lease
  <2>2. NoScan \in Scan
    <3>1. 0 \in 0..MaxTries /\ 1 \in 1..End /\ "none" \in Lease
      BY Pages DEF Lease
    <3> QED BY <3>1 DEF NoScan, Scan, NoTry
  <2>3. work \in [Work -> WorkRow]
    BY DEF Init, WorkRow
  <2> QED BY <2>1, <2>2, <2>3, IdleTyped DEF Init, TypeOK
<1>2. ProcsOK
  BY DEF Init, ProcsOK, ProcOK, InPage, Paging, Scanning, Idle
<1>3. TokensOK
  BY DEF Init, TokensOK, NoScan, Idle
<1>4. SettledOK
  BY DEF Init, SettledOK, Idle, Scanning
<1>5. ScansOK
  BY UpToFirst DEF Init, ScansOK, NoScan
<1>6. SuccessOK
  BY DEF Init, SuccessOK, NoScan
<1>7. ReservationIsCurrent
  BY DEF Init, ReservationIsCurrent
<1> QED BY <1>1, <1>2, <1>3, <1>4, <1>5, <1>6, <1>7 DEF IInv

LEMMA ExecuteStep == ASSUME IInv, NEW x \in Proc, Execute(x) PROVE IInv' /\ Settled
  BY InitialStep, DispatchStep, ReadStep, ClaimStep, AccountStep, RenewRunStep, RenewSubStep,
     FetchStep, IndexStep, ArrangeStep, SaveStep, CancelStep, FinishStep, FailStep, ReleaseStep,
     FailReadStep, FailRunStep, FailSubStep, RedueStep
  DEF Execute

LEMMA NextKeeps == ASSUME IInv, [Next]_vars PROVE IInv' /\ Settled
<1>1. CASE UNCHANGED vars
  <2>1. TypeOK' /\ QuietScans /\ SubKept /\ Grows /\ proc' = proc
    BY <1>1, UnchangedScans DEF IInv, TypeOK, vars, SubKept, Grows
  <2> QED BY <2>1, QuietMoves
<1>2. CASE \E x \in Proc, enabled \in BOOLEAN : UpdateArtistSubscription(x, enabled)
  BY <1>2, UpdateStep
<1>3. CASE \E x \in Proc : RefreshArtistDirectory(x) \/ SyncArtistSubscription(x) \/ CheckDue(x)
  BY <1>3, CreateStep DEF RefreshArtistDirectory, SyncArtistSubscription, CheckDue
<1>4. CASE \E x \in Proc : Execute(x) \/ Crash(x)
  BY <1>4, ExecuteStep, CrashStep
<1>5. CASE \E x \in Proc, r \in RunId : Deliver(x, r)
  BY <1>5, DeliverStep
<1>6. CASE \/ \E r \in RunId : LapseRun(r)
           \/ \E w \in Work : Discover(w)
           \/ LapseSub \/ FallDue
  BY <1>6, EnvironmentStep
<1> QED BY <1>1, <1>2, <1>3, <1>4, <1>5, <1>6 DEF Next

\* The invariant behind all of them: whoever owns a run has the token on its row, the
\* cursor has nothing unlisted behind it, and the reservation names an open run of the
\* current revision (src/internal/service/pixez/artist_scan.go).
THEOREM InductiveInvariant == Spec => []IInv
<1>1. Init => IInv
  BY InitHolds
<1>2. IInv /\ [Next]_vars => IInv'
  BY NextKeeps
<1> QED BY <1>1, <1>2, PTL DEF Spec

\* The subscription, the runs, the works and the processes keep their types.
THEOREM TypeCorrect == Spec => []TypeOK
<1>1. IInv => TypeOK
  BY DEF IInv
<1> QED BY <1>1, InductiveInvariant, PTL

\* The reservation is the current revision's, and no run that has succeeded
\* keeps it, whoever switched, scanned, failed or crashed in between.
THEOREM ReservationStaysCurrent == Spec => []ReservationIsCurrent
<1>1. IInv => ReservationIsCurrent
  BY DEF IInv
<1> QED BY <1>1, InductiveInvariant, PTL

\* A scan that succeeded has put every work of the catalogue in the directory,
\* and, if it downloads, found it backed up or sent a task for it: for every
\* catalogue and however many attempts, workers and crashes it took.
THEOREM ScanSuccessIsComplete == Spec => []SuccessCoversAll
<1>1. IInv => SuccessCoversAll
  <2> SUFFICES ASSUME IInv, NEW r \in RunId, scan[r].status = "success", NEW w \in Listed
               PROVE  Covered(r, w)
    BY DEF SuccessCoversAll, SuccessListsAll, SuccessArrangesAll, Covered
  <2>1. PICK i \in 1..Len(Catalogue) : w \in Catalogue[i]
    BY DEF Listed
  <2>2. UpTo(r, End) /\ i < End
    BY Pages DEF IInv, SuccessOK, End
  <2> QED BY <2>1, <2>2 DEF UpTo
<1> QED BY <1>1, InductiveInvariant, PTL

\* Nothing changes the outcome of a scan that has succeeded: no late worker owns
\* the run any more, and the writes that do not ask for the token spare it.
THEOREM SuccessStays == Spec => SuccessIsFinal
<1>1. IInv /\ [Next]_vars =>
        [\A r \in RunId : scan[r].status = "success" => scan'[r].status = "success"]_vars
  BY NextKeeps DEF Settled
<1> QED BY <1>1, InductiveInvariant, PTL DEF Spec, SuccessIsFinal
=============================================================================
