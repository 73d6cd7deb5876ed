-------------------------- MODULE BookmarkSyncProofs --------------------------
(***************************************************************************)
(* Proofs about BookmarkSync for every set of works, exporters, feeders    *)
(* and miners, every page size and every limit.  Those about the removal   *)
(* marks suppose that no two exports of the account overlap.               *)
(***************************************************************************)
EXTENDS BookmarkSync, TLAPS

\* At most one export of the account runs at a time.
Alone == \A x, y \in Exporter : export[x].pc # "idle" /\ export[y].pc # "idle" => x = y

-----------------------------------------------------------------------------
LEMMA RowTyped == ASSUME TypeOK, NEW w \in Work PROVE row[w] \in Row
  BY DEF TypeOK

LEMMA ExportTyped == ASSUME TypeOK, NEW x \in Exporter PROVE export[x] \in Export
  BY DEF TypeOK

LEMMA GoExportTyped ==
  ASSUME TypeOK, NEW x \in Exporter, NEW e \in Export, GoExport(x, e)
  PROVE  /\ export' \in [Exporter -> Export]
         /\ export'[x] = e
  BY DEF TypeOK, GoExport

LEMMA GoFeedTyped ==
  ASSUME TypeOK, NEW f \in Feeder, NEW e \in Feed, GoFeed(f, e)
  PROVE  feed' \in [Feeder -> Feed]
  BY DEF TypeOK, GoFeed

LEMMA GoMineTyped ==
  ASSUME TypeOK, NEW m \in Miner, NEW t \in Mine, GoMine(m, t)
  PROVE  mine' \in [Miner -> Mine]
  BY DEF TypeOK, GoMine

LEMMA IdleTyped ==
  /\ NoRow \in Row
  /\ IdleExport \in Export /\ IdleExport.pc = "idle"
  /\ IdleFeed \in Feed
  /\ IdleMine \in Mine
  BY DEF NoRow, Row, IdleExport, Export, IdleFeed, Feed, IdleMine, Mine

\* A step that takes nothing off the list, leaves the exports alone, and of the rows
\* changes only the mirror status.
LEMMA Bystander ==
  ASSUME Inv, shelf \subseteq shelf', export' = export,
         \A w \in Work : /\ row'[w].known = row[w].known
                         /\ row'[w].removed = row[w].removed
                         /\ row'[w].stamp = row[w].stamp
  PROVE  CursorOK' /\ SteadyOK'
<1>1. CursorOK'
  BY DEF Inv, CursorOK
<1>2. \A x \in Exporter : export[x].steady \subseteq Work
  BY DEF Inv, TypeOK, Export
<1>3. \A w \in Work : Active(w)' <=> Active(w)
  BY DEF Active
<1>4. SteadyOK'
  BY <1>2, <1>3 DEF Inv, SteadyOK
<1> QED BY <1>1, <1>4

-----------------------------------------------------------------------------
(***************************************************************************)
(* The type invariant.                                                     *)
(***************************************************************************)
LEMMA PixivType ==
  ASSUME TypeOK, NEW w \in Work,
         \/ Bookmark(w) \/ Unbookmark(w) \/ Hide(w) \/ Show(w)
         \/ Request(w) \/ DeleteMirror(w)
  PROVE  TypeOK'
<1>1. CASE Bookmark(w)
  BY <1>1 DEF Bookmark, TypeOK, mirrors
<1>2. CASE Unbookmark(w)
  <2>1. \A x \in Exporter :
          [export[x] EXCEPT !.older = export[x].older \ {w}, !.steady = export[x].steady \ {w}] \in Export
    BY ExportTyped DEF Export
  <2>2. export' = [x \in Exporter |-> [export[x] EXCEPT !.older = export[x].older \ {w},
                                                        !.steady = export[x].steady \ {w}]]
    BY <1>2 DEF Unbookmark
  <2> QED BY <1>2, <2>1, <2>2 DEF Unbookmark, TypeOK, mirrors
<1>3. CASE Hide(w)
  <2>1. \A x \in Exporter : [export[x] EXCEPT !.steady = export[x].steady \ {w}] \in Export
    BY ExportTyped DEF Export
  <2>2. export' = [x \in Exporter |-> [export[x] EXCEPT !.steady = export[x].steady \ {w}]]
    BY <1>3 DEF Hide
  <2> QED BY <1>3, <2>1, <2>2 DEF Hide, TypeOK, mirrors
<1>4. CASE Show(w)
  BY <1>4 DEF Show, TypeOK, mirrors
<1>5. CASE Request(w) \/ DeleteMirror(w)
  BY <1>5 DEF Request, DeleteMirror, TypeOK, pixiv
<1> QED BY <1>1, <1>2, <1>3, <1>4, <1>5

LEMMA ExportType ==
  ASSUME TypeOK, NEW x \in Exporter, ReadUser(x) \/ ExportStep(x) \/ FailExport(x)
  PROVE  TypeOK'
<1> DEFINE e == export[x]
<1>e. e \in Export
  BY ExportTyped
<1>1. CASE Start(x)
  <2> DEFINE d == [IdleExport EXCEPT !.pc = "first", !.steady = shelf \ hidden]
  <2>1. d \in Export
    BY DEF TypeOK, IdleExport, Export
  <2>2. \A w \in Work : [row[w] EXCEPT !.stamp = row[w].stamp \ {x}] \in Row
    BY RowTyped DEF Row
  <2>3. /\ row' = [w \in Work |-> [row[w] EXCEPT !.stamp = row[w].stamp \ {x}]]
        /\ GoExport(x, d) /\ UNCHANGED <<pixiv, saved, mirrors>>
    BY <1>1 DEF Start
  <2> HIDE DEF d
  <2> QED BY <2>1, <2>2, <2>3, GoExportTyped DEF TypeOK, pixiv, mirrors
<1>2. CASE Fetch(x)
  <2> DEFINE rest == IF e.pc = "first" THEN shelf ELSE e.older
  <2>1. PICK page \in Batches(PageSize, rest) :
          LET got == [e EXCEPT !.page = page, !.veiled = page \cap hidden,
                               !.older = rest \ page, !.last = (rest = page)]
          IN GoExport(x, [got EXCEPT !.pc = Turn(got)])
    BY <1>2 DEF Fetch
  <2> DEFINE got == [e EXCEPT !.page = page, !.veiled = page \cap hidden,
                              !.older = rest \ page, !.last = (rest = page)]
             d == [got EXCEPT !.pc = Turn(got)]
  <2>2. rest \subseteq Work /\ page \subseteq rest
    BY <1>e DEF TypeOK, Export, Batches
  <2>3. got \in Export
    BY <1>e, <2>2 DEF Export
  <2>4. Turn(got) \in {"look", "mark", "fetch"}
    BY DEF Turn
  <2>5. d \in Export
    <3> HIDE DEF got
    <3> QED BY <2>3, <2>4 DEF Export
  <2>6. GoExport(x, d) /\ UNCHANGED <<pixiv, saved, row, mirrors>>
    BY <1>2, <2>1 DEF Fetch
  <2> HIDE DEF d
  <2> QED BY <2>5, <2>6, GoExportTyped DEF TypeOK, pixiv, mirrors
<1>3. CASE Look(x)
  <2>1. PICK w \in e.page :
          GoExport(x, [e EXCEPT !.pc = "write", !.page = e.page \ {w}, !.at = {w},
                                !.found = IF row[w].known THEN "yes" ELSE "no"])
    BY <1>3 DEF Look
  <2> DEFINE d == [e EXCEPT !.pc = "write", !.page = e.page \ {w}, !.at = {w},
                            !.found = IF row[w].known THEN "yes" ELSE "no"]
  <2>2. w \in Work
    BY <1>e DEF Export
  <2>3. d \in Export
    BY <1>e, <2>2, RowTyped DEF Export, Row
  <2>4. GoExport(x, d) /\ UNCHANGED <<pixiv, saved, row, mirrors>>
    BY <1>3, <2>1 DEF Look
  <2> HIDE DEF d
  <2> QED BY <2>3, <2>4, GoExportTyped DEF TypeOK, pixiv, mirrors
<1>4. CASE Write(x)
  <2> DEFINE Saved(w) == [row[w] EXCEPT !.known = TRUE, !.removed = w \in e.veiled, !.stamp = {x}]
             d == [e EXCEPT !.pc = Turn(e), !.at = {}]
  <2>1. PICK w \in e.at : row' = [row EXCEPT ![w] = Saved(w)] \/ row' = row
    BY <1>4 DEF Write
  <2>2. Turn(e) \in {"look", "mark", "fetch"} /\ w \in Work
    BY <1>e DEF Turn, Export
  <2>3. d \in Export
    BY <1>e, <2>2 DEF Export
  <2>4. Saved(w) \in Row
    <3>1. row[w] \in Row /\ TRUE \in BOOLEAN /\ (w \in e.veiled) \in BOOLEAN
      BY <2>2, RowTyped
    <3> QED BY <3>1 DEF Row
  <2>5. row' \in [Work -> Row]
    <3> HIDE DEF Saved
    <3> QED BY <2>1, <2>4 DEF TypeOK
  <2>6. (GoExport(x, d) \/ GoExport(x, IdleExport)) /\ UNCHANGED <<pixiv, saved, mirrors>>
    BY <1>4 DEF Write
  <2> HIDE DEF d
  <2> QED BY <2>3, <2>5, <2>6, GoExportTyped, IdleTyped DEF TypeOK, pixiv, mirrors
<1>5. CASE MarkMissing(x)
  <2> DEFINE d == [e EXCEPT !.pc = "close"]
  <2>1. d \in Export
    BY <1>e DEF Export
  <2>2. \A w \in Work : [row[w] EXCEPT !.removed = row[w].removed \/ (row[w].known /\ row[w].stamp # {x})]
                          \in Row
    BY RowTyped DEF Row
  <2>3. row' = [w \in Work |-> [row[w] EXCEPT
                  !.removed = row[w].removed \/ (row[w].known /\ row[w].stamp # {x})]]
    BY <1>5 DEF MarkMissing
  <2>4. GoExport(x, d) /\ UNCHANGED <<pixiv, saved, mirrors>>
    BY <1>5 DEF MarkMissing
  <2> HIDE DEF d
  <2> QED BY <2>1, <2>2, <2>3, <2>4, GoExportTyped DEF TypeOK, pixiv, mirrors
<1>6. CASE CloseRun(x) \/ FailExport(x)
  BY <1>6, GoExportTyped, IdleTyped DEF CloseRun, FailExport, TypeOK, pixiv, mirrors
<1>7. CASE ReadUser(x)
  <2> DEFINE d == [IdleExport EXCEPT !.pc = "ready"]
  <2>1. d \in Export
    BY DEF IdleExport, Export
  <2>2. GoExport(x, d) /\ UNCHANGED <<pixiv, saved, row, mirrors>>
    BY <1>7 DEF ReadUser
  <2> HIDE DEF d
  <2> QED BY <2>1, <2>2, GoExportTyped DEF TypeOK, pixiv, mirrors
<1> QED BY <1>1, <1>2, <1>3, <1>4, <1>5, <1>6, <1>7 DEF ExportStep

LEMMA FeedType ==
  ASSUME TypeOK, NEW f \in Feeder,
         Load(f) \/ (\E w \in Work : Dispatch(f, w)) \/ Note(f) \/ FailFeed(f)
  PROVE  TypeOK'
<1> DEFINE e == feed[f]
<1>e. e \in Feed
  BY DEF TypeOK
<1>1. CASE Load(f)
  <2>1. PICK B \in Batches(Limit, {w \in Work : Candidate(w)}) :
          GoFeed(f, [IdleFeed EXCEPT !.pc = "dispatch", !.todo = B, !.ids = B])
    BY <1>1 DEF Load
  <2> DEFINE d == [IdleFeed EXCEPT !.pc = "dispatch", !.todo = B, !.ids = B]
  <2>2. d \in Feed
    BY DEF Batches, IdleFeed, Feed
  <2> HIDE DEF d
  <2>3. GoFeed(f, d)
    BY <2>1 DEF d
  <2> QED BY <1>1, <2>2, <2>3, GoFeedTyped DEF Load, TypeOK, pixiv
<1>2. ASSUME NEW w \in Work, Dispatch(f, w) PROVE TypeOK'
  <2> DEFINE d == [e EXCEPT !.pc = "note", !.todo = e.todo \ {w}, !.at = {w}]
  <2>1. d \in Feed
    BY <1>e DEF Feed
  <2>2. GoFeed(f, d)
    BY <1>2 DEF Dispatch
  <2> HIDE DEF d
  <2> QED BY <1>2, <2>1, <2>2, GoFeedTyped DEF Dispatch, TypeOK, pixiv
<1>3. CASE Note(f)
  <2> DEFINE d == [e EXCEPT !.pc = "dispatch", !.at = {}]
  <2>1. d \in Feed
    BY <1>e DEF Feed
  <2>2. GoFeed(f, d) \/ GoFeed(f, IdleFeed)
    BY <1>3 DEF Note
  <2>3. \A w \in Work : [row[w] EXCEPT !.mirror = "processing"] \in Row
    BY RowTyped DEF Row
  <2>4. row' \in [Work -> Row]
    BY <1>3, <2>3, RowTyped DEF Note
  <2> HIDE DEF d
  <2> QED BY <1>3, <2>1, <2>2, <2>4, GoFeedTyped, IdleTyped DEF Note, TypeOK, pixiv
<1>4. CASE FailFeed(f)
  BY <1>4, GoFeedTyped, IdleTyped DEF FailFeed, TypeOK, pixiv
<1> QED BY <1>1, <1>2, <1>3, <1>4

LEMMA MineType ==
  ASSUME TypeOK, NEW m \in Miner, MineStep(m) \/ FailMine(m)
  PROVE  TypeOK'
<1> DEFINE t == mine[m]
<1>t. t \in Mine
  BY DEF TypeOK
<1>1. ASSUME NEW w \in Work, Take(m, w) PROVE TypeOK'
  <2> DEFINE d == [IdleMine EXCEPT !.pc = "check", !.at = {w}]
  <2>1. d \in Mine
    BY DEF IdleMine, Mine
  <2>2. GoMine(m, d)
    BY <1>1 DEF Take
  <2> HIDE DEF d
  <2> QED BY <1>1, <2>1, <2>2, GoMineTyped DEF Take, TypeOK, pixiv
<1>2. CASE Check(m)
  <2> DEFINE d == [t EXCEPT !.pc = "fill"]
  <2>1. d \in Mine
    BY <1>t DEF Mine
  <2>2. GoMine(m, d) \/ GoMine(m, IdleMine)
    BY <1>2 DEF Check
  <2> HIDE DEF d
  <2> QED BY <1>2, <2>1, <2>2, GoMineTyped, IdleTyped DEF Check, TypeOK, pixiv
<1>3. CASE Fill(m)
  <2> DEFINE d == [t EXCEPT !.pc = "tell", !.ok = TRUE]
             c == [t EXCEPT !.pc = "tell"]
  <2>1. d \in Mine /\ c \in Mine
    BY <1>t DEF Mine
  <2>2. GoMine(m, d) \/ GoMine(m, c)
    BY <1>3 DEF Fill
  <2>3. backup' \subseteq Work
    BY <1>3, <1>t DEF Fill, TypeOK, Mine
  <2> HIDE DEF d, c
  <2> QED BY <1>3, <2>1, <2>2, <2>3, GoMineTyped DEF Fill, TypeOK, pixiv
<1>4. CASE Tell(m)
  <2>1. \A w \in Work : [row[w] EXCEPT !.mirror = IF t.ok THEN "done" ELSE "failed"] \in Row
    BY RowTyped DEF Row
  <2>2. row' \in [Work -> Row]
    BY <1>4, <2>1, RowTyped DEF Tell
  <2>3. queued' \subseteq Work
    BY <1>4, <1>t DEF Tell, TypeOK, Mine
  <2> QED BY <1>4, <2>2, <2>3, GoMineTyped, IdleTyped DEF Tell, TypeOK, pixiv
<1>5. CASE FailMine(m)
  <2>1. queued' \subseteq Work
    BY <1>5, <1>t DEF FailMine, TypeOK, Mine
  <2> QED BY <1>5, <2>1, GoMineTyped, IdleTyped DEF FailMine, TypeOK, pixiv
<1> QED BY <1>1, <1>2, <1>3, <1>4, <1>5 DEF MineStep

LEMMA TypeStep == TypeOK /\ [Next]_vars => TypeOK'
<1>1. ASSUME TypeOK, UNCHANGED vars PROVE TypeOK'
  BY <1>1 DEF TypeOK, vars
<1>2. ASSUME TypeOK, SaveUser PROVE TypeOK'
  BY <1>2 DEF SaveUser, TypeOK, pixiv, mirrors
<1>3. ASSUME TypeOK, DeleteUser PROVE TypeOK'
  <2>1. \A x \in Exporter :
          [export[x] EXCEPT !.found = IF export[x].found = "yes" THEN "gone" ELSE export[x].found]
            \in Export
    BY <1>3, ExportTyped DEF Export
  <2>2. export' = [x \in Exporter |->
          [export[x] EXCEPT !.found = IF export[x].found = "yes" THEN "gone" ELSE export[x].found]]
    BY <1>3 DEF DeleteUser
  <2>3. \A f \in Feeder : [feed[f] EXCEPT !.ids = {}] \in Feed
    BY <1>3 DEF TypeOK, Feed
  <2>4. export' \in [Exporter -> Export]
    BY <2>1, <2>2
  <2>5. feed' \in [Feeder -> Feed]
    BY <1>3, <2>3 DEF DeleteUser
  <2>6. row' \in [Work -> Row]
    BY <1>3, IdleTyped DEF DeleteUser
  <2> QED BY <1>3, <2>4, <2>5, <2>6 DEF DeleteUser, TypeOK, pixiv
<1> QED BY <1>1, <1>2, <1>3, PixivType, ExportType, FeedType, MineType DEF Next

-----------------------------------------------------------------------------
(***************************************************************************)
(* The invariant of an export that runs alone.                             *)
(***************************************************************************)
\* What has to be shown of the record d that the only exporter goes on with.
Sound(x, d, list, rows) ==
  /\ d.pc = "fetch" => d.page = {}
  /\ d.pc \in {"first", "fetch", "look"} => d.at = {}
  /\ d.pc = "write" => \E w \in Work : d.at = {w} /\ (d.found = "gone" => ~rows[w].known)
  /\ d.pc \in {"look", "write"} /\ d.last => d.older = {}
  /\ d.pc = "mark" => d.older \cup d.page \cup d.at = {}
  /\ d.pc \notin {"idle", "ready", "close"} =>
       /\ d.steady \subseteq list
       /\ d.pc # "first" =>
            \A w \in d.steady :
              \/ w \in d.older \cup d.page \cup d.at
              \/ rows[w].known /\ ~rows[w].removed => rows[w].stamp = {x}

LEMMA SoundNow == ASSUME Inv, NEW x \in Exporter PROVE Sound(x, export[x], shelf, row)
  BY DEF Inv, CursorOK, SteadyOK, Sound, Active

LEMMA SoundNext ==
  ASSUME \A x \in Exporter : Sound(x, export'[x], shelf', row')
  PROVE  CursorOK' /\ SteadyOK'
<1>1. CursorOK'
  BY DEF CursorOK, Sound
<1>2. SteadyOK'
  BY DEF SteadyOK, Sound, Active
<1> QED BY <1>1, <1>2

LEMMA PixivKeeps ==
  ASSUME Inv, NEW w \in Work,
         \/ Bookmark(w) \/ Unbookmark(w) \/ Hide(w) \/ Show(w)
         \/ Request(w) \/ DeleteMirror(w)
  PROVE  CursorOK' /\ SteadyOK'
<1>1. CASE Bookmark(w) \/ Show(w) \/ Request(w) \/ DeleteMirror(w)
  BY <1>1, Bystander DEF Bookmark, Show, Request, DeleteMirror, pixiv, mirrors
<1>2. CASE Unbookmark(w)
  <2> SUFFICES ASSUME NEW x \in Exporter PROVE Sound(x, export'[x], shelf', row')
    BY SoundNext
  <2> DEFINE e == export[x]
             d == [e EXCEPT !.older = e.older \ {w}, !.steady = e.steady \ {w}]
  <2>1. export'[x] = d /\ shelf' = shelf \ {w} /\ row' = row
    BY <1>2 DEF Unbookmark
  <2>2. /\ d.pc = e.pc /\ d.page = e.page /\ d.at = e.at /\ d.last = e.last
        /\ d.older = e.older \ {w} /\ d.steady = e.steady \ {w} /\ d.found = e.found
    BY ExportTyped DEF Export, Inv
  <2>3. Sound(x, e, shelf, row)
    BY SoundNow
  <2> HIDE DEF d
  <2> QED BY <2>1, <2>2, <2>3 DEF Sound
<1>3. CASE Hide(w)
  <2> SUFFICES ASSUME NEW x \in Exporter PROVE Sound(x, export'[x], shelf', row')
    BY SoundNext
  <2> DEFINE e == export[x]
             d == [e EXCEPT !.steady = e.steady \ {w}]
  <2>1. export'[x] = d /\ shelf' = shelf /\ row' = row
    BY <1>3 DEF Hide
  <2>2. /\ d.pc = e.pc /\ d.page = e.page /\ d.at = e.at /\ d.last = e.last
        /\ d.older = e.older /\ d.steady = e.steady \ {w} /\ d.found = e.found
    BY ExportTyped DEF Export, Inv
  <2>3. Sound(x, e, shelf, row)
    BY SoundNow
  <2> HIDE DEF d
  <2> QED BY <2>1, <2>2, <2>3 DEF Sound
<1> QED BY <1>1, <1>2, <1>3

LEMMA AccountKeeps ==
  ASSUME Inv, SaveUser \/ DeleteUser
  PROVE  CursorOK' /\ SteadyOK'
<1>1. CASE SaveUser
  BY <1>1, Bystander DEF SaveUser, pixiv
<1>2. CASE DeleteUser
  <2> SUFFICES ASSUME NEW x \in Exporter PROVE Sound(x, export'[x], shelf', row')
    BY SoundNext
  <2> DEFINE e == export[x]
             d == [e EXCEPT !.found = IF e.found = "yes" THEN "gone" ELSE e.found]
  <2>1. export'[x] = d /\ shelf' = shelf /\ row' = [w \in Work |-> NoRow]
    BY <1>2 DEF DeleteUser, pixiv
  <2>2. /\ d.pc = e.pc /\ d.page = e.page /\ d.at = e.at /\ d.last = e.last
        /\ d.older = e.older /\ d.steady = e.steady
    BY ExportTyped DEF Export, Inv
  <2>3. e.steady \subseteq Work
    BY ExportTyped DEF Export, Inv
  <2>4. \A w \in Work : row'[w].known = FALSE
    BY <2>1 DEF NoRow
  <2>5. Sound(x, e, shelf, row)
    BY SoundNow
  <2> HIDE DEF d
  <2> QED BY <2>1, <2>2, <2>3, <2>4, <2>5 DEF Sound
<1> QED BY <1>1, <1>2

LEMMA FeedKeeps ==
  ASSUME Inv, NEW f \in Feeder,
         Load(f) \/ (\E w \in Work : Dispatch(f, w)) \/ Note(f) \/ FailFeed(f)
  PROVE  CursorOK' /\ SteadyOK'
<1>1. CASE Note(f)
  <2>1. \A w \in Work : \/ row'[w] = row[w]
                        \/ row'[w] = [row[w] EXCEPT !.mirror = "processing"]
    BY <1>1 DEF Note
  <2>2. \A w \in Work : row[w] \in Row
    BY RowTyped DEF Inv
  <2>3. \A w \in Work : /\ row'[w].known = row[w].known
                        /\ row'[w].removed = row[w].removed
                        /\ row'[w].stamp = row[w].stamp
    BY <2>1, <2>2 DEF Row
  <2> QED BY <1>1, <2>3, Bystander DEF Note, pixiv
<1>2. CASE Load(f) \/ (\E w \in Work : Dispatch(f, w)) \/ FailFeed(f)
  <2>1. shelf' = shelf /\ export' = export /\ row' = row
    BY <1>2 DEF Load, Dispatch, FailFeed, pixiv
  <2> QED BY <2>1, Bystander
<1> QED BY <1>1, <1>2

LEMMA MineKeeps ==
  ASSUME Inv, NEW m \in Miner, MineStep(m) \/ FailMine(m)
  PROVE  CursorOK' /\ SteadyOK'
<1>1. CASE Tell(m)
  <2>1. \A w \in Work : \/ row'[w] = row[w]
                        \/ row'[w] = [row[w] EXCEPT !.mirror = IF mine[m].ok THEN "done" ELSE "failed"]
    BY <1>1 DEF Tell
  <2>2. \A w \in Work : row[w] \in Row
    BY RowTyped DEF Inv
  <2>3. \A w \in Work : /\ row'[w].known = row[w].known
                        /\ row'[w].removed = row[w].removed
                        /\ row'[w].stamp = row[w].stamp
    BY <2>1, <2>2 DEF Row
  <2> QED BY <1>1, <2>3, Bystander DEF Tell, pixiv
<1>2. CASE (\E w \in Work : Take(m, w)) \/ Check(m) \/ Fill(m) \/ FailMine(m)
  <2>1. shelf' = shelf /\ export' = export /\ row' = row
    BY <1>2 DEF Take, Check, Fill, FailMine, pixiv
  <2> QED BY <2>1, Bystander
<1> QED BY <1>1, <1>2 DEF MineStep

LEMMA ExportSound ==
  ASSUME Inv, NEW x \in Exporter, ReadUser(x) \/ ExportStep(x) \/ FailExport(x)
  PROVE  Sound(x, export'[x], shelf', row')
<1> DEFINE e == export[x]
<1>e. e \in Export /\ Sound(x, e, shelf, row) /\ TypeOK
  BY ExportTyped, SoundNow DEF Inv
<1>t. \A w \in Work : row[w] \in Row
  BY RowTyped DEF Inv
<1>1. CASE Start(x)
  <2> DEFINE d == [IdleExport EXCEPT !.pc = "first", !.steady = shelf \ hidden]
  <2>1. d \in Export
    BY <1>e DEF TypeOK, IdleExport, Export
  <2>2. d.pc = "first" /\ d.at = {} /\ d.steady \subseteq shelf
    BY DEF IdleExport
  <2>3. GoExport(x, d) /\ shelf' = shelf
    BY <1>1 DEF Start, pixiv
  <2> HIDE DEF d
  <2>4. export'[x] = d
    BY <1>e, <2>1, <2>3, GoExportTyped
  <2> QED BY <2>2, <2>3, <2>4 DEF Sound
<1>2. CASE Fetch(x)
  <2> DEFINE rest == IF e.pc = "first" THEN shelf ELSE e.older
  <2>1. PICK page \in Batches(PageSize, rest) :
          LET got == [e EXCEPT !.page = page, !.veiled = page \cap hidden,
                               !.older = rest \ page, !.last = (rest = page)]
          IN GoExport(x, [got EXCEPT !.pc = Turn(got)])
    BY <1>2 DEF Fetch
  <2> DEFINE got == [e EXCEPT !.page = page, !.veiled = page \cap hidden,
                              !.older = rest \ page, !.last = (rest = page)]
             d == [got EXCEPT !.pc = Turn(got)]
  <2>2. rest \subseteq Work /\ page \subseteq rest
    BY <1>e DEF TypeOK, Export, Batches
  <2>3. /\ got \in Export
        /\ got.page = page /\ got.older = rest \ page /\ got.last = (rest = page)
        /\ got.at = e.at /\ got.steady = e.steady
    BY <1>e, <2>2 DEF Export
  <2> HIDE DEF got
  <2>4. Turn(got) \in {"look", "mark", "fetch"}
    BY DEF Turn
  <2>5. /\ d \in Export /\ d.pc = Turn(got)
        /\ d.page = page /\ d.older = rest \ page /\ d.last = (rest = page)
        /\ d.at = e.at /\ d.steady = e.steady
    BY <2>3, <2>4 DEF Export
  <2> HIDE DEF d
  <2>6. GoExport(x, d) /\ shelf' = shelf /\ row' = row /\ e.pc \in {"first", "fetch"}
    BY <1>2, <2>1 DEF Fetch, d, got, pixiv
  <2>7. export'[x] = d
    BY <1>e, <2>5, <2>6, GoExportTyped
  <2>8. /\ d.pc = "fetch" => d.page = {}
        /\ d.pc \in {"look", "write"} /\ d.last => d.older = {}
        /\ d.pc = "mark" => d.page = {} /\ d.older = {}
    BY <2>2, <2>3, <2>5 DEF Turn
  <2>9. d.pc # "write" /\ d.at = {}
    BY <1>e, <2>4, <2>5, <2>6 DEF Sound
  <2>10. d.steady \subseteq shelf
    BY <1>e, <2>5, <2>6 DEF Sound
  <2>11. ASSUME NEW w \in d.steady
         PROVE  w \in d.older \cup d.page \cup d.at
                \/ (row[w].known /\ ~row[w].removed => row[w].stamp = {x})
    <3>1. CASE e.pc = "first"
      BY <3>1, <2>5, <2>10
    <3>2. CASE e.pc = "fetch"
      BY <1>e, <3>2, <2>5 DEF Sound
    <3> QED BY <3>1, <3>2, <2>6
  <2> QED BY <2>6, <2>7, <2>8, <2>9, <2>10, <2>11 DEF Sound
<1>3. CASE Look(x)
  <2>1. PICK w \in e.page :
          GoExport(x, [e EXCEPT !.pc = "write", !.page = e.page \ {w}, !.at = {w},
                                !.found = IF row[w].known THEN "yes" ELSE "no"])
    BY <1>3 DEF Look
  <2> DEFINE d == [e EXCEPT !.pc = "write", !.page = e.page \ {w}, !.at = {w},
                            !.found = IF row[w].known THEN "yes" ELSE "no"]
  <2>2. w \in Work
    BY <1>e DEF Export
  <2>3. /\ d \in Export /\ d.pc = "write" /\ d.page = e.page \ {w} /\ d.at = {w} /\ d.found # "gone"
        /\ d.older = e.older /\ d.last = e.last /\ d.steady = e.steady
    BY <1>e, <1>t, <2>2 DEF Export, Row
  <2> HIDE DEF d
  <2>4. GoExport(x, d) /\ shelf' = shelf /\ row' = row /\ e.pc = "look"
    BY <1>3, <2>1 DEF Look, d, pixiv
  <2>5. export'[x] = d
    BY <1>e, <2>3, <2>4, GoExportTyped
  <2> QED BY <1>e, <2>2, <2>3, <2>4, <2>5 DEF Sound
<1>4. CASE Write(x)
  <2> DEFINE Saved(w) == [row[w] EXCEPT !.known = TRUE, !.removed = w \in e.veiled, !.stamp = {x}]
             d == [e EXCEPT !.pc = Turn(e), !.at = {}]
  <2>2. e.pc = "write" /\ shelf' = shelf
    BY <1>4 DEF Write, pixiv
  <2>3. PICK w \in Work : e.at = {w} /\ (e.found = "gone" => ~row[w].known)
    BY <1>e, <2>2 DEF Sound
  <2>4. /\ d \in Export /\ d.pc = Turn(e) /\ d.pc \in {"look", "mark", "fetch"} /\ d.at = {}
        /\ d.page = e.page /\ d.older = e.older /\ d.last = e.last /\ d.steady = e.steady
    BY <1>e DEF Export, Turn
  <2> HIDE DEF d
  <2>5. \/ row' = [row EXCEPT ![w] = Saved(w)] /\ GoExport(x, d)
        \/ e.found = "gone" /\ row' = row /\ GoExport(x, d)
        \/ GoExport(x, IdleExport)
    BY <1>4, <2>3 DEF Write, d
  <2>6. CASE GoExport(x, IdleExport)
    <3>1. export'[x] = IdleExport
      BY <1>e, <2>6, GoExportTyped, IdleTyped
    <3> QED BY <3>1, IdleTyped DEF Sound
  <2>7. CASE /\ GoExport(x, d)
             /\ row' = [row EXCEPT ![w] = Saved(w)] \/ (e.found = "gone" /\ row' = row)
    <3>1. export'[x] = d
      BY <1>e, <2>4, <2>7, GoExportTyped
    <3>2. /\ d.pc = "fetch" => d.page = {}
          /\ d.pc \in {"look", "write"} /\ d.last => d.older = {}
          /\ d.pc = "mark" => d.page = {} /\ d.older = {}
      BY <1>e, <2>2, <2>4 DEF Sound, Turn
    <3>3. row'[w].known => row'[w].stamp = {x}
      <4>1. CASE row' = [row EXCEPT ![w] = Saved(w)]
        <5>1. row'[w] = Saved(w)
          BY <4>1, <1>e, <2>3 DEF TypeOK
        <5> QED BY <5>1, <1>t, <2>3 DEF Row
      <4>2. CASE e.found = "gone" /\ row' = row
        BY <4>2, <2>3
      <4> QED BY <2>7, <4>1, <4>2
    <3>4. \A v \in Work \ {w} : row'[v] = row[v]
      BY <2>7, <1>e DEF TypeOK
    <3>5. d.steady \subseteq shelf /\ d.steady \subseteq Work
      BY <1>e, <2>2, <2>4 DEF Sound, Export
    <3>6. ASSUME NEW v \in d.steady
          PROVE  v \in d.older \cup d.page \cup d.at
                 \/ (row'[v].known /\ ~row'[v].removed => row'[v].stamp = {x})
      <4>1. CASE v = w
        BY <4>1, <3>3
      <4>2. CASE v # w
        <5>1. v \in e.older \cup e.page \cup e.at
              \/ (row[v].known /\ ~row[v].removed => row[v].stamp = {x})
          BY <1>e, <2>2, <2>4 DEF Sound
        <5> QED BY <5>1, <4>2, <3>4, <3>5, <2>3, <2>4
      <4> QED BY <4>1, <4>2
    <3> QED BY <2>2, <2>4, <3>1, <3>2, <3>5, <3>6 DEF Sound
  <2> QED BY <2>5, <2>6, <2>7
<1>5. CASE MarkMissing(x) \/ CloseRun(x) \/ FailExport(x)
  <2> DEFINE d == [e EXCEPT !.pc = "close"]
  <2>1. d \in Export /\ d.pc = "close"
    BY <1>e DEF Export
  <2> HIDE DEF d
  <2>2. GoExport(x, d) \/ GoExport(x, IdleExport)
    BY <1>5 DEF MarkMissing, CloseRun, FailExport, d
  <2>3. export'[x].pc \in {"close", "idle"}
    BY <1>e, <2>1, <2>2, GoExportTyped, IdleTyped
  <2> QED BY <2>3 DEF Sound
<1>6. CASE ReadUser(x)
  <2> DEFINE d == [IdleExport EXCEPT !.pc = "ready"]
  <2>1. d \in Export /\ d.pc = "ready"
    BY DEF IdleExport, Export
  <2> HIDE DEF d
  <2>2. GoExport(x, d)
    BY <1>6 DEF ReadUser, d
  <2>3. export'[x] = d
    BY <1>e, <2>1, <2>2, GoExportTyped
  <2> QED BY <2>1, <2>3 DEF Sound
<1> QED BY <1>1, <1>2, <1>3, <1>4, <1>5, <1>6 DEF ExportStep

\* An export that has the account to itself: the other workers are idle.
LEMMA ExportKeeps ==
  ASSUME Alone, Alone', Inv, NEW x \in Exporter, ReadUser(x) \/ ExportStep(x) \/ FailExport(x)
  PROVE  CursorOK' /\ SteadyOK'
<1>1. ASSUME NEW y \in Exporter, y # x PROVE Sound(y, export'[y], shelf', row')
  <2>1. export'[y] = export[y]
    BY <1>1 DEF ExportStep, ReadUser, Start, Fetch, Look, Write, MarkMissing, CloseRun, FailExport,
                GoExport, Inv, TypeOK
  <2>2. CASE ReadUser(x)
    <3> DEFINE d == [IdleExport EXCEPT !.pc = "ready"]
    <3>1. d \in Export /\ d.pc = "ready"
      BY DEF IdleExport, Export
    <3> HIDE DEF d
    <3>2. GoExport(x, d)
      BY <2>2 DEF ReadUser, d
    <3>3. export'[x].pc # "idle"
      BY <3>1, <3>2, GoExportTyped DEF Inv
    <3>4. export'[y].pc = "idle"
      BY <1>1, <3>3 DEF Alone
    <3> QED BY <3>4 DEF Sound
  <2>3. CASE ExportStep(x) \/ FailExport(x)
    <3>1. export[x].pc # "idle"
      BY <2>3 DEF ExportStep, Start, Fetch, Look, Write, MarkMissing, CloseRun, FailExport
    <3>2. export[y].pc = "idle"
      BY <1>1, <3>1 DEF Alone
    <3> QED BY <2>1, <3>2 DEF Sound
  <2> QED BY <2>2, <2>3
<1>2. \A y \in Exporter : Sound(y, export'[y], shelf', row')
  BY <1>1, ExportSound
<1> QED BY <1>2, SoundNext

-----------------------------------------------------------------------------
(***************************************************************************)
(* The theorems.                                                           *)
(***************************************************************************)
LEMMA InitInv == Init => Inv
<1> SUFFICES ASSUME Init PROVE Inv
  OBVIOUS
<1>1. TypeOK
  BY IdleTyped DEF Init, TypeOK
<1>2. \A x \in Exporter : export[x].pc = "idle"
  BY IdleTyped DEF Init
<1> QED BY <1>1, <1>2 DEF Inv, CursorOK, SteadyOK

LEMMA InvStep == Alone /\ Alone' /\ Inv /\ [Next]_vars => Inv'
<1> SUFFICES ASSUME Alone, Alone', Inv, [Next]_vars PROVE Inv'
  OBVIOUS
<1>1. TypeOK'
  BY TypeStep DEF Inv
<1>2. CASE UNCHANGED vars
  <2>1. shelf' = shelf /\ export' = export /\ row' = row
    BY <1>2 DEF vars
  <2> QED BY <1>1, <2>1, Bystander DEF Inv
<1>3. CASE Next
  BY <1>1, <1>3, PixivKeeps, AccountKeeps, ExportKeeps, FeedKeeps, MineKeeps DEF Next, Inv
<1> QED BY <1>2, <1>3

\* Whatever the exports, the automatic enqueueing, the mirror tasks and the Pixiv
\* user do, and however many of each there are, a bookmark row only ever holds one
\* of the four mirror statuses of model/pixez_mirror.go, and what a task holds are
\* works of the list.
THEOREM BookmarkTypeCorrect == Spec => []TypeOK
<1>1. Init => TypeOK
  BY InitInv DEF Inv
<1> QED BY <1>1, TypeStep, PTL DEF Spec

\* When exports of the account do not overlap, what Pixiv has listed since a run
\* began is still ahead of the run, or is being saved, or carries its stamp.
THEOREM LoneExportInvariant == Spec /\ []Alone => []Inv
  BY InitInv, InvStep, PTL DEF Spec

\* An export goes from marking to closing only by marking the missing.
LEMMA OnlyMarkMarks ==
  ASSUME Inv, Next, NEW x \in Exporter, export[x].pc = "mark", export'[x].pc = "close"
  PROVE  MarkMissing(x)
<1>1. ASSUME NEW w \in Work,
             \/ Bookmark(w) \/ Unbookmark(w) \/ Hide(w) \/ Show(w)
             \/ Request(w) \/ DeleteMirror(w)
      PROVE  export'[x].pc = export[x].pc
  <2>1. CASE Unbookmark(w)
    <3>1. export'[x] = [export[x] EXCEPT !.older = export[x].older \ {w},
                                         !.steady = export[x].steady \ {w}]
      BY <2>1 DEF Unbookmark
    <3> QED BY <3>1, ExportTyped DEF Export, Inv
  <2>2. CASE Hide(w)
    <3>1. export'[x] = [export[x] EXCEPT !.steady = export[x].steady \ {w}]
      BY <2>2 DEF Hide
    <3> QED BY <3>1, ExportTyped DEF Export, Inv
  <2>3. CASE Bookmark(w) \/ Show(w) \/ Request(w) \/ DeleteMirror(w)
    BY <2>3 DEF Bookmark, Show, Request, DeleteMirror, mirrors
  <2> QED BY <1>1, <2>1, <2>2, <2>3
<1>2. ASSUME SaveUser \/ DeleteUser PROVE export'[x].pc = export[x].pc
  <2>1. CASE DeleteUser
    <3>1. export'[x] = [export[x] EXCEPT
                          !.found = IF export[x].found = "yes" THEN "gone" ELSE export[x].found]
      BY <2>1 DEF DeleteUser
    <3> QED BY <3>1, ExportTyped DEF Export, Inv
  <2> QED BY <1>2, <2>1 DEF SaveUser
<1>3. ASSUME NEW f \in Feeder,
             Load(f) \/ (\E w \in Work : Dispatch(f, w)) \/ Note(f) \/ FailFeed(f)
      PROVE  export' = export
  BY <1>3 DEF Load, Dispatch, Note, FailFeed
<1>4. ASSUME NEW m \in Miner, MineStep(m) \/ FailMine(m) PROVE export' = export
  BY <1>4 DEF MineStep, Take, Check, Fill, Tell, FailMine
<1>5. ASSUME NEW y \in Exporter, ReadUser(y) \/ ExportStep(y) \/ FailExport(y), y # x
      PROVE  export'[x] = export[x]
  BY <1>5 DEF ExportStep, ReadUser, Start, Fetch, Look, Write, MarkMissing, CloseRun, FailExport,
              GoExport, Inv, TypeOK
<1>6. ASSUME ReadUser(x) \/ Start(x) \/ CloseRun(x) \/ Fetch(x) \/ Look(x) \/ Write(x) PROVE FALSE
  BY <1>6 DEF ReadUser, Start, CloseRun, Fetch, Look, Write
<1>7. ASSUME FailExport(x) PROVE FALSE
  BY <1>7, GoExportTyped, IdleTyped DEF FailExport, Inv
<1> QED BY <1>1, <1>2, <1>3, <1>4, <1>5, <1>6, <1>7 DEF Next, ExportStep

\* A run that has the account to itself never hides a bookmark that Pixiv has listed
\* and shown since the run began: not when it dies or fails between two pages or two
\* rows, nor when the list or the account changes while its pages are saved
\* (markMissing{Illust,Novel}BookmarksRemoved).
THEOREM LoneExportKeepsSteady == Spec /\ []Alone => SteadyIsKept
<1> DEFINE A == \A x \in Exporter : \A w \in export[x].steady :
                  export[x].pc = "mark" /\ export'[x].pc = "close" /\ Active(w) => ~row'[w].removed
<1>1. Inv /\ [Next]_vars => [A]_vars
  <2> SUFFICES ASSUME Inv, Next, NEW x \in Exporter, NEW w \in export[x].steady,
                      export[x].pc = "mark", export'[x].pc = "close", Active(w)
               PROVE  ~row'[w].removed
    OBVIOUS
  <2>1. MarkMissing(x)
    BY OnlyMarkMarks
  <2>2. w \in Work /\ row[w] \in Row
    BY ExportTyped, RowTyped DEF Inv, Export
  <2>3. row[w].stamp = {x}
    BY SoundNow DEF Sound, Active
  <2>4. row'[w] = [row[w] EXCEPT !.removed = row[w].removed \/ (row[w].known /\ row[w].stamp # {x})]
    BY <2>1, <2>2 DEF MarkMissing
  <2> QED BY <2>2, <2>3, <2>4 DEF Active, Row
<1>2. Spec /\ []Alone => []Inv
  BY LoneExportInvariant
<1> QED BY <1>1, <1>2, PTL DEF Spec, SteadyIsKept

=============================================================================
