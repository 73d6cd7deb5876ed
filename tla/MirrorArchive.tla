---------------------------- MODULE MirrorArchive ----------------------------
(***************************************************************************)
(* What a mirror promises, without workers, tasks, leases or tokens        *)
(* (docs/design/artist-subscriptions.md, section 8.2): the archive only    *)
(* grows.  A detail snapshot is stored once.  A page is stored where there *)
(* is none, or where the upload behind the stored one has been removed;    *)
(* a page that is still readable is never replaced.  Content disappears    *)
(* only when the user deletes the mirror or removes an upload.             *)
(***************************************************************************)
CONSTANTS Work, Page, UploadId, NoFile, Inline

VARIABLES
  archive,   \* archive[w]: what is kept of work w
  removed    \* the uploads that have been removed

avars == <<archive, removed>>

File == UploadId \cup {NoFile, Inline}

Nothing == [exists |-> FALSE, detail |-> FALSE, files |-> [p \in Page |-> NoFile]]

AInit == archive = [w \in Work |-> Nothing] /\ removed = {}

\* The first task for a work creates its row.
Open(w) ==
  /\ ~archive[w].exists
  /\ archive' = [archive EXCEPT ![w].exists = TRUE]
  /\ UNCHANGED removed

\* The original detail is stored, once.
Describe(w) ==
  /\ archive[w].exists /\ ~archive[w].detail
  /\ archive' = [archive EXCEPT ![w].detail = TRUE]
  /\ UNCHANGED removed

\* A missing part is filled in; every other part stays as it is.
Keep(w, p, f) ==
  /\ archive[w].exists /\ archive[w].detail
  /\ archive[w].files[p] \in removed \cup {NoFile}
  /\ archive' = [archive EXCEPT ![w].files[p] = f]
  /\ UNCHANGED removed

\* The user deletes the mirror.
Drop(w) ==
  /\ archive' = [archive EXCEPT ![w] = Nothing]
  /\ UNCHANGED removed

\* An upload is removed.
Remove(u) ==
  /\ removed' = removed \cup {u}
  /\ UNCHANGED archive

ANext ==
  \/ \E w \in Work : Open(w) \/ Describe(w) \/ Drop(w)
  \/ \E w \in Work, p \in Page, f \in UploadId \cup {Inline} : Keep(w, p, f)
  \/ \E u \in UploadId : Remove(u)

ASpec == AInit /\ [][ANext]_avars
=============================================================================
