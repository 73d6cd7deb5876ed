---------------------------- MODULE MC_MirrorWork ----------------------------
(***************************************************************************)
(* Small instances of MirrorWork.                                          *)
(***************************************************************************)
EXTENDS MirrorWork, TLC
CONSTANTS i1, n1, n2, h1, h2, u1, u2, u3, x1, x2

PagesOf   == [w \in Work |-> IF w \in Novel THEN 1 ELSE 2]
OnePage   == [w \in Work |-> 1]
OneImage  == [w \in Work |-> [p \in Page |-> {h1}]]
TwoImages == [w \in Work |-> [p \in Page |-> {h1, h2}]]
Perm      == Permutations(UploadId) \cup Permutations(Worker)

\* Bound: a worker, a row or both of one work only.  The rows of two works meet
\* nowhere but in waitMirrorConcurrencyLimit (SlotIsGranted, in MC_Progress).
OneAtATime == \E w \in {i1, n1} : row[w] = NoRow /\ \A x \in Worker : run[x].work # w
=============================================================================
