--------------------------- MODULE MC_MirrorHistory ---------------------------
(***************************************************************************)
(* MirrorWork with a record of the works whose backup has been complete    *)
(* and reported so, without interruption.                                  *)
(***************************************************************************)
EXTENDS MC_MirrorWork

VARIABLE backedUp

HSpec ==
  /\ Init /\ backedUp = {}
  /\ [][/\ Next
        /\ backedUp' = {w \in Work : /\ Complete(w)'
                                     /\ w \in backedUp \/ row'[w].status = "success"}
       ]_<<vars, backedUp>>

\* docs/design/artist-subscriptions.md:186: a complete backup stays available
\* and is not degraded to failed.
CompleteIsNeverFailed == \A w \in backedUp : row[w].status # "failed"
=============================================================================
