---------------------------- MODULE MC_ArtistScan ----------------------------
(***************************************************************************)
(* Small instances of ArtistScan, and what the design says of missing      *)
(* works that the code does not do.                                        *)
(***************************************************************************)
EXTENDS ArtistScan, TLC
CONSTANTS w1, w2, x1, x2, c1

TwoPages == <<{w1}, {w2}>>
OnePage  == <<{w1}>>
NoWorks  == <<{}>>
Perm     == Permutations(Worker)

\* docs/design/artist-subscriptions.md:165: only what a complete scan did not
\* return is marked as not returned.  The catalogue never changes here, so no
\* work on it may be marked.
OnlyAbsentIsMissing == \A w \in Listed : ~work[w].missing
=============================================================================
