------------------------------ MODULE MCSPRing ------------------------------
(* Bounds for SPRing: three elements, so that a held one can sit between   *)
(* two free ones; two subscribers, so that pins overlap; publishers that   *)
(* race with one another where a run needs that.                           *)
EXTENDS SPRing, TLC

CONSTANTS w1, w2, r1, r2

OneWriter == {w1}
TwoWriters == {w1, w2}
OneReader == {r1}
TwoReaders == {r1, r2}
AllSizes == Sizes
OnlyFits == {"fits"}
Nobody == {}
Everybody == Writers \cup Readers
ReaderSymmetry == Permutations(TwoReaders)
=============================================================================
