--------------------------- MODULE MCRWTicketLock ---------------------------
(* Bounds for RWTicketLock: bytes that wrap after Base tickets, with fewer *)
(* threads than that.                                                      *)
EXTENDS RWTicketLock, TLC

CONSTANTS p1, p2, p3

TwoProcs == {p2, p3}
ThreeProcs == {p1, p2, p3}
=============================================================================
