--------------------------- MODULE MCSPRingAttach ---------------------------
(* Bounds for SPRingAttach: the creator and two openers that come and go.  *)
EXTENDS SPRingAttach

CONSTANTS o1, o2

TwoOpeners == {o1, o2}
=============================================================================
