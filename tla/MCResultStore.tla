--------------------------- MODULE MCResultStore ---------------------------
(* Bounds for ResultStore: three codes, the middle one without rows, the   *)
(* store opened twice and called twice, two failing statements.            *)
EXTENDS ResultStore

NoRows == {2}
=============================================================================
