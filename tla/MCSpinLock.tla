----------------------------- MODULE MCSpinLock -----------------------------
(* Bounds for SpinLock: three threads, a trylock that gives up after two   *)
(* rounds.                                                                 *)
EXTENDS SpinLock

CONSTANTS t1, t2, t3

MCProc == {t1, t2, t3}
MCTryRounds == 2
=============================================================================
