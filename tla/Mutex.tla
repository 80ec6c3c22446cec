------------------------------- MODULE Mutex -------------------------------
(***************************************************************************)
(* What a mutual-exclusion lock promises to its callers: at most one owner *)
(* at any time, ownership passes through "nobody", and only the owner      *)
(* gives it up.  The spin lock of eal/lmice_eal_spinlock.c and the         *)
(* critical sections of the SP-Ring (eal/lmice_ring.c) implement it.       *)
(***************************************************************************)
CONSTANTS Proc,     \* the threads that use the lock
          NoOwner   \* "nobody holds the lock"

VARIABLE owner

Init == owner = NoOwner

Acquire(p) == /\ owner = NoOwner
              /\ owner' = p

Release(p) == /\ owner = p
              /\ owner' = NoOwner

Next == \E p \in Proc : Acquire(p) \/ Release(p)

Spec == Init /\ [][Next]_owner
=============================================================================
