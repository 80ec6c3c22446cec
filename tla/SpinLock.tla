------------------------------ MODULE SpinLock ------------------------------
(***************************************************************************)
(* The spin lock of eal/lmice_eal_spinlock.c: one machine word, taken by a *)
(* compare-and-swap from 0 to 1 and given back by a fetch-and-subtract.    *)
(* eal_spin_lock spins without limit; eal_spin_trylock gives up with 1     *)
(* after TryRounds sleeps (10 in the code), each preceded by               *)
(* LOCK_LOOP_COUNT attempts that all found the word taken.                 *)
(*                                                                         *)
(* A failed compare-and-swap changes nothing, so the attempts of one round *)
(* are one step here: either an attempt of the round finds the word free   *)
(* (TryTake), or all of them failed and the round ends (TryRound).         *)
(*                                                                         *)
(* The callers are the threads of the program.  They keep the convention   *)
(* every caller in src/ keeps: unlock is called by the thread whose last   *)
(* lock or trylock returned 0, and by nobody else.                         *)
(***************************************************************************)
EXTENDS Integers

CONSTANTS Proc,       \* the threads
          TryRounds,  \* sleeps of one trylock before it gives up
          NoOwner     \* "nobody", for the abstract lock

ASSUME SpinAssumption == /\ TryRounds \in Nat \ {0}
                         /\ NoOwner \notin Proc

VARIABLES lock,    \* the word, spinlock_t
          pc,      \* where each thread is
          rounds   \* sleep_times of a trylock under way

vars == <<lock, pc, rounds>>

Init == /\ lock = 0
        /\ pc = [p \in Proc |-> "idle"]
        /\ rounds = [p \in Proc |-> 0]

(* eal_spin_lock *)
LockCall(p) == /\ pc[p] = "idle"
               /\ pc' = [pc EXCEPT ![p] = "spin"]
               /\ UNCHANGED <<lock, rounds>>

(* Bug: an exchange whose result nobody looks at. *)
TakeWordBlindly == lock' = 1

(* eal_compare_and_swap32(lock, 0, 1) that finds 0 *)
TakeWord == /\ lock = 0
            /\ lock' = 1

LockTake(p) == /\ pc[p] = "spin"
               /\ TakeWord
               /\ pc' = [pc EXCEPT ![p] = "held"]
               /\ UNCHANGED rounds

(* eal_spin_trylock *)
TryCall(p) == /\ pc[p] = "idle"
              /\ pc' = [pc EXCEPT ![p] = "try"]
              /\ rounds' = [rounds EXCEPT ![p] = 0]
              /\ UNCHANGED lock

TryTake(p) == /\ pc[p] = "try"
              /\ TakeWord
              /\ pc' = [pc EXCEPT ![p] = "held"]
              /\ UNCHANGED rounds

(* Bug: ret starts at 0, giving up reports success. *)
TryRoundSucceeds(p) ==
  /\ pc[p] = "try" /\ lock # 0
  /\ rounds' = [rounds EXCEPT ![p] = @ + 1]
  /\ pc' = [pc EXCEPT ![p] = IF rounds[p] + 1 < TryRounds THEN "try" ELSE "held"]
  /\ UNCHANGED lock

(* Bug: sleep_times is not counted. *)
TryRoundUncounted(p) == pc[p] = "try" /\ lock # 0 /\ UNCHANGED vars

(* LOCK_LOOP_COUNT attempts failed: usleep(1), and return 1 after the last round. *)
TryRound(p) == /\ pc[p] = "try"
               /\ lock # 0
               /\ rounds' = [rounds EXCEPT ![p] = @ + 1]
               /\ pc' = [pc EXCEPT ![p] = IF rounds[p] + 1 < TryRounds THEN "try" ELSE "idle"]
               /\ UNCHANGED lock

(* Bug: the word is left as it was. *)
UnlockNothing(p) == /\ pc[p] = "held"
                    /\ pc' = [pc EXCEPT ![p] = "idle"]
                    /\ UNCHANGED <<lock, rounds>>

(* eal_spin_unlock: it subtracts 1 whatever the word holds. *)
Unlock(p) == /\ pc[p] = "held"
             /\ lock' = lock - 1
             /\ pc' = [pc EXCEPT ![p] = "idle"]
             /\ UNCHANGED rounds

Next == \E p \in Proc : \/ LockCall(p) \/ LockTake(p)
                        \/ TryCall(p) \/ TryTake(p) \/ TryRound(p)
                        \/ Unlock(p)

Spec == Init /\ [][Next]_vars

(* A thread inside a trylock keeps running; nobody has to call anything,   *)
(* or to give the lock back.                                               *)
FairSpec == Spec /\ \A p \in Proc : WF_vars(TryTake(p) \/ TryRound(p))

(* Callers that spin on the word and give the lock back, where a property  *)
(* needs that of them.                                                     *)
HoldersUnlock == \A p \in Proc : WF_vars(LockTake(p)) /\ WF_vars(Unlock(p))
-----------------------------------------------------------------------------
TypeOK == /\ lock \in {0, 1}
          /\ pc \in [Proc -> {"idle", "spin", "try", "held"}]
          /\ rounds \in [Proc -> 0 .. TryRounds]

(* The word is 1 exactly when some thread is inside, and two threads are   *)
(* never inside together: eal_spin_unlock has no owner check, so this is   *)
(* what keeps its subtraction from driving the word below zero, after      *)
(* which no compare-and-swap from 0 would ever succeed again.              *)
WordIsHolder == /\ lock = 0 <=> \A p \in Proc : pc[p] # "held"
                /\ \A p, q \in Proc : pc[p] = "held" /\ pc[q] = "held" => p = q

(* The abstract lock, owned by the thread inside the critical section.     *)
Holders == {p \in Proc : pc[p] = "held"}
Owner == IF Holders = {} THEN NoOwner ELSE CHOOSE p \in Proc : pc[p] = "held"

M == INSTANCE Mutex WITH owner <- Owner

(* The spin lock implements the abstract mutual-exclusion lock: every step *)
(* of the compare-and-swap protocol is an Acquire, a Release or nothing,   *)
(* so the word never passes from one thread to another in one step and is  *)
(* never given up by a thread that does not hold it.                       *)
ImplementsMutex == M!Spec

(* eal_spin_trylock returns, with the lock or without it, even while the   *)
(* thread inside never leaves (a holder that died, in shared memory).      *)
TryReturns == \A p \in Proc : pc[p] = "try" ~> pc[p] # "try"

(* While holders unlock, the word keeps moving: a taken word is given back *)
(* and a free word with a thread spinning on it is taken again.  (Not that *)
(* a particular thread gets in: it may lose every race, the lock is not    *)
(* fair.)                                                                  *)
WordKeepsMoving ==
  HoldersUnlock => /\ lock = 1 ~> lock = 0
                   /\ (\E p \in Proc : pc[p] = "spin") ~> lock = 1
=============================================================================
