--------------------------- MODULE SpinLockProofs ---------------------------
(***************************************************************************)
(* Proofs about the spin lock, for any set of threads and any number of    *)
(* trylock rounds.  WordIsHolder is inductive given the types: the word    *)
(* tells whether somebody is inside only because no more than one thread   *)
(* is, and the other way round.  That rounds stays within its type needs   *)
(* one more fact, that a trylock under way has rounds left.                *)
(***************************************************************************)
EXTENDS SpinLock, TLAPS

RoundsLeft == \A p \in Proc : pc[p] = "try" => rounds[p] < TryRounds

IInv == TypeOK /\ WordIsHolder /\ RoundsLeft

(* Nobody is inside at first, and no trylock is under way.                 *)
LEMMA InductiveInit == Init => IInv
BY SpinAssumption DEF Init, IInv, TypeOK, WordIsHolder, RoundsLeft

(* Each step of the lock keeps the invariant.                              *)
LEMMA InductiveStep == IInv /\ [Next]_vars => IInv'
<1> SUFFICES ASSUME IInv, [Next]_vars
             PROVE  IInv'
  OBVIOUS
<1> USE SpinAssumption DEF IInv, TypeOK, WordIsHolder, RoundsLeft
<1>1. ASSUME NEW p \in Proc, LockCall(p)
      PROVE  IInv'
  BY <1>1 DEF LockCall
<1>2. ASSUME NEW p \in Proc, LockTake(p)
      PROVE  IInv'
  BY <1>2 DEF LockTake, TakeWord
<1>3. ASSUME NEW p \in Proc, TryCall(p)
      PROVE  IInv'
  BY <1>3 DEF TryCall
<1>4. ASSUME NEW p \in Proc, TryTake(p)
      PROVE  IInv'
  BY <1>4 DEF TryTake, TakeWord
<1>5. ASSUME NEW p \in Proc, TryRound(p)
      PROVE  IInv'
  <2>1. rounds[p] + 1 \in 0 .. TryRounds
    BY <1>5 DEF TryRound
  <2>2. TypeOK'
    BY <1>5, <2>1 DEF TryRound
  <2>3. WordIsHolder' /\ RoundsLeft'
    BY <1>5 DEF TryRound
  <2>. QED  BY <2>2, <2>3
<1>6. ASSUME NEW p \in Proc, Unlock(p)
      PROVE  IInv'
  BY <1>6 DEF Unlock
<1>7. CASE UNCHANGED vars
  BY <1>7 DEF vars
<1>. QED  BY <1>1, <1>2, <1>3, <1>4, <1>5, <1>6, <1>7 DEF Next

(* The word is 0 or 1 and says whether somebody is inside; never two are:  *)
(* what eal_spin_unlock's unchecked subtraction relies on.                 *)
THEOREM WordIsHolderAlways == Spec => [](TypeOK /\ WordIsHolder)
<1>1. Init => IInv
  BY InductiveInit
<1>2. IInv /\ [Next]_vars => IInv'
  BY InductiveStep
<1>. QED  BY <1>1, <1>2, PTL DEF Spec, IInv

-----------------------------------------------------------------------------
(* The owner the abstract lock sees is the thread inside, if there is one. *)
LEMMA OwnerIsHolder ==
  ASSUME WordIsHolder
  PROVE  /\ \A p \in Proc : pc[p] = "held" => Owner = p
         /\ (\A p \in Proc : pc[p] # "held") => Owner = NoOwner
BY DEF WordIsHolder, Owner, Holders

LEMMA OwnerIsHolderNext ==
  ASSUME WordIsHolder'
  PROVE  /\ \A p \in Proc : pc'[p] = "held" => Owner' = p
         /\ (\A p \in Proc : pc'[p] # "held") => Owner' = NoOwner
BY DEF WordIsHolder, Owner, Holders

(* Every step of the code is an Acquire, a Release, or leaves the owner.   *)
LEMMA StepRefines == IInv /\ IInv' /\ [Next]_vars => [M!Next]_Owner
<1> SUFFICES ASSUME IInv, IInv', [Next]_vars
             PROVE  M!Next \/ Owner' = Owner
  OBVIOUS
<1> USE OwnerIsHolder, OwnerIsHolderNext DEF IInv
<1>1. ASSUME NEW p \in Proc,
             pc[p] # "held", lock = 0, pc' = [pc EXCEPT ![p] = "held"]
      PROVE  M!Next
  <2>1. Owner = NoOwner
    BY <1>1 DEF WordIsHolder
  <2>2. Owner' = p
    BY <1>1 DEF TypeOK
  <2>. QED  BY <2>1, <2>2 DEF M!Next, M!Acquire
<1>2. ASSUME NEW p \in Proc, NEW to \in {"idle", "spin", "try"},
             pc[p] # "held", pc' = [pc EXCEPT ![p] = to]
      PROVE  Owner' = Owner
  <2>1. \A q \in Proc : pc'[q] = "held" <=> pc[q] = "held"
    BY <1>2 DEF TypeOK
  <2>2. CASE \E q \in Proc : pc[q] = "held"
    BY <2>1, <2>2
  <2>3. CASE \A q \in Proc : pc[q] # "held"
    BY <2>1, <2>3
  <2>. QED  BY <2>2, <2>3
<1>3. ASSUME NEW p \in Proc, LockCall(p) \/ TryCall(p) \/ TryRound(p)
      PROVE  Owner' = Owner
  BY <1>2, <1>3 DEF LockCall, TryCall, TryRound
<1>4. ASSUME NEW p \in Proc, LockTake(p) \/ TryTake(p)
      PROVE  M!Next
  BY <1>1, <1>4 DEF LockTake, TryTake, TakeWord
<1>5. ASSUME NEW p \in Proc, Unlock(p)
      PROVE  M!Next
  <2>1. Owner = p
    BY <1>5 DEF Unlock
  <2>2. \A q \in Proc : pc'[q] # "held"
    BY <1>5 DEF Unlock, WordIsHolder, TypeOK
  <2>3. Owner' = NoOwner
    BY <2>2
  <2>. QED  BY <2>1, <2>3 DEF M!Next, M!Release
<1>6. CASE UNCHANGED vars
  BY <1>6 DEF vars, Owner, Holders
<1>. QED  BY <1>3, <1>4, <1>5, <1>6 DEF Next

(* The spin lock implements the abstract mutual-exclusion lock.            *)
THEOREM SpinLockIsMutex == Spec => ImplementsMutex
<1>1. Init => M!Init
  BY DEF Init, M!Init, Owner, Holders
<1>2. Init => IInv
  BY InductiveInit
<1>3. IInv /\ [Next]_vars => IInv'
  BY InductiveStep
<1>4. IInv /\ IInv' /\ [Next]_vars => [M!Next]_Owner
  BY StepRefines
<1>. QED  BY <1>1, <1>2, <1>3, <1>4, PTL DEF Spec, ImplementsMutex, M!Spec
=============================================================================
