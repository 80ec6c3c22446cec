-------------------------- MODULE SPRingAttachProofs --------------------------
(***************************************************************************)
(* A proof about attaching to a ring and detaching from it, for any number *)
(* of threads and of openings: of the threads that detach once its header  *)
(* is stored, at most one destroys its blocks.                             *)
(*                                                                         *)
(* The header's count is 1 when lmspr_create has stored it and only falls  *)
(* from there.  Whoever releases blocks has lowered it by one, so that the *)
(* thread that finds 0 is the first, and its finding 0 the last time; but  *)
(* for those that lowered it before the store, which the store hides.      *)
(***************************************************************************)
EXTENDS SPRingAttach, TLAPS

Fits == /\ blkcount \in 0 .. 2
        /\ rcount \in [Block -> Int]
        /\ count \in [Proc -> 0 .. 2]
        /\ reg \in [Proc -> Int]
        /\ destroys \in Nat
        /\ DOMAIN pc = Proc

(* Only the creator writes the header, once, and it is the first to have   *)
(* blocks to release.                                                      *)
Creating == /\ \A p \in Proc :
                 pc[p] \in {"create", "header", "counted", "data", "announced",
                           "mkdata", "refused", "lost"} => p = Creator
            /\ pc[Creator] # "idle"
            /\ blkcount = 0 <=> pc[Creator] \in {"create", "header", "refused"}
            /\ blkcount = 0 => destroys = 0 /\ \A p \in Proc : count[p] = 0

(* A thread that has lowered the count, not early, and has blocks to       *)
(* release                                                                 *)
Leaving(p) == pc[p] \in {"drop", "look"} /\ count[p] > 0 /\ p \notin early

CountFalls ==
  blkcount > 0 =>
    /\ pc[Creator] = "counted" => destroys = 0 /\ \A p \in Proc : ~Leaving(p)
    /\ pc[Creator] # "counted" =>
         /\ rcount[Header] <= 1
         /\ rcount[Header] = 1 => destroys = 0 /\ \A p \in Proc : ~Leaving(p)
         /\ rcount[Header] = 0 => \A p \in Proc : Leaving(p) =>
                                    destroys = 0 /\ \A q \in Proc : Leaving(q) => q = p

IInv == Fits /\ Creating /\ CountFalls /\ DestroyedAtMostOnce

LEMMA CreatorIsAThread == /\ Creator \in Proc
                            /\ Header # Data
                            /\ Header \in Block
                            /\ Data \in Block
  BY DEF Proc, Block, Header, Data

LEMMA InitHolds == Init => IInv
<1> SUFFICES ASSUME Init PROVE IInv
  OBVIOUS
<1>1. \A p \in Proc : pc[p] = IF p = Creator THEN "create" ELSE "idle"
  BY DEF Init
<1>2. Fits /\ DestroyedAtMostOnce
  BY DEF Init, Fits, DestroyedAtMostOnce
<1>3. Creating /\ CountFalls
  BY <1>1, CreatorIsAThread DEF Init, Creating, CountFalls
<1> QED
  BY <1>2, <1>3 DEF IInv

LEMMA StepHolds == IInv /\ [Next]_vars => IInv'
<1> SUFFICES ASSUME IInv, [Next]_vars PROVE IInv'
  OBVIOUS
<1> USE CreatorIsAThread DEF IInv
<1>1. ASSUME NEW p \in Proc, CreateBlock(p) PROVE IInv'
  BY <1>1 DEF CreateBlock, Goto, Fits, Creating, CountFalls, Leaving, DestroyedAtMostOnce
<1>2. ASSUME NEW p \in Proc, CreateBlockFails(p) PROVE IInv'
  BY <1>2 DEF CreateBlockFails, Goto, Fits, Creating, CountFalls, Leaving, DestroyedAtMostOnce
<1>3. ASSUME NEW p \in Proc, StoreBlkcount(p) \/ StoreRcount(p) PROVE IInv'
  BY <1>3 DEF StoreBlkcount, StoreRcount, Goto, Fits, Creating, CountFalls, Leaving, DestroyedAtMostOnce
<1>4. ASSUME NEW p \in Proc, CreateRefused(p) PROVE IInv'
  BY <1>4 DEF CreateRefused, Goto, Fits, Creating, CountFalls, Leaving, DestroyedAtMostOnce
<1>5. ASSUME NEW p \in Proc, CreateSmall(p) PROVE IInv'
  BY <1>5 DEF CreateSmall, Goto, Fits, Creating, CountFalls, Leaving, DestroyedAtMostOnce
<1>6. ASSUME NEW p \in Proc, AnnounceData(p) \/ ClearData(p) PROVE IInv'
  BY <1>6 DEF AnnounceData, ClearData, Goto, Fits, Creating, CountFalls, Leaving, DestroyedAtMostOnce
<1>7. ASSUME NEW p \in Proc, CreateData(p) PROVE IInv'
  BY <1>7 DEF CreateData, Goto, Fits, Creating, CountFalls, Leaving, DestroyedAtMostOnce
<1>8. ASSUME NEW p \in Proc, CreateDataFails(p) PROVE IInv'
  BY <1>8 DEF CreateDataFails, Goto, Fits, Creating, CountFalls, Leaving, DestroyedAtMostOnce
<1>9. ASSUME NEW p \in Proc, RaiseData(p) PROVE IInv'
  BY <1>9 DEF RaiseData, Goto, Fits, Creating, CountFalls, Leaving, DestroyedAtMostOnce
<1>10. ASSUME NEW p \in Proc, OpenHeader(p) PROVE IInv'
  BY <1>10 DEF OpenHeader, OpenBlock, Goto, shared, Fits, Creating, CountFalls, Leaving, DestroyedAtMostOnce
<1>11. ASSUME NEW p \in Proc, OpenHeaderFails(p) PROVE IInv'
  BY <1>11 DEF OpenHeaderFails, Goto, shared, Fits, Creating, CountFalls, Leaving, DestroyedAtMostOnce
<1>12. ASSUME NEW p \in Proc, OpenCount(p) PROVE IInv'
  BY <1>12 DEF OpenCount, Goto, shared, Fits, Creating, CountFalls, Leaving, DestroyedAtMostOnce
<1>13. ASSUME NEW p \in Proc, OpenData(p) PROVE IInv'
  BY <1>13 DEF OpenData, OpenBlock, Goto, shared, Fits, Creating, CountFalls, Leaving, DestroyedAtMostOnce
<1>14. ASSUME NEW p \in Proc, OpenDataFails(p) PROVE IInv'
  BY <1>14 DEF OpenDataFails, Goto, shared, Fits, Creating, CountFalls, Leaving, DestroyedAtMostOnce
<1>15. ASSUME NEW p \in Proc, DropHeader(p) PROVE IInv'
  BY <1>15 DEF DropHeader, Goto, Fits, Creating, CountFalls, Leaving, DestroyedAtMostOnce
<1>16. ASSUME NEW p \in Proc, DropData(p) PROVE IInv'
  BY <1>16 DEF DropData, Goto, Fits, Creating, CountFalls, Leaving, DestroyedAtMostOnce
<1>17. ASSUME NEW p \in Proc, Destroy(p) PROVE IInv'
  <2>1. /\ rcount[Header] = 0 /\ pc[p] = "look"
        /\ \A q \in Proc : pc'[q] = IF q = p THEN Rest(p) ELSE pc[q]
        /\ \A q \in Proc : count'[q] = IF q = p THEN 0 ELSE count[q]
        /\ DOMAIN pc' = Proc /\ count' \in [Proc -> 0 .. 2]
        /\ UNCHANGED <<blkcount, rcount, reg>>
    BY <1>17 DEF Destroy, DestroyIf, Goto, Fits
  <2>2. /\ destroys' = IF count[p] = 0 \/ p \in early THEN destroys ELSE destroys + 1
        /\ early' = early \ {p}
    <3>1. count[p] \in 0 .. 2
      BY DEF Fits
    <3>2. Released(p) = {} <=> count[p] = 0
      BY <3>1 DEF Released, Header, Data, Block
    <3> QED
      BY <1>17, <3>2 DEF Destroy, DestroyIf
  <2>3. Rest(p) \in {"gone", "idle"} /\ Rest(Creator) # "idle"
    BY DEF Rest
  <2>4. Fits'
    BY <2>1, <2>2 DEF Fits
  <2>5. Creating'
    BY <2>1, <2>2, <2>3 DEF Fits, Creating
  <2>6. CASE count[p] = 0 \/ p \in early
    <3>1. CountFalls'
      BY <2>1, <2>2, <2>3, <2>6 DEF Fits, CountFalls, Leaving
    <3> QED
      BY <2>2, <2>4, <2>5, <2>6, <3>1 DEF DestroyedAtMostOnce
  <2>7. CASE count[p] # 0 /\ p \notin early
    <3>1. Leaving(p) /\ blkcount > 0 /\ pc[Creator] # "counted"
      BY <2>1, <2>7 DEF Fits, Creating, Leaving, CountFalls
    <3>2. destroys = 0 /\ \A q \in Proc : Leaving(q) => q = p
      BY <2>1, <3>1 DEF CountFalls
    <3>3. \A q \in Proc : ~Leaving(q)'
      BY <2>1, <2>2, <2>3, <3>2 DEF Leaving
    <3>4. pc'[Creator] # "counted"
      BY <2>1, <2>3, <3>1
    <3> QED
      BY <2>1, <2>2, <2>4, <2>5, <2>7, <3>2, <3>3, <3>4 DEF CountFalls, DestroyedAtMostOnce
  <2> QED
    BY <2>6, <2>7
<1>18. ASSUME NEW p \in Proc, Unmap(p) PROVE IInv'
  BY <1>18 DEF Unmap, Goto, Rest, Released, shared, Fits, Creating, CountFalls, Leaving, DestroyedAtMostOnce
<1>19. CASE UNCHANGED vars
  BY <1>19 DEF vars, Fits, Creating, CountFalls, Leaving, DestroyedAtMostOnce
<1> QED
  BY <1>1, <1>2, <1>3, <1>4, <1>5, <1>6, <1>7, <1>8, <1>9, <1>10, <1>11,
     <1>12, <1>13, <1>14, <1>15, <1>16, <1>17, <1>18, <1>19 DEF Next

(* However threads interleave that attach to the ring and detach from it,  *)
(* at most one of those that detach once its header is stored destroys its *)
(* blocks (lmspr_delete lowers the header's count atomically, but looks at *)
(* it later).                                                              *)
THEOREM DestroyedAtMostOnceAlways == Spec => []DestroyedAtMostOnce
<1>1. IInv => DestroyedAtMostOnce
  BY DEF IInv
<1> QED
  BY <1>1, InitHolds, StepHolds, PTL DEF Spec
=============================================================================
