---------------------------- MODULE SPRingAttach ----------------------------
(***************************************************************************)
(* Attaching to a ring and detaching from it: lmspr_create, lmspr_open and *)
(* lmspr_delete (also called lmspr_close) of eal/lmice_ring.c over the     *)
(* POSIX shared memory of eal/lmice_eal_shm.c.  The ring has a header      *)
(* block and, when the messages do not fit behind it, a data block; the    *)
(* header counts, per block, the handles that refer to it.  The system may *)
(* fail to make or to open a block.                                        *)
(*                                                                         *)
(* The counts are raised with ++ and lowered with eal_decrement, and the   *)
(* return values of lmblk_create and lmblk_open are not looked at.         *)
(* Bounds: one ring, created once; a thread has one handle at a time.      *)
(***************************************************************************)
EXTENDS Integers, FiniteSets

CONSTANTS Creator,   \* the thread that creates the ring
          Openers,   \* threads that open it
          MaxOpens   \* bound: how often the ring is opened

ASSUME AttachAssumption == /\ Creator \notin Openers
                           /\ IsFiniteSet(Openers)
                           /\ MaxOpens \in Nat

Proc == {Creator} \cup Openers
Header == 0
Data == 1
Block == {Header, Data}

VARIABLES named,     \* blocks whose shared-memory name exists
          blkcount,  \* info->blkcount, 0 in fresh shared memory
          rcount,    \* info->block[i].rcount
          mapped,    \* blocks a handle maps
          count,     \* spr->blkcount of a handle
          reg,       \* the count a ++ has loaded
          pc,
          opens,     \* opens made
          early,     \* threads that are detaching and lowered the header's
                     \* count before lmspr_create had stored it
          destroys   \* times the blocks were destroyed, but by these

shared == <<named, blkcount, rcount>>
vars == <<named, blkcount, rcount, mapped, count, reg, pc, opens, early, destroys>>

Init == /\ named = {}
        /\ blkcount = 0
        /\ rcount = [b \in Block |-> 0]
        /\ mapped = [p \in Proc |-> {}]
        /\ count = [p \in Proc |-> 0]
        /\ reg = [p \in Proc |-> 0]
        /\ pc = [p \in Proc |-> IF p = Creator THEN "create" ELSE "idle"]
        /\ opens = 0
        /\ early = {}
        /\ destroys = 0

Resting == {"create", "idle", "attached", "fault", "gone"}
Goto(p, from, to) == /\ pc[p] = from
                     /\ pc' = [pc EXCEPT ![p] = to]

-----------------------------------------------------------------------------
(* lmspr_create *)

(* lmblk_create(info, spr->block): shm_open with O_CREAT, mapped at once *)
CreateBlock(p) == /\ Goto(p, "create", "header")
                  /\ named' = named \cup {Header}
                  /\ mapped' = [mapped EXCEPT ![p] = {Header}]
                  /\ UNCHANGED <<blkcount, rcount, count, reg, opens, destroys, early>>

(* The block is not made, or cannot be mapped: as nobody looks at that, a  *)
(* size that was never set decides between an error and a fault.           *)
CreateBlockFails(p) == /\ Goto(p, "create", "refused")
                       /\ named' \in {named, named \cup {Header}}
                       /\ UNCHANGED <<blkcount, rcount, mapped, count, reg, opens, destroys, early>>

(* More messages can be read than there are, or the list does not fit: the *)
(* error leaves the block mapped, and its name.                            *)
CreateRefused(p) == /\ Goto(p, "header", "refused")
                    /\ UNCHANGED <<named, blkcount, rcount, mapped, count, reg, opens, destroys, early>>

(* Openers that have mapped the block see its stores one by one. *)
StoreBlkcount(p) == /\ Goto(p, "header", "counted")
                    /\ blkcount' = 1
                    /\ UNCHANGED <<named, rcount, mapped, count, reg, opens, destroys, early>>

StoreRcount(p) == /\ Goto(p, "counted", "data")
                  /\ rcount' = [rcount EXCEPT ![Header] = 1]
                  /\ UNCHANGED <<named, blkcount, mapped, count, reg, opens, destroys, early>>

(* The messages fit behind the header, or there are none *)
CreateSmall(p) == /\ Goto(p, "data", "attached")
                  /\ count' = [count EXCEPT ![p] = 1]
                  /\ UNCHANGED <<named, blkcount, rcount, mapped, reg, opens, destroys, early>>

(* Announced in the header before lmblk_create makes it *)
AnnounceData(p) == /\ Goto(p, "data", "announced")
                   /\ blkcount' = 2
                   /\ UNCHANGED <<named, rcount, mapped, count, reg, opens, destroys, early>>

ClearData(p) == /\ Goto(p, "announced", "mkdata")
                /\ rcount' = [rcount EXCEPT ![Data] = 0]
                /\ UNCHANGED <<named, blkcount, mapped, count, reg, opens, destroys, early>>

CreateData(p) == /\ Goto(p, "mkdata", "raise")
                 /\ named' = named \cup {Data}
                 /\ mapped' = [mapped EXCEPT ![p] = @ \cup {Data}]
                 /\ count' = [count EXCEPT ![p] = 2]
                 /\ reg' = [reg EXCEPT ![p] = rcount[Data]]
                 /\ UNCHANGED <<blkcount, rcount, opens, destroys, early>>

(* The handle is freed; the header stays and announces two blocks *)
CreateDataFails(p) == /\ Goto(p, "mkdata", "lost")
                      /\ named' \in {named, named \cup {Data}}
                      /\ UNCHANGED <<blkcount, rcount, mapped, count, reg, opens, destroys, early>>

(* info->rcount ++ at the end of lmblk_create and lmblk_open, for Data. For *)
(* Header they raise a count in the caller's own lmblk_info.                *)
RaiseData(p) == /\ Goto(p, "raise", "attached")
                /\ rcount' = [rcount EXCEPT ![Data] = reg[p] + 1]
                /\ reg' = [reg EXCEPT ![p] = 0]
                /\ UNCHANGED <<named, blkcount, mapped, count, opens, destroys, early>>

-----------------------------------------------------------------------------
(* lmspr_open *)
OpenBlock(p, from, to, b) == /\ Goto(p, from, to)
                             /\ b \in named
                             /\ mapped' = [mapped EXCEPT ![p] = @ \cup {b}]

OpenHeader(p) == /\ OpenBlock(p, "idle", "count", Header)
                 /\ opens < MaxOpens
                 /\ opens' = opens + 1
                 /\ UNCHANGED <<shared, count, reg, destroys, early>>

(* No such name, or no room to map it: spr->block[0] keeps what malloc     *)
(* left in it, and reading ps->blkcount through it faults.                 *)
OpenHeaderFails(p) == /\ Goto(p, "idle", "fault")
                      /\ opens < MaxOpens
                      /\ opens' = opens + 1
                      /\ UNCHANGED <<shared, mapped, count, reg, destroys, early>>

OpenCount(p) == /\ Goto(p, "count", IF blkcount = 2 THEN "openData" ELSE "attached")
                /\ count' = [count EXCEPT ![p] = blkcount]
                /\ UNCHANGED <<shared, mapped, reg, opens, destroys, early>>

OpenData(p) == /\ OpenBlock(p, "openData", "raise", Data)
               /\ reg' = [reg EXCEPT ![p] = rcount[Data]]
               /\ UNCHANGED <<shared, count, opens, destroys, early>>

OpenDataFails(p) == /\ Goto(p, "openData", "attached")
                    /\ UNCHANGED <<shared, mapped, count, reg, opens, destroys, early>>

-----------------------------------------------------------------------------
(* lmspr_delete: lower every block's count, look at the header's count     *)
(* again, and destroy the handle's blocks or only unmap them.              *)
Rest(p) == IF p = Creator THEN "gone" ELSE "idle"

DropHeader(p) ==
  /\ Goto(p, "attached", "drop")
  /\ rcount' = [rcount EXCEPT ![Header] = IF blkcount >= 1 THEN @ - 1 ELSE @]
  /\ early' = IF pc[Creator] = "counted" THEN early \cup {p} ELSE early
  /\ UNCHANGED <<named, blkcount, mapped, count, reg, opens, destroys>>

DropData(p) ==
  /\ Goto(p, "drop", "look")
  /\ rcount' = [rcount EXCEPT ![Data] = IF blkcount = 2 THEN @ - 1 ELSE @]
  /\ UNCHANGED <<named, blkcount, mapped, count, reg, opens, destroys, early>>

(* The blocks both loops go over *)
Released(p) == {b \in Block : b < count[p]}

(* eal_shm_destroy unlinks st.name, which lmblk_delete never sets: some    *)
(* of the names may go, or none.                                           *)
DestroyIf(p, unused) ==
  /\ unused
  /\ Goto(p, "look", Rest(p))
  /\ \E lost \in SUBSET Released(p) : named' = named \ lost
  /\ mapped' = [mapped EXCEPT ![p] = @ \ Released(p)]
  /\ destroys' = IF Released(p) = {} \/ p \in early THEN destroys ELSE destroys + 1
  /\ early' = early \ {p}
  /\ count' = [count EXCEPT ![p] = 0]
  /\ UNCHANGED <<blkcount, rcount, reg, opens>>

(* Bug: <= for ==. *)
DestroyBelowZero(p) == DestroyIf(p, rcount[Header] <= 0)

Destroy(p) == DestroyIf(p, rcount[Header] = 0)

Unmap(p) == /\ rcount[Header] # 0
            /\ Goto(p, "look", Rest(p))
            /\ mapped' = [mapped EXCEPT ![p] = @ \ Released(p)]
            /\ count' = [count EXCEPT ![p] = 0]
            /\ early' = early \ {p}
            /\ UNCHANGED <<shared, reg, opens, destroys>>

Next == \E p \in Proc : \/ CreateBlock(p) \/ CreateBlockFails(p)
                        \/ StoreBlkcount(p) \/ StoreRcount(p) \/ CreateRefused(p)
                        \/ CreateSmall(p) \/ AnnounceData(p) \/ ClearData(p)
                        \/ CreateData(p) \/ CreateDataFails(p)
                        \/ RaiseData(p)
                        \/ OpenHeader(p) \/ OpenHeaderFails(p) \/ OpenCount(p)
                        \/ OpenData(p) \/ OpenDataFails(p)
                        \/ DropHeader(p) \/ DropData(p) \/ Destroy(p) \/ Unmap(p)

Spec == Init /\ [][Next]_vars
-----------------------------------------------------------------------------
(* However attaching and detaching threads interleave, and whatever they   *)
(* have seen of a ring half made, of the threads that detach from it once  *)
(* its header is stored at most one destroys its blocks: the count is      *)
(* lowered atomically but looked at later, and two must not both find 0.   *)
(* One that has detached between the stores of blkcount and rcount, and    *)
(* looks after them, may find the same 0 and destroy the blocks as well.   *)
DestroyedAtMostOnce == destroys <= 1

AtRest == \A p \in Proc : pc[p] \in Resting
Attached(b) == {p \in Proc : b \in mapped[p]}

(* "reference count" (lmice_ring.h:70): when nothing is under way, the     *)
(* header block's count is the number of handles attached to it.           *)
HeaderCountIsReferences ==
  AtRest /\ Header \in named => rcount[Header] = Cardinality(Attached(Header))
=============================================================================
