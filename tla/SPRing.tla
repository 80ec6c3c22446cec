------------------------------- MODULE SPRing -------------------------------
(***************************************************************************)
(* The message ring of the publish-subscribe middleware,                   *)
(* eal/lmice_ring.{h,c}: an array st of BlbCount status elements in shared *)
(* memory, kept in order of time with the newest message at st[0].  Each   *)
(* element names the data block its message is stored in.  A publisher     *)
(* recycles an element nobody reads: it moves it to the head, stamps it    *)
(* and copies the message into its block.  A subscriber pins elements by   *)
(* raising their status, takes a private copy of them, reads the blocks    *)
(* in place without any lock, and later gives the elements back.           *)
(*                                                                         *)
(* Every operation runs between eal_spin_lock and eal_spin_unlock on       *)
(* info->lock.  Blocks are read outside that lock, so the writer's loop is *)
(* modelled one element, and one copy, at a time.                          *)
(*                                                                         *)
(* No code under src/ raises info->length: the header gives that to the    *)
(* "one maintainer" of the machine, which is not in the repository.        *)
(* Maintain models it (external): under the lock, it publishes any number  *)
(* of elements up to capacity, among those that hold a message.            *)
(***************************************************************************)
EXTENDS Integers, FiniteSets

CONSTANTS Writers,    \* publisher threads (lmspr_write)
          Readers,    \* subscriber threads (lmspr_readn/readp, lmspr_release)
          BlbCount,   \* elements and data blocks of the ring
          Capacity,   \* largest readable length; lmspr_create wants <= BlbCount
          MaxTs,      \* bound: the largest time stamp a publisher uses
          SizesUsed,  \* message sizes publishers pass, among Sizes
          Mortal,     \* threads that may die inside an operation
          NoOwner     \* "nobody holds info->lock"

(* What lmspr_write compares size with: copied only when 0 < size <= blbsize *)
Sizes == {"none", "fits", "big"}

ASSUME RingAssumption ==
  /\ BlbCount \in Nat \ {0}
  /\ Capacity \in 0 .. BlbCount
  /\ MaxTs \in Nat
  /\ Writers \cap Readers = {}
  /\ NoOwner \notin Writers \cup Readers
  /\ IsFiniteSet(Readers)
  /\ SizesUsed \subseteq Sizes
  /\ Mortal \subseteq Writers \cup Readers

Proc == Writers \cup Readers
Index == 0 .. BlbCount - 1
Slot == Index                   \* data blocks: blkindex and offset of an element
Stamp == 1 .. MaxTs

(* LMSPR_WRONLY 0 (never written), LMSPR_RDWR 1, LMSPR_RDONLY 2, 3, ...      *)
WRONLY == 0
RDWR == 1

VARIABLES lock,     \* info->lock
          length,   \* info->length, elements subscribers may read
          st,       \* info->st
          blob,     \* blob[s]: stamp of the message block s holds, 0 at first
          pc,       \* where each thread is in its operation
          wr,       \* lmspr_write's arguments and loop index
          got       \* a subscriber's private copy of the elements it pinned

vars == <<lock, length, st, blob, pc, wr, got>>
ring == <<length, st, blob>>

NoWrite == [ts |-> 0, size |-> "none", i |-> 0]

(* lmspr_create: the list is zeroed, element i names block i. *)
Init ==
  /\ lock = 0
  /\ length = 0
  /\ st = [i \in Index |-> [ts |-> 0, status |-> WRONLY, slot |-> i]]
  /\ blob = [s \in Slot |-> 0]
  /\ pc = [p \in Proc |-> "idle"]
  /\ wr = [w \in Writers |-> NoWrite]
  /\ got = [r \in Readers |-> {}]

-----------------------------------------------------------------------------
(* The spin lock around every operation. *)

(* Between eal_spin_lock and eal_spin_unlock *)
Inside == {"wcheck", "wscan", "wcopy", "wunlock", "rpin", "runlock",
           "lunpin", "lunlock", "deadinside"}

(* Bug: the word is added to, not compared and swapped. *)
EnterAdding(p, at, to) == /\ pc[p] = at
                          /\ lock' = lock + 1
                          /\ pc' = [pc EXCEPT ![p] = to]

Enter(p, at, to) == /\ pc[p] = at
                    /\ lock = 0
                    /\ lock' = 1
                    /\ pc' = [pc EXCEPT ![p] = to]

Leave(p, at, to) == /\ pc[p] = at
                    /\ lock' = lock - 1
                    /\ pc' = [pc EXCEPT ![p] = to]

-----------------------------------------------------------------------------
(* lmspr_write *)

WriteCall(w) ==
  /\ pc[w] = "idle"
  /\ \E ts \in Stamp, size \in SizesUsed :
       wr' = [wr EXCEPT ![w] = [ts |-> ts, size |-> size, i |-> 0]]
  /\ pc' = [pc EXCEPT ![w] = "wlock"]
  /\ UNCHANGED <<ring, lock, got>>

WriteLock(w) == /\ Enter(w, "wlock", "wcheck")
                /\ UNCHANGED <<ring, wr, got>>

(* The check of lmspr_write, before a loop that starts at i *)
CheckThenScan(w, stale, i) ==
  /\ pc[w] = "wcheck"
  /\ IF stale
       THEN /\ pc' = [pc EXCEPT ![w] = "wunlock"]
            /\ UNCHANGED wr
       ELSE /\ pc' = [pc EXCEPT ![w] = "wscan"]
            /\ wr' = [wr EXCEPT ![w].i = i]
  /\ UNCHANGED <<ring, lock, got>>

(* Bugs: no check at all, < for <=, and a loop that starts one late. *)
WriteUnchecked(w) == CheckThenScan(w, FALSE, length)
WriteIfNotOlder(w) == CheckThenScan(w, wr[w].ts < st[0].ts, length)
WriteSkipsOne(w) == CheckThenScan(w, wr[w].ts <= st[0].ts, length + 1)

(* Bug: a stale write returns without unlocking. *)
WriteStaleReturns(w) ==
  /\ pc[w] = "wcheck"
  /\ IF wr[w].ts <= st[0].ts
       THEN /\ pc' = [pc EXCEPT ![w] = "idle"]
            /\ UNCHANGED wr
       ELSE /\ pc' = [pc EXCEPT ![w] = "wscan"]
            /\ wr' = [wr EXCEPT ![w].i = length]
  /\ UNCHANGED <<ring, lock, got>>

(* "Stop write when ts <= the first element's timestamp" *)
WriteCheck(w) == CheckThenScan(w, wr[w].ts <= st[0].ts, length)

(* Bug: an element with one subscriber counts as free. *)
FreeOrOnce(e) == e.status \in {WRONLY, RDWR, RDWR + 1}

Free(e) == e.status \in {WRONLY, RDWR}

(* Bug: the move is one element short. *)
MoveOneShort(i, e) == [j \in Index |-> IF j = 0 THEN e
                                       ELSE IF j < i THEN st[j - 1]
                                       ELSE st[j]]

(* Element i leaves its place for the head; those before it move down one. *)
MoveToHead(i, e) == [j \in Index |-> IF j = 0 THEN e
                                     ELSE IF j <= i THEN st[j - 1]
                                     ELSE st[j]]

(* One turn of the loop over i = length .. blbcount-1.  The loop goes on   *)
(* after it has found a free element.                                      *)
WriteScan(w) ==
  LET i == wr[w].i IN
  /\ pc[w] = "wscan"
  /\ \/ /\ i = BlbCount
        /\ pc' = [pc EXCEPT ![w] = "wunlock"]
        /\ UNCHANGED <<wr, st>>
     \/ /\ i < BlbCount
        /\ ~Free(st[i])
        /\ wr' = [wr EXCEPT ![w].i = i + 1]
        /\ UNCHANGED <<pc, st>>
     \/ /\ i < BlbCount
        /\ Free(st[i])
        /\ st' = MoveToHead(i, [ts |-> wr[w].ts, status |-> RDWR, slot |-> st[i].slot])
        /\ IF wr[w].size = "fits"
             THEN /\ pc' = [pc EXCEPT ![w] = "wcopy"]
                  /\ UNCHANGED wr
             ELSE /\ wr' = [wr EXCEPT ![w].i = i + 1]
                  /\ UNCHANGED pc
  /\ UNCHANGED <<lock, length, blob, got>>

(* Bug: the message goes where the element was before the move. *)
WriteCopyBehind(w) ==
  /\ pc[w] = "wcopy"
  /\ blob' = [blob EXCEPT ![st[wr[w].i].slot] = wr[w].ts]
  /\ wr' = [wr EXCEPT ![w].i = @ + 1]
  /\ pc' = [pc EXCEPT ![w] = "wscan"]
  /\ UNCHANGED <<lock, length, st, got>>

(* memcpy of the message into the block of the element now at the head *)
WriteCopy(w) ==
  /\ pc[w] = "wcopy"
  /\ blob' = [blob EXCEPT ![st[0].slot] = wr[w].ts]
  /\ wr' = [wr EXCEPT ![w].i = @ + 1]
  /\ pc' = [pc EXCEPT ![w] = "wscan"]
  /\ UNCHANGED <<lock, length, st, got>>

WriteUnlock(w) == /\ Leave(w, "wunlock", "idle")
                  /\ wr' = [wr EXCEPT ![w] = NoWrite]
                  /\ UNCHANGED <<ring, got>>

-----------------------------------------------------------------------------
(* lmspr_readn and lmspr_readp *)

ReadCall(r) == /\ pc[r] = "idle"
               /\ pc' = [pc EXCEPT ![r] = "rlock"]
               /\ UNCHANGED <<ring, lock, wr, got>>

ReadLock(r) == /\ Enter(r, "rlock", "rpin")
               /\ UNCHANGED <<ring, wr, got>>

(* Copy the elements at the positions taken and raise their status.  Of an *)
(* element's copy the caller uses its stamp, to release it, and its block, *)
(* to read it.                                                             *)
Pin(r, taken) ==
  /\ pc[r] = "rpin"
  /\ got' = [got EXCEPT ![r] = {[ts |-> st[i].ts, slot |-> st[i].slot] : i \in taken}]
  /\ st' = [i \in Index |-> IF i \in taken THEN [st[i] EXCEPT !.status = @ + 1]
                            ELSE st[i]]
  /\ pc' = [pc EXCEPT ![r] = "runlock"]
  /\ UNCHANGED <<lock, length, blob, wr>>

(* lmspr_readn: the first n elements *)
ReadN(r) == \E n \in 0 .. BlbCount : Pin(r, {i \in Index : i < length /\ i < n})

(* lmspr_readp: the elements stamped from ts up to, not including, ts+period *)
ReadP(r) == \E ts, period \in Stamp :
              Pin(r, {i \in Index : /\ i < length
                                   /\ st[i].ts >= ts
                                   /\ st[i].ts < ts + period})

(* A read that found nothing leaves nothing to release. *)
ReadUnlock(r) == /\ Leave(r, "runlock", IF got[r] = {} THEN "idle" ELSE "reading")
                 /\ UNCHANGED <<ring, wr, got>>

-----------------------------------------------------------------------------
(* lmspr_release(spr, st, n), with what the read returned *)

ReleaseCall(r) == /\ pc[r] = "reading"
                  /\ pc' = [pc EXCEPT ![r] = "llock"]
                  /\ UNCHANGED <<ring, lock, wr, got>>

ReleaseLock(r) == /\ Enter(r, "llock", "lunpin")
                  /\ UNCHANGED <<ring, wr, got>>

(* The stamp of the first element of the private copy: copies are taken    *)
(* from the newest element to the oldest.                                  *)
NewestGot(r) == CHOOSE ts \in {e.ts : e \in got[r]} :
                  \A e \in got[r] : e.ts <= ts

(* The first position stamped like the first copy, found again by value:   *)
(* the n positions from it on are lowered, whatever they hold by now.      *)
Unpin(r, n) ==
  LET found == {i \in Index : st[i].ts = NewestGot(r)} IN
  /\ pc[r] = "lunpin"
  /\ IF found = {}
       THEN UNCHANGED st
       ELSE LET first == CHOOSE i \in found : \A j \in found : i <= j IN
            st' = [i \in Index |->
                     IF i \in first .. first + n - 1
                       THEN [st[i] EXCEPT !.status = @ - 1]
                       ELSE st[i]]
  /\ got' = [got EXCEPT ![r] = {}]
  /\ pc' = [pc EXCEPT ![r] = "lunlock"]
  /\ UNCHANGED <<lock, length, blob, wr>>

(* Bug: j <= n for j < n. *)
ReleaseOneMore(r) == Unpin(r, Cardinality(got[r]) + 1)

ReleaseUnpin(r) == Unpin(r, Cardinality(got[r]))

ReleaseUnlock(r) == /\ Leave(r, "lunlock", "idle")
                    /\ UNCHANGED <<ring, wr, got>>

-----------------------------------------------------------------------------
(* The maintainer (external) *)

Written == {i \in Index : st[i].ts > 0}

Maintain ==
  /\ lock = 0
  /\ \E n \in 0 .. Capacity : /\ \A i \in Index : i < n => i \in Written
                              /\ length' = n
  /\ UNCHANGED <<lock, st, blob, pc, wr, got>>

-----------------------------------------------------------------------------
(* A thread inside an operation dies.  A subscriber may also die while it  *)
(* holds elements.  Nothing in the shared memory tells the others.         *)
Crash(p) == /\ p \in Mortal
            /\ pc[p] \notin {"idle", "dead", "deadinside"}
            /\ pc' = [pc EXCEPT ![p] = IF pc[p] \in Inside THEN "deadinside" ELSE "dead"]
            /\ UNCHANGED <<ring, lock, wr, got>>

Write(w) == \/ WriteLock(w) \/ WriteCheck(w) \/ WriteScan(w) \/ WriteCopy(w)
            \/ WriteUnlock(w)
Read(r) == ReadLock(r) \/ ReadN(r) \/ ReadP(r) \/ ReadUnlock(r)
Release(r) == ReleaseLock(r) \/ ReleaseUnpin(r) \/ ReleaseUnlock(r)

Next == \/ \E w \in Writers : WriteCall(w) \/ Write(w)
        \/ \E r \in Readers : ReadCall(r) \/ Read(r) \/ ReleaseCall(r) \/ Release(r)
        \/ Maintain
        \/ \E p \in Proc : Crash(p)

Spec == Init /\ [][Next]_vars

(* A thread that is not dead and waits for nothing keeps running.          *)
FairSpec == /\ Spec
            /\ \A w \in Writers : WF_vars(Write(w))
            /\ \A r \in Readers : WF_vars(Read(r)) /\ WF_vars(Release(r))
-----------------------------------------------------------------------------
Element == [ts : 0 .. MaxTs, status : Int, slot : Slot]
Copy == [ts : Stamp, slot : Slot]

TypeOK ==
  /\ lock \in {0, 1}
  /\ length \in 0 .. Capacity
  /\ st \in [Index -> Element]
  /\ blob \in [Slot -> 0 .. MaxTs]
  /\ pc \in [Proc -> Inside \cup {"idle", "dead", "wlock", "rlock", "reading", "llock"}]
  /\ wr \in [Writers -> [ts : 0 .. MaxTs, size : Sizes, i : 0 .. BlbCount]]
  /\ got \in [Readers -> SUBSET Copy]

(* The list is kept from the newest message to the oldest, whoever wrote   *)
(* and in whatever order the publishers' calls got the lock: that is what  *)
(* "the first n" and the window of a read by time mean to a subscriber.    *)
NewestFirst == \A i, j \in Index : i <= j => st[i].ts >= st[j].ts

(* Moving elements about never makes two of them name the same data block, *)
(* so a copy into the head's block never lands in another element's        *)
(* message, and (Index being finite) no block is ever lost.                *)
BlocksDistinct == \A i, j \in Index : st[i].slot = st[j].slot => i = j

(* The elements a subscriber pinned stay next to each other and in order   *)
(* however far publishers push them back, and the first position with the  *)
(* stamp of the subscriber's first copy is still where they start: so the  *)
(* n positions release lowers are exactly the elements that were pinned,   *)
(* inside the array, and never a neighbour's.                              *)
PlaceOf(r) == {i \in Index : [ts |-> st[i].ts, slot |-> st[i].slot] \in got[r]}
ReleaseFindsItsElements ==
  \A r \in Readers : got[r] # {} =>
    \E first \in Index :
      /\ PlaceOf(r) = first .. first + Cardinality(got[r]) - 1
      /\ \A i \in Index : i < first => st[i].ts # NewestGot(r)
      /\ st[first].ts = NewestGot(r)

(* A status is 1 plus the number of subscribers, dead ones included, that  *)
(* hold the element; an element never written is held by nobody.  If it    *)
(* ever fell short, a publisher would recycle a block under a reader; if   *)
(* it ever ran over, the element would be lost to publishers for good.     *)
Pinning(i) == {r \in Readers : i \in PlaceOf(r)}
StatusCountsPins ==
  \A i \in Index : st[i].status = IF st[i].ts = 0 THEN WRONLY
                                  ELSE RDWR + Cardinality(Pinning(i))

(* What a subscriber reads in place, without the lock, does not change     *)
(* between its read and its release: no publisher step touches a block it  *)
(* holds.                                                                  *)
HeldBlocksUntouched ==
  [][\A r \in Readers : \A e \in got[r] : blob'[e.slot] = blob[e.slot]]_vars

(* Publishers that keep to the size they registered: the block of every    *)
(* element a subscriber holds stores the message of that element's stamp,  *)
(* whole, whatever the publishers do meanwhile.                            *)
HeldMessagesIntact == \A r \in Readers : \A e \in got[r] : blob[e.slot] = e.ts

(* lmspr_write returns 0 in every case.  Its message is nevertheless only  *)
(* left out when a message at least as new is already there, or when every *)
(* element past the readable ones is held by a subscriber.                 *)
DroppedOnlyIfStaleOrPinned ==
  \A w \in Writers : pc[w] = "wunlock" =>
    \/ st[0].ts >= wr[w].ts
    \/ \A i \in Index : i >= length => ~Free(st[i])

(* The newest stamp on the ring never goes back.                           *)
HeadNeverGoesBack == [][st'[0].ts >= st[0].ts]_vars

(* The critical sections of all five operations, with the threads that die *)
(* in them, implement the abstract lock.                                   *)
Owner == LET inside == {p \in Proc : pc[p] \in Inside}
         IN IF inside = {} THEN NoOwner ELSE CHOOSE p \in inside : TRUE
M == INSTANCE Mutex WITH owner <- Owner
ImplementsMutex == M!Spec

(* Every critical section ends: no early exit of an operation (a stale     *)
(* write, an empty read, a release that finds nothing) keeps info->lock.   *)
(* It stays taken only when a thread died inside.                          *)
LockGivenBack == lock = 1 ~> lock = 0 \/ \E p \in Proc : pc[p] = "deadinside"

(* "Find a free element in list" (lmice_ring.c:317): one write stamps one  *)
(* element, so that a subscriber gets each message once.                   *)
OneElementPerWrite ==
  \A w \in Writers : pc[w] = "wunlock" =>
    Cardinality({i \in Index : st[i].ts = wr[w].ts}) <= 1
=============================================================================
