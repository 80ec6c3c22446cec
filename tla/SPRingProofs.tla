---------------------------- MODULE SPRingProofs ----------------------------
(***************************************************************************)
(* Proofs about the SP-Ring, for any number of publishers, subscribers,    *)
(* elements and time stamps, with threads that may die anywhere.           *)
(***************************************************************************)
EXTENDS SPRing, FiniteSetTheorems, WellFoundedInduction, TLAPS

(* info->lock is 0 exactly when nobody is between eal_spin_lock and        *)
(* eal_spin_unlock, and never are two threads there.                       *)
OneInside == /\ lock = 0 <=> \A p \in Proc : pc[p] \notin Inside
             /\ \A p, q \in Proc : pc[p] \in Inside /\ pc[q] \in Inside => p = q

(* The maintainer only lets subscribers see elements that hold a message.  *)
WindowWritten == \A i \in Index : i < length => st[i].ts > 0

(* What lmspr_write has established when it is in its loop: its stamp is   *)
(* no older than the head's, and it looks at an element that exists, past  *)
(* the readable ones.                                                      *)
WriterInLoop ==
  \A w \in Writers :
    /\ pc[w] \in {"wlock", "wcheck", "wscan", "wcopy"} => wr[w].ts > 0
    /\ pc[w] \in {"wscan", "wcopy"} => st[0].ts <= wr[w].ts /\ length <= wr[w].i
    /\ pc[w] = "wcopy" => wr[w].i < BlbCount

IInv == /\ TypeOK /\ OneInside
        /\ NewestFirst /\ BlocksDistinct /\ WindowWritten /\ WriterInLoop

LEMMA IndexFacts == /\ 0 \in Index
                    /\ Index \subseteq Nat
                    /\ Slot = Index
                    /\ \A i \in Index : i < BlbCount
                    /\ \A i \in Index, j \in Nat : j <= i => j \in Index
BY RingAssumption DEF Index, Slot

LEMMA InductiveInit == Init => IInv
<1> SUFFICES ASSUME Init PROVE IInv
  OBVIOUS
<1> USE RingAssumption DEF Init, Index, Slot
<1>1. TypeOK
  BY DEF TypeOK, Element, Copy, NoWrite, WRONLY, Sizes, Proc
<1>2. OneInside
  BY DEF OneInside, Inside
<1>3. NewestFirst /\ BlocksDistinct /\ WindowWritten
  BY DEF NewestFirst, BlocksDistinct, WindowWritten
<1>4. WriterInLoop
  BY DEF WriterInLoop, Proc
<1>. QED  BY <1>1, <1>2, <1>3, <1>4 DEF IInv

-----------------------------------------------------------------------------
(* The spin lock, whatever the operation: a thread comes in, goes out, or  *)
(* moves without crossing either edge.                                     *)
LEMMA EnterKeeps ==
  ASSUME TypeOK, OneInside, NEW p \in Proc, NEW at, NEW to \in Inside, Enter(p, at, to)
  PROVE  OneInside' /\ lock' \in {0, 1}
BY DEF TypeOK, OneInside, Enter

LEMMA LeaveKeeps ==
  ASSUME TypeOK, OneInside, NEW p \in Proc, NEW at \in Inside,
         NEW to \in {"idle", "reading"}, Leave(p, at, to)
  PROVE  OneInside' /\ lock' \in {0, 1}
<1>1. lock = 1
  BY DEF TypeOK, OneInside, Leave
<1>2. \A q \in Proc : pc'[q] \notin Inside
  BY DEF TypeOK, OneInside, Leave, Inside
<1>. QED  BY <1>1, <1>2 DEF OneInside, Leave

LEMMA MoveKeeps ==
  ASSUME TypeOK, OneInside, NEW p \in Proc, NEW to, lock' = lock,
         pc' = [pc EXCEPT ![p] = to], pc[p] \in Inside <=> to \in Inside
  PROVE  OneInside'
BY DEF TypeOK, OneInside

(* Recycling element i >= length: it comes to the head stamped ts, newer   *)
(* than or as new as the old head, and the rest keeps its order.           *)
LEMMA MoveToHeadKeeps ==
  ASSUME TypeOK, NewestFirst, BlocksDistinct, WindowWritten,
         NEW i \in Index, i >= length,
         NEW ts \in Stamp, st[0].ts <= ts,
         NEW e, e = [ts |-> ts, status |-> RDWR, slot |-> st[i].slot],
         st' = MoveToHead(i, e), length' = length
  PROVE  /\ st' \in [Index -> Element]
         /\ st'[0].ts = ts
         /\ NewestFirst' /\ BlocksDistinct' /\ WindowWritten'
<1> USE IndexFacts
<1>1. /\ st \in [Index -> Element]
      /\ \A j \in Index : st[j].ts \in Int
      /\ length \in Nat
  BY RingAssumption DEF TypeOK, Element, Stamp
<1>2. e \in Element /\ e.ts = ts /\ e.slot = st[i].slot
  BY <1>1, RingAssumption DEF Element, Stamp, RDWR
<1>3. /\ \A j \in Index : j = 0 => st'[j] = e
      /\ \A j \in Index : j # 0 /\ j <= i => j - 1 \in Index /\ st'[j] = st[j - 1]
      /\ \A j \in Index : j > i => st'[j] = st[j]
  BY DEF MoveToHead, Index
<1>4. st' \in [Index -> Element]
  BY <1>1, <1>2, RingAssumption DEF MoveToHead, Index
<1>5. NewestFirst'
  <2> SUFFICES ASSUME NEW j \in Index, NEW k \in Index, j <= k
               PROVE  st'[j].ts >= st'[k].ts
    BY DEF NewestFirst
  <2>1. \A m \in Index : st[m].ts <= ts
    BY <1>1 DEF NewestFirst, Stamp
  <2>2. CASE j = 0
    BY <1>1, <1>2, <1>3, <2>1, <2>2 DEF Stamp, Index
  <2>3. CASE j # 0 /\ k <= i
    <3>1. /\ j - 1 \in Index /\ k - 1 \in Index /\ j - 1 <= k - 1
          /\ st'[j] = st[j - 1] /\ st'[k] = st[k - 1]
      BY <1>3, <2>3 DEF Index
    <3>. QED  BY <3>1 DEF NewestFirst
  <2>4. CASE j # 0 /\ j <= i /\ k > i
    BY <1>1, <1>3, <2>4 DEF NewestFirst, Index
  <2>5. CASE j > i
    BY <1>1, <1>3, <2>5 DEF NewestFirst, Index
  <2>. QED  BY <2>2, <2>3, <2>4, <2>5 DEF Index
<1>6. BlocksDistinct'
  <2> SUFFICES ASSUME NEW j \in Index, NEW k \in Index, j < k
               PROVE  st'[j].slot # st'[k].slot
    BY DEF BlocksDistinct, Index
  <2>1. CASE j = 0
    <3>1. st'[j].slot = st[i].slot /\ k \in Int /\ i \in Int /\ k > 0
      BY <1>2, <1>3, <2>1 DEF Index
    <3>2. CASE k <= i
      <4>1. k - 1 \in Index /\ st'[k] = st[k - 1] /\ k - 1 # i
        BY <1>3, <3>1, <3>2
      <4>. QED  BY <3>1, <4>1 DEF BlocksDistinct
    <3>3. CASE k > i
      <4>1. st'[k] = st[k] /\ k # i
        BY <1>3, <3>1, <3>3
      <4>. QED  BY <3>1, <4>1 DEF BlocksDistinct
    <3>. QED  BY <3>1, <3>2, <3>3
  <2>2. CASE j # 0 /\ k <= i
    <3>1. /\ j - 1 \in Index /\ k - 1 \in Index /\ j - 1 # k - 1
          /\ st'[j] = st[j - 1] /\ st'[k] = st[k - 1]
      BY <1>3, <2>2 DEF Index
    <3>. QED  BY <3>1 DEF BlocksDistinct
  <2>3. CASE j # 0 /\ j <= i /\ k > i
    BY <1>3, <2>3 DEF BlocksDistinct, Index
  <2>4. CASE j > i
    BY <1>3, <2>4 DEF BlocksDistinct, Index
  <2>. QED  BY <2>1, <2>2, <2>3, <2>4 DEF Index
<1>7. WindowWritten'
  <2> SUFFICES ASSUME NEW j \in Index, j < length
               PROVE  st'[j].ts > 0
    BY DEF WindowWritten
  <2>1. CASE j = 0
    BY <1>2, <1>3, <2>1, RingAssumption DEF Stamp
  <2>2. CASE j # 0
    BY <1>1, <1>3, <2>2 DEF WindowWritten, Index
  <2>. QED  BY <2>1, <2>2
<1>. QED  BY <1>2, <1>3, <1>4, <1>5, <1>6, <1>7

(* Pinning and releasing change nothing of an element but its status.      *)
OnlyStatusChanges ==
  /\ st' = [i \in Index |-> st'[i]]
  /\ \A i \in Index : \/ st'[i] = st[i]
                     \/ \E n \in Int : st'[i] = [st[i] EXCEPT !.status = n]

LEMMA PinChangesStatus ==
  ASSUME TypeOK, NEW r, NEW taken, Pin(r, taken)
  PROVE  OnlyStatusChanges
<1>1. \A i \in Index : st[i].status + 1 \in Int
  BY DEF TypeOK, Element
<1>. QED  BY <1>1 DEF Pin, OnlyStatusChanges

LEMMA UnpinChangesStatus ==
  ASSUME TypeOK, NEW r, ReleaseUnpin(r)
  PROVE  OnlyStatusChanges
<1>1. \A i \in Index : st[i].status - 1 \in Int
  BY DEF TypeOK, Element
<1>2. CASE UNCHANGED st
  BY <1>2 DEF TypeOK, OnlyStatusChanges
<1>3. ASSUME NEW S,
             st' = [i \in Index |-> IF i \in S THEN [st[i] EXCEPT !.status = @ - 1]
                                   ELSE st[i]]
      PROVE  OnlyStatusChanges
  BY <1>1, <1>3 DEF OnlyStatusChanges
<1>. QED  BY <1>2, <1>3 DEF ReleaseUnpin, Unpin

LEMMA StatusStepKeeps ==
  ASSUME TypeOK, NewestFirst, BlocksDistinct, WindowWritten, length' = length,
         OnlyStatusChanges
  PROVE  /\ st' \in [Index -> Element]
         /\ \A i \in Index : st'[i].ts = st[i].ts /\ st'[i].slot = st[i].slot
         /\ NewestFirst' /\ BlocksDistinct' /\ WindowWritten'
<1>1. \A i \in Index : /\ st'[i] \in Element
                       /\ st'[i].ts = st[i].ts /\ st'[i].slot = st[i].slot
  BY DEF TypeOK, Element, OnlyStatusChanges
<1>2. st' \in [Index -> Element]
  BY <1>1 DEF OnlyStatusChanges
<1>. QED  BY <1>1, <1>2 DEF NewestFirst, BlocksDistinct, WindowWritten
-----------------------------------------------------------------------------
(* Steps that only move a thread's program counter outside the lock, or    *)
(* only take or give back the lock, leave the ring's facts alone.          *)
LEMMA RingFactsStay ==
  ASSUME NewestFirst, BlocksDistinct, WindowWritten, UNCHANGED <<length, st>>
  PROVE  NewestFirst' /\ BlocksDistinct' /\ WindowWritten'
BY DEF NewestFirst, BlocksDistinct, WindowWritten

LEMMA WriteStep ==
  ASSUME IInv, NEW w \in Writers, WriteCall(w) \/ Write(w)
  PROVE  IInv'
<1> USE RingAssumption, IndexFacts DEF IInv, ring, Proc
<1>0. w \in Proc
  OBVIOUS
<1>1. CASE WriteCall(w)
  <2>1. OneInside'
    BY <1>0, <1>1, MoveKeeps DEF WriteCall, Inside
  <2>2. TypeOK'
    BY <1>1 DEF WriteCall, TypeOK, Inside, Stamp, Sizes
  <2>3. WriterInLoop'
    BY <1>1 DEF WriteCall, TypeOK, WriterInLoop, Stamp
  <2>. QED  BY <1>1, <2>1, <2>2, <2>3, RingFactsStay DEF WriteCall
<1>2. CASE WriteLock(w)
  <2>1. OneInside' /\ lock' \in {0, 1}
    BY <1>0, <1>2, EnterKeeps DEF WriteLock, Inside
  <2>2. TypeOK'
    BY <1>2, <2>1 DEF WriteLock, Enter, TypeOK, Inside
  <2>3. WriterInLoop'
    BY <1>2 DEF WriteLock, Enter, TypeOK, WriterInLoop
  <2>. QED  BY <1>2, <2>1, <2>2, <2>3, RingFactsStay DEF WriteLock
<1>3. CASE WriteCheck(w)
  <2>1. OneInside'
    BY <1>0, <1>3, MoveKeeps DEF WriteCheck, CheckThenScan, Inside
  <2>2. TypeOK'
    BY <1>3 DEF WriteCheck, CheckThenScan, TypeOK, Inside
  <2>3. WriterInLoop'
    <3>1. st[0].ts \in Int /\ wr[w].ts \in Int
      BY DEF TypeOK, Element
    <3>. QED  BY <1>3, <3>1 DEF WriteCheck, CheckThenScan, TypeOK, WriterInLoop
  <2>. QED  BY <1>3, <2>1, <2>2, <2>3, RingFactsStay DEF WriteCheck, CheckThenScan
<1>4. CASE WriteScan(w)
  <2> DEFINE i == wr[w].i
             e == [ts |-> wr[w].ts, status |-> RDWR, slot |-> st[i].slot]
  <2>1. i \in 0 .. BlbCount /\ pc[w] = "wscan" /\ lock' = lock /\ length' = length
    BY <1>4 DEF WriteScan, TypeOK
  <2>2. OneInside'
    <3>1. PICK to \in {"wscan", "wcopy", "wunlock"} : pc' = [pc EXCEPT ![w] = to]
      BY <1>4 DEF WriteScan, TypeOK
    <3>. QED  BY <1>0, <2>1, <3>1, MoveKeeps DEF Inside
  <2>3. CASE i = BlbCount
    <3>1. pc' = [pc EXCEPT ![w] = "wunlock"] /\ UNCHANGED <<wr, st, blob, got>>
      BY <1>4, <2>3 DEF WriteScan
    <3>2. TypeOK'
      BY <2>1, <3>1 DEF TypeOK, Inside
    <3>3. WriterInLoop'
      BY <2>1, <3>1 DEF TypeOK, WriterInLoop
    <3>. QED  BY <2>1, <2>2, <3>1, <3>2, <3>3, RingFactsStay
  <2>4. CASE i < BlbCount /\ ~Free(st[i])
    <3>1. /\ wr' = [wr EXCEPT ![w].i = i + 1]
          /\ UNCHANGED <<pc, st, blob, got>>
      BY <1>4, <2>1, <2>4 DEF WriteScan
    <3>2. TypeOK'
      BY <2>1, <2>4, <3>1 DEF TypeOK, Inside
    <3>3. WriterInLoop'
      BY <2>1, <3>1 DEF TypeOK, WriterInLoop
    <3>. QED  BY <2>1, <2>2, <3>1, <3>2, <3>3, RingFactsStay
  <2>5. CASE i < BlbCount /\ Free(st[i])
    <3>1. i \in Index
      BY <2>1, <2>5 DEF Index
    <3>2. st' = MoveToHead(i, e) /\ UNCHANGED <<blob, got>>
      BY <1>4, <2>1, <2>5 DEF WriteScan
    <3>3. wr[w].ts \in Stamp /\ st[0].ts <= wr[w].ts
      BY <2>1 DEF TypeOK, WriterInLoop, Stamp
    <3>4. i >= length
      BY <2>1 DEF WriterInLoop, TypeOK
    <3>5. /\ st' \in [Index -> Element]
          /\ st'[0].ts = wr[w].ts
          /\ NewestFirst' /\ BlocksDistinct' /\ WindowWritten'
      BY <2>1, <3>1, <3>2, <3>3, <3>4, MoveToHeadKeeps
    <3>6. \/ pc' = [pc EXCEPT ![w] = "wcopy"] /\ wr' = wr
          \/ pc' = pc /\ wr' = [wr EXCEPT ![w].i = i + 1]
      BY <1>4, <2>1, <2>5 DEF WriteScan
    <3>7. TypeOK'
      BY <2>1, <2>5, <3>2, <3>5, <3>6 DEF TypeOK, Inside
    <3>8. \A v \in Writers : v # w => pc[v] \notin {"wscan", "wcopy"}
      BY <2>1 DEF OneInside, Inside
    <3>9. WriterInLoop'
      <4>1. /\ wr'[w].ts = wr[w].ts /\ wr'[w].ts > 0 /\ wr'[w].i \in {i, i + 1}
            /\ pc'[w] = "wcopy" => wr'[w].i = i
        BY <2>1, <3>6 DEF TypeOK, WriterInLoop
      <4>2. \A v \in Writers : v # w => pc'[v] = pc[v] /\ wr'[v] = wr[v]
        BY <3>6 DEF TypeOK
      <4>3. st'[0].ts <= wr'[w].ts
        BY <3>3, <3>5, <4>1 DEF Stamp
      <4>. QED  BY <2>1, <2>5, <3>4, <3>8, <4>1, <4>2, <4>3 DEF WriterInLoop, TypeOK
    <3>. QED  BY <2>1, <2>2, <3>5, <3>7, <3>9
  <2>. QED  BY <2>1, <2>3, <2>4, <2>5
<1>5. CASE WriteCopy(w)
  <2>1. OneInside'
    BY <1>0, <1>5, MoveKeeps DEF WriteCopy, Inside
  <2>2. TypeOK'
    <3>1. wr[w].i + 1 \in 0 .. BlbCount /\ wr[w].ts \in 0 .. MaxTs
      BY <1>5 DEF WriteCopy, TypeOK, WriterInLoop
    <3>. QED  BY <1>5, <3>1 DEF WriteCopy, TypeOK, Inside, Element
  <2>3. WriterInLoop'
    BY <1>5 DEF WriteCopy, TypeOK, WriterInLoop
  <2>. QED  BY <1>5, <2>1, <2>2, <2>3, RingFactsStay DEF WriteCopy
<1>6. CASE WriteUnlock(w)
  <2>1. OneInside' /\ lock' \in {0, 1}
    BY <1>0, <1>6, LeaveKeeps DEF WriteUnlock, Inside
  <2>2. TypeOK'
    BY <1>6, <2>1 DEF WriteUnlock, Leave, TypeOK, Inside, NoWrite, Sizes
  <2>3. WriterInLoop'
    BY <1>6 DEF WriteUnlock, Leave, TypeOK, WriterInLoop
  <2>. QED  BY <1>6, <2>1, <2>2, <2>3, RingFactsStay DEF WriteUnlock
<1>. QED  BY <1>1, <1>2, <1>3, <1>4, <1>5, <1>6 DEF Write

(* A subscriber's step leaves the publishers' registers alone; when it     *)
(* changes the list, no publisher is inside.                               *)
LEMMA WritersUndisturbed ==
  ASSUME TypeOK, WriterInLoop, NEW p \in Proc, NEW to,
         to \notin {"wlock", "wcheck", "wscan", "wcopy"},
         pc' = [pc EXCEPT ![p] = to], wr' = wr, length' = length,
         st'[0].ts = st[0].ts
  PROVE  WriterInLoop'
BY DEF TypeOK, WriterInLoop, Proc

LEMMA PinStep ==
  ASSUME IInv, NEW r \in Readers, NEW taken \in SUBSET Index,
         \A i \in taken : i < length, Pin(r, taken)
  PROVE  IInv'
<1> USE RingAssumption, IndexFacts DEF IInv, Proc
<1>1. OneInside'
  BY MoveKeeps DEF Pin, Inside
<1>2. /\ st' \in [Index -> Element]
      /\ \A i \in Index : st'[i].ts = st[i].ts /\ st'[i].slot = st[i].slot
      /\ NewestFirst' /\ BlocksDistinct' /\ WindowWritten'
  <2>1. OnlyStatusChanges
    BY PinChangesStatus
  <2>. QED  BY <2>1, StatusStepKeeps DEF Pin
<1>3. {[ts |-> st[i].ts, slot |-> st[i].slot] : i \in taken} \in SUBSET Copy
  <2>1. \A i \in taken : st[i].ts \in Stamp /\ st[i].slot \in Slot
    BY DEF WindowWritten, TypeOK, Element, Stamp
  <2>. QED  BY <2>1 DEF Copy
<1>4. TypeOK'
  BY <1>2, <1>3 DEF Pin, TypeOK, Inside
<1>5. WriterInLoop'
  BY <1>2, WritersUndisturbed DEF Pin
<1>. QED  BY <1>1, <1>2, <1>4, <1>5

LEMMA ReadStep ==
  ASSUME IInv, NEW r \in Readers,
         ReadCall(r) \/ Read(r) \/ ReleaseCall(r) \/ Release(r)
  PROVE  IInv'
<1> USE RingAssumption, IndexFacts DEF IInv, ring, Proc
<1>0. r \in Proc
  OBVIOUS
<1>1. CASE ReadCall(r) \/ ReleaseCall(r)
  <2>1. PICK to \in {"rlock", "llock"} :
          /\ pc' = [pc EXCEPT ![r] = to]
          /\ pc[r] \in {"idle", "reading"}
          /\ UNCHANGED <<lock, length, st, blob, wr, got>>
    BY <1>1 DEF ReadCall, ReleaseCall
  <2>2. OneInside'
    BY <1>0, <2>1, MoveKeeps DEF Inside
  <2>3. TypeOK'
    BY <2>1 DEF TypeOK
  <2>4. WriterInLoop'
    BY <1>0, <2>1, WritersUndisturbed
  <2>. QED  BY <2>1, <2>2, <2>3, <2>4, RingFactsStay
<1>2. CASE ReadLock(r) \/ ReleaseLock(r)
  <2>1. PICK at \in {"rlock", "llock"}, to \in {"rpin", "lunpin"} :
          /\ Enter(r, at, to)
          /\ UNCHANGED <<length, st, blob, wr, got>>
    BY <1>2 DEF ReadLock, ReleaseLock
  <2>2. OneInside' /\ lock' \in {0, 1}
    BY <1>0, <2>1, EnterKeeps DEF Inside
  <2>3. TypeOK'
    BY <2>1, <2>2 DEF Enter, TypeOK, Inside
  <2>4. WriterInLoop'
    BY <1>0, <2>1, WritersUndisturbed DEF Enter
  <2>. QED  BY <2>1, <2>2, <2>3, <2>4, RingFactsStay
<1>3. CASE ReadN(r)
  <2>1. PICK n \in 0 .. BlbCount : Pin(r, {i \in Index : i < length /\ i < n})
    BY <1>3 DEF ReadN
  <2>. QED  BY <2>1, PinStep
<1>4. CASE ReadP(r)
  <2>1. PICK ts \in Stamp, period \in Stamp :
          Pin(r, {i \in Index : /\ i < length
                               /\ st[i].ts >= ts
                               /\ st[i].ts < ts + period})
    BY <1>4 DEF ReadP
  <2>. QED  BY <2>1, PinStep
<1>5. CASE ReadUnlock(r) \/ ReleaseUnlock(r)
  <2>1. PICK at \in {"runlock", "lunlock"}, to \in {"idle", "reading"} :
          /\ Leave(r, at, to)
          /\ UNCHANGED <<length, st, blob, wr, got>>
    BY <1>5 DEF ReadUnlock, ReleaseUnlock
  <2>2. OneInside' /\ lock' \in {0, 1}
    BY <1>0, <2>1, LeaveKeeps DEF Inside
  <2>3. TypeOK'
    BY <2>1, <2>2 DEF Leave, TypeOK
  <2>4. WriterInLoop'
    BY <1>0, <2>1, WritersUndisturbed DEF Leave
  <2>. QED  BY <2>1, <2>2, <2>3, <2>4, RingFactsStay
<1>6. CASE ReleaseUnpin(r)
  <2>1. OnlyStatusChanges
    BY <1>6, UnpinChangesStatus
  <2>2. /\ st' \in [Index -> Element]
        /\ \A i \in Index : st'[i].ts = st[i].ts /\ st'[i].slot = st[i].slot
        /\ NewestFirst' /\ BlocksDistinct' /\ WindowWritten'
    BY <1>6, <2>1, StatusStepKeeps DEF ReleaseUnpin, Unpin
  <2>3. OneInside'
    BY <1>0, <1>6, MoveKeeps DEF ReleaseUnpin, Unpin, Inside
  <2>4. TypeOK'
    BY <1>6, <2>2 DEF ReleaseUnpin, Unpin, TypeOK, Inside
  <2>5. WriterInLoop'
    BY <1>0, <1>6, <2>2, WritersUndisturbed DEF ReleaseUnpin, Unpin
  <2>. QED  BY <2>2, <2>3, <2>4, <2>5
<1>. QED  BY <1>1, <1>2, <1>3, <1>4, <1>5, <1>6 DEF Read, Release

(* The maintainer, and threads that die.                                   *)
LEMMA OtherStep ==
  ASSUME IInv, Maintain \/ (\E p \in Proc : Crash(p)) \/ UNCHANGED vars
  PROVE  IInv'
<1> USE RingAssumption, IndexFacts DEF IInv, ring
<1>1. CASE Maintain
  <2>1. PICK n \in 0 .. Capacity : /\ \A i \in Index : i < n => i \in Written
                                  /\ length' = n
    BY <1>1 DEF Maintain
  <2>2. /\ lock = 0 /\ UNCHANGED <<lock, st, blob, pc, wr, got>>
    BY <1>1 DEF Maintain
  <2>3. TypeOK' /\ OneInside' /\ NewestFirst' /\ BlocksDistinct'
    BY <2>1, <2>2 DEF TypeOK, OneInside, NewestFirst, BlocksDistinct
  <2>4. WindowWritten'
    BY <2>1, <2>2 DEF WindowWritten, Written
  <2>5. WriterInLoop'
    BY <2>2 DEF WriterInLoop, OneInside, Inside, Proc
  <2>. QED  BY <2>3, <2>4, <2>5
<1>2. ASSUME NEW p \in Proc, Crash(p)
      PROVE  IInv'
  <2>1. PICK to \in {"dead", "deadinside"} : /\ pc' = [pc EXCEPT ![p] = to]
                                            /\ to = "deadinside" <=> pc[p] \in Inside
    BY <1>2 DEF Crash
  <2>2. OneInside'
    BY <1>2, <2>1, MoveKeeps DEF Crash, Inside
  <2>3. TypeOK'
    BY <1>2, <2>1 DEF Crash, TypeOK, Inside
  <2>4. WriterInLoop'
    BY <1>2, <2>1, WritersUndisturbed DEF Crash
  <2>. QED  BY <1>2, <2>2, <2>3, <2>4, RingFactsStay DEF Crash
<1>3. CASE UNCHANGED vars
  BY <1>3 DEF vars, TypeOK, OneInside, NewestFirst, BlocksDistinct, WindowWritten,
              WriterInLoop
<1>. QED  BY <1>1, <1>2, <1>3

LEMMA InductiveStep == IInv /\ [Next]_vars => IInv'
BY WriteStep, ReadStep, OtherStep DEF Next

-----------------------------------------------------------------------------
(* The types, mutual exclusion of the five operations, the order of the    *)
(* list and the distinctness of its blocks hold for every ring.            *)
THEOREM RingInvariant == Spec => [](TypeOK /\ OneInside)
<1>1. IInv => TypeOK /\ OneInside
  BY DEF IInv
<1>. QED  BY InductiveInit, InductiveStep, <1>1, PTL DEF Spec

(* Subscribers always see the newest messages first.                       *)
THEOREM NewestFirstAlways == Spec => []NewestFirst
<1>1. IInv => NewestFirst
  BY DEF IInv
<1>. QED  BY InductiveInit, InductiveStep, <1>1, PTL DEF Spec

(* No two elements ever name the same data block.                          *)
THEOREM BlocksDistinctAlways == Spec => []BlocksDistinct
<1>1. IInv => BlocksDistinct
  BY DEF IInv
<1>. QED  BY InductiveInit, InductiveStep, <1>1, PTL DEF Spec
-----------------------------------------------------------------------------
(* No step of any thread takes the newest stamp back: the check against    *)
(* the head is made inside the critical section that then moves elements.  *)
LEMMA HeadStep == IInv /\ [Next]_vars => st'[0].ts >= st[0].ts
<1> SUFFICES ASSUME IInv, [Next]_vars
             PROVE  st'[0].ts >= st[0].ts
  OBVIOUS
<1> USE IndexFacts DEF IInv, ring
<1>1. st[0].ts \in Int
  BY DEF TypeOK, Element
<1>2. CASE UNCHANGED st
  BY <1>1, <1>2
<1>3. ASSUME NEW w \in Writers, WriteScan(w), ~UNCHANGED st
      PROVE  st'[0].ts >= st[0].ts
  <2>1. st' = MoveToHead(wr[w].i, [ts |-> wr[w].ts, status |-> RDWR,
                                   slot |-> st[wr[w].i].slot])
    BY <1>3 DEF WriteScan
  <2>2. st'[0].ts = wr[w].ts
    BY <2>1 DEF MoveToHead
  <2>3. st[0].ts <= wr[w].ts /\ wr[w].ts \in Int
    BY <1>3 DEF WriteScan, WriterInLoop, TypeOK
  <2>. QED  BY <1>1, <2>2, <2>3
<1>4. ASSUME OnlyStatusChanges
      PROVE  st'[0].ts >= st[0].ts
  BY <1>1, <1>4 DEF OnlyStatusChanges, TypeOK, Element
<1>5. \A r \in Readers : ReadN(r) \/ ReadP(r) \/ ReleaseUnpin(r) => OnlyStatusChanges
  BY PinChangesStatus, UnpinChangesStatus DEF ReadN, ReadP
<1>6. ASSUME NEW w \in Writers, WriteCall(w) \/ Write(w)
      PROVE  st'[0].ts >= st[0].ts
  <2>1. WriteScan(w) \/ UNCHANGED st
    BY <1>6 DEF WriteCall, Write, WriteLock, WriteCheck, CheckThenScan, WriteCopy, WriteUnlock
  <2>. QED  BY <1>2, <1>3, <2>1
<1>7. ASSUME NEW r \in Readers, ReadCall(r) \/ Read(r) \/ ReleaseCall(r) \/ Release(r)
      PROVE  st'[0].ts >= st[0].ts
  <2>1. ReadN(r) \/ ReadP(r) \/ ReleaseUnpin(r) \/ UNCHANGED st
    BY <1>7 DEF ReadCall, Read, ReadLock, ReadUnlock,
                ReleaseCall, Release, ReleaseLock, ReleaseUnlock
  <2>. QED  BY <1>2, <1>4, <1>5, <2>1
<1>8. Maintain \/ (\E p \in Proc : Crash(p)) \/ UNCHANGED vars => UNCHANGED st
  BY DEF Maintain, Crash, vars
<1>. QED  BY <1>2, <1>6, <1>7, <1>8 DEF Next

(* The newest stamp on the ring never goes back.                           *)
THEOREM HeadNeverGoesBackAlways == Spec => HeadNeverGoesBack
<1>1. IInv /\ [Next]_vars => [st'[0].ts >= st[0].ts]_vars
  BY HeadStep
<1>. QED  BY InductiveInit, InductiveStep, <1>1, PTL DEF Spec, HeadNeverGoesBack

-----------------------------------------------------------------------------
(* The owner the abstract lock sees is the thread inside, if there is one. *)
LEMMA OwnerIsInside ==
  ASSUME OneInside
  PROVE  /\ \A p \in Proc : pc[p] \in Inside => Owner = p
         /\ (\A p \in Proc : pc[p] \notin Inside) => Owner = NoOwner
BY DEF OneInside, Owner

LEMMA OwnerIsInsideNext ==
  ASSUME OneInside'
  PROVE  /\ \A p \in Proc : pc'[p] \in Inside => Owner' = p
         /\ (\A p \in Proc : pc'[p] \notin Inside) => Owner' = NoOwner
BY DEF OneInside, Owner

LEMMA EnterAcquires ==
  ASSUME IInv, IInv', NEW p \in Proc, NEW at, NEW to \in Inside, Enter(p, at, to)
  PROVE  M!Next
<1>1. Owner = NoOwner
  BY OwnerIsInside DEF IInv, OneInside, Enter
<1>2. Owner' = p
  BY OwnerIsInsideNext DEF IInv, TypeOK, Enter
<1>. QED  BY <1>1, <1>2 DEF M!Next, M!Acquire

LEMMA LeaveReleases ==
  ASSUME IInv, IInv', NEW p \in Proc, NEW at \in Inside,
         NEW to \in {"idle", "reading"}, Leave(p, at, to)
  PROVE  M!Next
<1>1. Owner = p
  BY OwnerIsInside DEF IInv, Leave
<1>2. Owner' = NoOwner
  BY OwnerIsInsideNext DEF IInv, TypeOK, OneInside, Leave, Inside
<1>. QED  BY <1>1, <1>2 DEF M!Next, M!Release

LEMMA MoveStutters ==
  ASSUME IInv, IInv', NEW p \in Proc, NEW to, pc' = [pc EXCEPT ![p] = to],
         pc[p] \in Inside <=> to \in Inside
  PROVE  Owner' = Owner
<1>1. \A q \in Proc : pc'[q] \in Inside <=> pc[q] \in Inside
  BY DEF IInv, TypeOK
<1>2. CASE \E q \in Proc : pc[q] \in Inside
  BY <1>1, <1>2, OwnerIsInside, OwnerIsInsideNext DEF IInv
<1>3. CASE \A q \in Proc : pc[q] \notin Inside
  BY <1>1, <1>3, OwnerIsInside, OwnerIsInsideNext DEF IInv
<1>. QED  BY <1>2, <1>3

LEMMA StepRefines == IInv /\ IInv' /\ [Next]_vars => [M!Next]_Owner
<1> SUFFICES ASSUME IInv, IInv', [Next]_vars
             PROVE  M!Next \/ Owner' = Owner
  OBVIOUS
<1> USE DEF Proc
<1>1. ASSUME NEW w \in Writers, WriteCall(w) \/ Write(w)
      PROVE  M!Next \/ Owner' = Owner
  <2>1. CASE WriteLock(w)
    BY <2>1, EnterAcquires DEF WriteLock, Inside
  <2>2. CASE WriteUnlock(w)
    BY <2>2, LeaveReleases DEF WriteUnlock, Inside
  <2>3. CASE WriteCall(w)
    BY <2>3, MoveStutters DEF WriteCall, Inside
  <2>4. CASE WriteCheck(w)
    BY <2>4, MoveStutters DEF WriteCheck, CheckThenScan, Inside
  <2>5. CASE WriteScan(w)
    <3>1. PICK to \in {"wscan", "wcopy", "wunlock"} : pc' = [pc EXCEPT ![w] = to]
      BY <2>5 DEF WriteScan, IInv, TypeOK
    <3>. QED  BY <2>5, <3>1, MoveStutters DEF WriteScan, Inside
  <2>6. CASE WriteCopy(w)
    BY <2>6, MoveStutters DEF WriteCopy, Inside
  <2>. QED  BY <1>1, <2>1, <2>2, <2>3, <2>4, <2>5, <2>6 DEF Write
<1>2. ASSUME NEW r \in Readers, ReadCall(r) \/ Read(r)
      PROVE  M!Next \/ Owner' = Owner
  <2>1. CASE ReadLock(r)
    BY <2>1, EnterAcquires DEF ReadLock, Inside
  <2>2. CASE ReadUnlock(r)
    <3>1. PICK to \in {"idle", "reading"} : Leave(r, "runlock", to)
      BY <2>2 DEF ReadUnlock
    <3>. QED  BY <3>1, LeaveReleases DEF Inside
  <2>3. CASE ReadCall(r)
    BY <2>3, MoveStutters DEF ReadCall, Inside
  <2>4. CASE ReadN(r) \/ ReadP(r)
    BY <2>4, MoveStutters DEF ReadN, ReadP, Pin, Inside
  <2>. QED  BY <1>2, <2>1, <2>2, <2>3, <2>4 DEF Read
<1>3. ASSUME NEW r \in Readers, ReleaseCall(r) \/ Release(r)
      PROVE  M!Next \/ Owner' = Owner
  <2>1. CASE ReleaseLock(r)
    BY <2>1, EnterAcquires DEF ReleaseLock, Inside
  <2>2. CASE ReleaseUnlock(r)
    BY <2>2, LeaveReleases DEF ReleaseUnlock, Inside
  <2>3. CASE ReleaseCall(r)
    BY <2>3, MoveStutters DEF ReleaseCall, Inside
  <2>4. CASE ReleaseUnpin(r)
    BY <2>4, MoveStutters DEF ReleaseUnpin, Unpin, Inside
  <2>. QED  BY <1>3, <2>1, <2>2, <2>3, <2>4 DEF Release
<1>4. CASE Maintain
  BY <1>4 DEF Maintain, Owner
<1>5. ASSUME NEW p \in Proc, Crash(p)
      PROVE  Owner' = Owner
  BY <1>5, MoveStutters DEF Crash, Inside
<1>6. CASE UNCHANGED vars
  BY <1>6 DEF vars, Owner
<1>. QED  BY <1>1, <1>2, <1>3, <1>4, <1>5, <1>6 DEF Next

(* The critical sections of the ring, dying threads included, implement    *)
(* the abstract lock.                                                      *)
THEOREM RingIsMutex == Spec => ImplementsMutex
<1>1. Init => M!Init
  BY DEF Init, M!Init, Owner, Inside
<1>. QED  BY <1>1, InductiveInit, InductiveStep, StepRefines, PTL
          DEF Spec, ImplementsMutex, M!Spec
-----------------------------------------------------------------------------
(* The subscribers' elements: where they are, who counts them, and that no *)
(* publisher touches them.                                                 *)

CopyOf(i) == [ts |-> st[i].ts, slot |-> st[i].slot]

(* A subscriber's elements are the n positions from first on, nothing      *)
(* before them has the stamp of the first, and none has gone.              *)
Holds(r, first, n) ==
  /\ n > 0
  /\ first + n <= BlbCount
  /\ PlaceOf(r) = first .. first + n - 1
  /\ Cardinality(got[r]) = n
  /\ got[r] = {CopyOf(i) : i \in PlaceOf(r)}
  /\ \A i \in Index : i < first => st[i].ts > st[first].ts

PinsInPlace ==
  \A r \in Readers : got[r] # {} => \E first \in Index, n \in Nat : Holds(r, first, n)

(* A subscriber holds elements from the read to the release only. *)
HeldInBetween ==
  \A r \in Readers :
    /\ pc[r] \in {"idle", "rlock", "rpin", "lunlock"} => got[r] = {}
    /\ pc[r] \in {"reading", "llock", "lunpin"} => got[r] # {}

(* A publisher in its loop has a stamp newer than whatever is held.        *)
NewerThanHeld ==
  \A w \in Writers : pc[w] \in {"wscan", "wcopy"} =>
    \A r \in Readers : \A e \in got[r] : e.ts < wr[w].ts

(* It has recycled an element, or met none that is free.                   *)
RecycledOrPinned ==
  \A w \in Writers :
    /\ pc[w] = "wcopy" => st[0].ts = wr[w].ts
    /\ pc[w] = "wscan" => \/ st[0].ts = wr[w].ts
                          \/ \A i \in Index : length <= i /\ i < wr[w].i => ~Free(st[i])

PinInv == HeldInBetween /\ PinsInPlace /\ StatusCountsPins /\ NewerThanHeld /\ RecycledOrPinned /\ DroppedOnlyIfStaleOrPinned

-----------------------------------------------------------------------------
LEMMA PinningIsFinite == \A i : IsFiniteSet(Pinning(i)) /\ Cardinality(Pinning(i)) \in Nat
BY FS_Subset, FS_CardinalityType, RingAssumption DEF Pinning

LEMMA NotFreeIfHeld ==
  ASSUME TypeOK, StatusCountsPins, NEW r \in Readers, NEW i \in PlaceOf(r)
  PROVE  i \in Index /\ st[i].ts > 0 /\ ~Free(st[i])
<1>1. i \in Index /\ CopyOf(i) \in Copy
  BY DEF TypeOK, PlaceOf, CopyOf
<1>2. st[i].ts > 0
  BY <1>1, RingAssumption DEF CopyOf, Copy, Stamp
<1>3. Pinning(i) # {}
  BY DEF Pinning
<1>4. Cardinality(Pinning(i)) > 0
  BY <1>3, PinningIsFinite, FS_EmptySet
<1>. QED  BY <1>1, <1>2, <1>4, PinningIsFinite DEF StatusCountsPins, Free, WRONLY, RDWR

(* Steps that leave the list and the copies alone.                         *)
LEMMA PinsStay ==
  ASSUME PinsInPlace, StatusCountsPins, UNCHANGED <<st, got>>
  PROVE  PinsInPlace' /\ StatusCountsPins'
<1>1. \A r \in Readers : PlaceOf(r)' = PlaceOf(r)
  BY DEF PlaceOf
<1>2. \A i : CopyOf(i)' = CopyOf(i) /\ Pinning(i)' = Pinning(i)
  BY <1>1 DEF CopyOf, Pinning
<1>3. ASSUME NEW r \in Readers, NEW first, NEW n, Holds(r, first, n)
      PROVE  Holds(r, first, n)'
  BY <1>1, <1>2, <1>3 DEF Holds
<1>4. PinsInPlace'
  BY <1>3 DEF PinsInPlace
<1>. QED  BY <1>2, <1>4 DEF StatusCountsPins

-----------------------------------------------------------------------------
(* A publisher recycles element i, which nobody holds.                     *)
LEMMA RecyclingMoves ==
  ASSUME TypeOK, NEW i \in Index, NEW ts \in Stamp,
         NEW e, e = [ts |-> ts, status |-> RDWR, slot |-> st[i].slot],
         st' = MoveToHead(i, e), got' = got,
         NEW r \in Readers, \A c \in got[r] : c.ts < ts
  PROVE  /\ CopyOf(0)' \notin got[r]
         /\ \A j \in Index :
              /\ j # 0 /\ j <= i => j - 1 \in Index /\ CopyOf(j)' = CopyOf(j - 1)
              /\ j > i => CopyOf(j)' = CopyOf(j)
         /\ 0 \notin PlaceOf(r)'
         /\ \A j \in Index : j # 0 /\ j <= i => (j \in PlaceOf(r)' <=> j - 1 \in PlaceOf(r))
         /\ \A j \in Index : j > i => (j \in PlaceOf(r)' <=> j \in PlaceOf(r))
<1> USE IndexFacts
<1>1. CopyOf(0)' = [ts |-> ts, slot |-> st[i].slot]
  BY DEF CopyOf, MoveToHead
<1>2. CopyOf(0)' \notin got[r]
  BY <1>1 DEF Stamp
<1>3. \A j \in Index :
              /\ j # 0 /\ j <= i => j - 1 \in Index /\ CopyOf(j)' = CopyOf(j - 1)
              /\ j > i => CopyOf(j)' = CopyOf(j)
  BY DEF CopyOf, MoveToHead, Index
<1>4. \A j \in Index : j \in PlaceOf(r)' <=> CopyOf(j)' \in got[r]
  BY DEF PlaceOf, CopyOf
<1>5. \A j \in Index : j \in PlaceOf(r) <=> CopyOf(j) \in got[r]
  BY DEF PlaceOf, CopyOf
<1>. QED  BY <1>2, <1>3, <1>4, <1>5

LEMMA RecyclingKeepsPins ==
  ASSUME IInv, PinsInPlace, StatusCountsPins,
         NEW i \in Index, Free(st[i]), NEW ts \in Stamp, st[0].ts <= ts,
         NEW e, e = [ts |-> ts, status |-> RDWR, slot |-> st[i].slot],
         st' = MoveToHead(i, e), got' = got,
         \A r \in Readers : \A c \in got[r] : c.ts < ts
  PROVE  PinsInPlace' /\ StatusCountsPins'
<1> USE IndexFacts
<1>0. TypeOK /\ NewestFirst
  BY DEF IInv
<1>1. PinsInPlace'
  <2> SUFFICES ASSUME NEW r \in Readers, got[r] # {}
               PROVE  \E first \in Index, n \in Nat : Holds(r, first, n)'
    BY DEF PinsInPlace
  <2>1. PICK first \in Index, n \in Nat : Holds(r, first, n)
    BY DEF PinsInPlace
  <2>2. /\ n > 0 /\ first + n <= BlbCount
        /\ PlaceOf(r) = first .. first + n - 1
        /\ Cardinality(got[r]) = n
        /\ got[r] = {CopyOf(j) : j \in PlaceOf(r)}
        /\ \A j \in Index : j < first => st[j].ts > st[first].ts
    BY <2>1 DEF Holds
  <2>3. i \notin PlaceOf(r)
    BY <1>0, NotFreeIfHeld
  <2>4. /\ \A j \in Index :
              /\ j # 0 /\ j <= i => j - 1 \in Index /\ CopyOf(j)' = CopyOf(j - 1)
              /\ j > i => CopyOf(j)' = CopyOf(j)
        /\ 0 \notin PlaceOf(r)'
        /\ \A j \in Index : j # 0 /\ j <= i => (j \in PlaceOf(r)' <=> j - 1 \in PlaceOf(r))
        /\ \A j \in Index : j > i => (j \in PlaceOf(r)' <=> j \in PlaceOf(r))
    BY <1>0, RecyclingMoves
  <2>5. /\ st'[0].ts = ts
        /\ \A j \in Index : j # 0 /\ j <= i => st'[j].ts = st[j - 1].ts
        /\ \A j \in Index : j > i => st'[j].ts = st[j].ts
    BY DEF MoveToHead, Index
  <2>6. /\ BlbCount \in Nat /\ PlaceOf(r)' \subseteq Index
        /\ \A j \in Index : st[j].ts \in Int
    BY <1>0, RingAssumption DEF PlaceOf, TypeOK, Element
  <2>7. CASE i < first
    <3>1. PlaceOf(r)' = first .. first + n - 1
      <4>1. \A j \in PlaceOf(r)' : j \in first .. first + n - 1
        BY <2>2, <2>3, <2>4, <2>6, <2>7 DEF Index
      <4>2. \A j \in first .. first + n - 1 : j \in PlaceOf(r)'
        BY <2>2, <2>4, <2>6, <2>7 DEF Index
      <4>. QED  BY <4>1, <4>2
    <3>2. \A j \in PlaceOf(r) : CopyOf(j)' = CopyOf(j)
      BY <2>2, <2>4, <2>6, <2>7 DEF Index
    <3>3. got[r] = {CopyOf(j)' : j \in PlaceOf(r)'}
      BY <2>2, <3>1, <3>2
    <3>4. \A j \in Index : j < first => st'[j].ts > st'[first].ts
      <4>1. st'[first].ts = st[first].ts /\ st[first].ts < ts
        <5>1. CopyOf(first) \in got[r]
          BY <2>2 DEF Index
        <5>. QED  BY <2>5, <2>7, <5>1 DEF CopyOf, Index
      <4>2. \A j \in Index : j < first => st[j].ts > st[first].ts
        BY <2>2
      <4>3. ASSUME NEW j \in Index, j < first PROVE st'[j].ts > st'[first].ts
        <5>1. CASE j = 0
          BY <2>5, <4>1, <5>1 DEF Stamp
        <5>2. CASE j # 0 /\ j <= i
          <6>1. j - 1 \in Index /\ j - 1 < first
            BY <2>4, <4>3, <5>2 DEF Index
          <6>. QED  BY <2>5, <4>1, <4>2, <5>2, <6>1
        <5>3. CASE j > i
          BY <2>5, <4>1, <4>2, <4>3, <5>3
        <5>. QED  BY <5>1, <5>2, <5>3 DEF Index
      <4>. QED  BY <4>3
    <3>5. got'[r] = got[r]
      OBVIOUS
    <3>. QED  BY <2>2, <3>1, <3>3, <3>4, <3>5 DEF Holds
  <2>8. CASE i >= first
    <3>0. first + n - 1 < i /\ first + 1 \in Index /\ first + 1 + n <= BlbCount
      BY <2>2, <2>3, <2>6, <2>8 DEF Index
    <3>1. PlaceOf(r)' = first + 1 .. first + 1 + n - 1
      <4>1. \A j \in PlaceOf(r)' : j \in first + 1 .. first + n
        BY <2>2, <2>4, <2>6, <3>0 DEF Index
      <4>2. \A j \in first + 1 .. first + n : j \in PlaceOf(r)'
        <5> SUFFICES ASSUME NEW j \in first + 1 .. first + n PROVE j \in PlaceOf(r)'
          OBVIOUS
        <5>1. j \in Index /\ j # 0 /\ j <= i /\ j - 1 \in first .. first + n - 1
          BY <2>6, <3>0 DEF Index
        <5>. QED  BY <2>2, <2>4, <5>1
      <4>3. first + 1 + n - 1 = first + n
        BY DEF Index
      <4>. QED  BY <4>1, <4>2, <4>3
    <3>2. \A j \in PlaceOf(r) : j + 1 \in PlaceOf(r)' /\ CopyOf(j + 1)' = CopyOf(j)
      <4> SUFFICES ASSUME NEW j \in PlaceOf(r)
                   PROVE  j + 1 \in PlaceOf(r)' /\ CopyOf(j + 1)' = CopyOf(j)
        OBVIOUS
      <4>1. j \in Int /\ j + 1 \in Index /\ j + 1 # 0 /\ j + 1 <= i /\ (j + 1) - 1 = j
        BY <2>2, <2>6, <3>0 DEF Index
      <4>. QED  BY <2>2, <2>4, <4>1
    <3>3. ASSUME NEW j \in PlaceOf(r)'
          PROVE  j - 1 \in PlaceOf(r) /\ CopyOf(j)' = CopyOf(j - 1)
      <4>1. j \in Index /\ first + 1 <= j /\ j <= first + n
        BY <2>6, <3>1 DEF Index
      <4>2. j # 0 /\ j <= i
        BY <3>0, <4>1 DEF Index
      <4>. QED  BY <2>4, <4>1, <4>2
    <3>4. got[r] = {CopyOf(j)' : j \in PlaceOf(r)'}
      BY <2>2, <3>2, <3>3
    <3>5. \A j \in Index : j < first + 1 => st'[j].ts > st'[first + 1].ts
      <4>1. st'[first + 1].ts = st[first].ts /\ st[first].ts < ts
        <5>1. CopyOf(first) \in got[r]
          BY <2>2 DEF Index
        <5>2. first + 1 # 0 /\ first + 1 <= i /\ (first + 1) - 1 = first
          BY <2>2, <3>0 DEF Index
        <5>. QED  BY <2>5, <3>0, <5>1, <5>2 DEF CopyOf
      <4>2. \A j \in Index : j < first => st[j].ts > st[first].ts
        BY <2>2
      <4>3. ASSUME NEW j \in Index, j < first + 1 PROVE st'[j].ts > st'[first + 1].ts
        <5>1. CASE j = 0
          BY <2>5, <4>1, <5>1 DEF Stamp
        <5>2. CASE j # 0
          <6>1. j - 1 \in Index /\ j - 1 < first /\ j <= i
            BY <4>3, <5>2, <2>8 DEF Index
          <6>. QED  BY <2>5, <4>1, <4>2, <5>2, <6>1
        <5>. QED  BY <5>1, <5>2
      <4>. QED  BY <4>3
    <3>. QED  BY <2>2, <3>0, <3>1, <3>4, <3>5 DEF Holds
  <2>. QED  BY <2>7, <2>8 DEF Index
<1>2. StatusCountsPins'
  <2> SUFFICES ASSUME NEW j \in Index
               PROVE  st'[j].status = IF st'[j].ts = 0 THEN WRONLY
                                      ELSE RDWR + Cardinality(Pinning(j)')
    BY DEF StatusCountsPins
  <2>1. CASE j = 0
    <3>1. st'[0] = e
      BY DEF MoveToHead
    <3>2. Pinning(j)' = {}
      BY <1>0, <2>1, RecyclingMoves DEF Pinning
    <3>. QED  BY <2>1, <3>1, <3>2, FS_EmptySet DEF Stamp, RDWR
  <2>2. CASE j # 0 /\ j <= i
    <3>1. j - 1 \in Index /\ st'[j] = st[j - 1]
      BY <2>2 DEF MoveToHead, Index
    <3>2. Pinning(j)' = Pinning(j - 1)
      BY <1>0, <2>2, RecyclingMoves DEF Pinning
    <3>. QED  BY <3>1, <3>2 DEF StatusCountsPins
  <2>3. CASE j > i
    <3>1. st'[j] = st[j]
      BY <2>3 DEF MoveToHead, Index
    <3>2. Pinning(j)' = Pinning(j)
      BY <1>0, <2>3, RecyclingMoves DEF Pinning
    <3>. QED  BY <3>1, <3>2 DEF StatusCountsPins
  <2>. QED  BY <2>1, <2>2, <2>3 DEF Index
<1>. QED  BY <1>1, <1>2

-----------------------------------------------------------------------------
(* Pinning and releasing move nothing.                                     *)
LEMMA CopiesStay ==
  ASSUME TypeOK, OnlyStatusChanges
  PROVE  \A i \in Index : CopyOf(i)' = CopyOf(i)
BY DEF OnlyStatusChanges, TypeOK, Element, CopyOf

LEMMA PlacesStay ==
  ASSUME \A i \in Index : CopyOf(i)' = CopyOf(i), NEW r, got'[r] = got[r]
  PROVE  PlaceOf(r)' = PlaceOf(r)
<1>1. \A i \in Index : CopyOf(i)' = [ts |-> st'[i].ts, slot |-> st'[i].slot]
  BY DEF CopyOf
<1>. QED  BY <1>1 DEF PlaceOf, CopyOf

LEMMA HeldStays ==
  ASSUME \A i \in Index : CopyOf(i)' = CopyOf(i), NEW r, got'[r] = got[r],
         NEW first \in Index, NEW n, Holds(r, first, n)
  PROVE  Holds(r, first, n)'
<1>1. PlaceOf(r)' = PlaceOf(r) /\ PlaceOf(r) \subseteq Index
  BY PlacesStay DEF PlaceOf
<1>2. \A i \in Index : st'[i].ts = st[i].ts
  BY DEF CopyOf
<1>3. {CopyOf(i)' : i \in PlaceOf(r)'} = {CopyOf(i) : i \in PlaceOf(r)}
  BY <1>1
<1>. QED  BY <1>1, <1>2, <1>3 DEF Holds

(* The copies of n elements in a row are n.                                *)
LEMMA CopiesOfARow ==
  ASSUME TypeOK, BlocksDistinct, NEW first \in Index, NEW n \in Nat, first + n <= BlbCount
  PROVE  Cardinality({CopyOf(i) : i \in first .. first + n - 1}) = n
<1> DEFINE S == first .. first + n - 1
           T == {CopyOf(i) : i \in S}
           f == [i \in S |-> CopyOf(i)]
<1>1. S \subseteq Index /\ first \in Int /\ first + n - 1 \in Int
  BY RingAssumption DEF Index
<1>2. IsFiniteSet(S) /\ Cardinality(S) = n
  <2>1. /\ IsFiniteSet(S)
        /\ Cardinality(S) = IF first > first + n - 1 THEN 0
                            ELSE (first + n - 1) - first + 1
    BY <1>1, FS_Interval
  <2>. QED  BY <1>1, <2>1
<1>3. \A i, j \in S : CopyOf(i) = CopyOf(j) => i = j
  BY <1>1 DEF CopyOf, BlocksDistinct
<1>4. f \in Bijection(S, T)
  BY <1>3 DEF Bijection, Injection, Surjection, IsInjective
<1>5. ExistsBijection(S, T)
  BY <1>4 DEF ExistsBijection
<1>. QED  BY <1>2, <1>5, FS_Bijection

LEMMA PinKeepsPins ==
  ASSUME IInv, PinsInPlace, StatusCountsPins, NEW r \in Readers, got[r] = {},
         NEW first \in Index, NEW n \in Nat, first + n <= BlbCount, first + n <= length,
         \A i \in Index : i < first => st[i].ts > st[first].ts,
         NEW taken, taken = first .. first + n - 1, Pin(r, taken)
  PROVE  PinsInPlace' /\ StatusCountsPins'
<1>0. TypeOK /\ BlocksDistinct /\ taken \subseteq Index
  BY RingAssumption DEF IInv, Index
<1>1. /\ \A i \in Index : CopyOf(i)' = CopyOf(i)
      /\ got' = [got EXCEPT ![r] = {CopyOf(i) : i \in taken}]
      /\ \A i \in Index : st'[i] = IF i \in taken THEN [st[i] EXCEPT !.status = @ + 1]
                                    ELSE st[i]
  BY <1>0, PinChangesStatus, CopiesStay DEF Pin, CopyOf
<1>2. /\ \A q \in Readers \ {r} : got'[q] = got[q]
      /\ got'[r] = {CopyOf(i) : i \in taken}
      /\ \A i \in Index : st'[i].ts = st[i].ts /\ st'[i].slot = st[i].slot
  BY <1>0, <1>1 DEF TypeOK, CopyOf
<1>3. PlaceOf(r)' = taken
  <2>1. \A i \in Index : i \in PlaceOf(r)' <=> CopyOf(i) \in {CopyOf(j) : j \in taken}
    BY <1>2 DEF PlaceOf, CopyOf
  <2>2. PlaceOf(r)' \subseteq Index
    BY DEF PlaceOf
  <2>3. \A i, j \in Index : CopyOf(i) = CopyOf(j) => i = j
    BY <1>0 DEF CopyOf, BlocksDistinct
  <2>4. \A i \in Index : i \in PlaceOf(r)' <=> i \in taken
    BY <1>0, <2>1, <2>3
  <2>. QED  BY <1>0, <2>2, <2>4
<1>4. \A q \in Readers \ {r} : PlaceOf(q)' = PlaceOf(q)
  BY <1>1, <1>2, PlacesStay
<1>5. PlaceOf(r) = {}
  BY DEF PlaceOf
<1>6. PinsInPlace'
  <2> SUFFICES ASSUME NEW q \in Readers, got'[q] # {}
               PROVE  \E f \in Index, m \in Nat : Holds(q, f, m)'
    BY DEF PinsInPlace
  <2>1. CASE q = r
    <3>1. n > 0
      BY <1>2, <2>1 DEF Index
    <3>2. Cardinality(got'[r]) = n
      BY <1>0, <1>2, CopiesOfARow
    <3>3. got'[r] = {CopyOf(i)' : i \in PlaceOf(r)'}
      BY <1>0, <1>1, <1>2, <1>3
    <3>4. Holds(r, first, n)'
      BY <1>2, <1>3, <3>1, <3>2, <3>3 DEF Holds
    <3>. QED  BY <2>1, <3>4
  <2>2. CASE q # r
    <3>1. PICK f \in Index, m \in Nat : Holds(q, f, m)
      BY <1>2, <2>2 DEF PinsInPlace
    <3>2. Holds(q, f, m)'
      BY <1>1, <1>2, <2>2, <3>1, HeldStays
    <3>. QED  BY <3>2
  <2>. QED  BY <2>1, <2>2
<1>7. StatusCountsPins'
  <2> SUFFICES ASSUME NEW i \in Index
               PROVE  st'[i].status = IF st'[i].ts = 0 THEN WRONLY
                                      ELSE RDWR + Cardinality(Pinning(i)')
    BY DEF StatusCountsPins
  <2>1. r \notin Pinning(i) /\ IsFiniteSet(Pinning(i)) /\ Cardinality(Pinning(i)) \in Nat
    BY <1>5, PinningIsFinite DEF Pinning
  <2>2. CASE i \in taken
    <3>1. Pinning(i)' = Pinning(i) \cup {r}
      BY <1>3, <1>4, <2>2 DEF Pinning
    <3>2. Cardinality(Pinning(i)') = Cardinality(Pinning(i)) + 1
      BY <2>1, <3>1, FS_AddElement
    <3>3. st[i].ts # 0
      BY <2>2, <1>0 DEF IInv, WindowWritten, Index, TypeOK
    <3>4. st'[i].status = st[i].status + 1
      BY <1>0, <1>1, <2>2 DEF TypeOK, Element
    <3>. QED  BY <1>2, <2>1, <3>2, <3>3, <3>4 DEF StatusCountsPins, RDWR
  <2>3. CASE i \notin taken
    <3>1. Pinning(i)' = Pinning(i)
      BY <1>3, <1>4, <1>5, <2>3 DEF Pinning
    <3>. QED  BY <1>1, <2>3, <3>1 DEF StatusCountsPins
  <2>. QED  BY <2>2, <2>3
<1>. QED  BY <1>6, <1>7

-----------------------------------------------------------------------------
(* A set of natural numbers has a least element.                           *)
LEMMA LeastNatural ==
  ASSUME NEW T, T \subseteq Nat, T # {}
  PROVE  \E x \in T : \A y \in T : x <= y
<1> DEFINE Below == OpToRel(<, Nat)
<1>1. PICK x \in T : \A y \in T : <<y, x>> \notin Below
  BY NatLessThanWellFounded, WFMin, Zenon
<1>2. \A y \in Nat : y < x => <<y, x>> \in Below
  BY DEF OpToRel
<1>3. ASSUME NEW y \in T PROVE ~(y < x)
  <2> HIDE DEF Below
  <2>. QED  BY <1>1, <1>2, Zenon
<1>. QED  BY <1>3

(* A set of positions with no gap is a row.                                *)
LEMMA NoGapIsARow ==
  ASSUME NEW T \in SUBSET Index, T # {},
         \A i, k \in T : \A j \in Index : i <= j /\ j <= k => j \in T
  PROVE  \E first, last \in T : T = first .. last
<1> USE RingAssumption DEF Index
<1>0. T \subseteq Nat
  OBVIOUS
<1>1. PICK first \in T : \A y \in T : first <= y
  BY <1>0, LeastNatural
<1> DEFINE U == {BlbCount - i : i \in T}
<1>2. PICK u \in U : \A y \in U : u <= y
  <2>1. U \subseteq Nat /\ U # {}
    OBVIOUS
  <2> HIDE DEF U
  <2>. QED  BY <2>1, LeastNatural
<1>3. PICK last \in T : u = BlbCount - last
  BY <1>2
<1>4. ASSUME NEW i \in T PROVE i <= last
  <2>1. BlbCount - i \in U
    OBVIOUS
  <2>2. u <= BlbCount - i
    BY <1>2, <2>1
  <2>. QED  BY <1>3, <2>2
<1>5. \A i \in T : i \in first .. last
  BY <1>1, <1>4
<1>6. \A i \in first .. last : i \in T
  OBVIOUS
<1>. QED  BY <1>5, <1>6

(* What a read takes is a row of readable elements, and the elements       *)
(* before it are newer.                                                    *)
LEMMA ReadTakesARow ==
  ASSUME IInv, NEW r \in Readers, ReadN(r) \/ ReadP(r)
  PROVE  \E first \in Index, n \in Nat :
           /\ first + n <= BlbCount /\ first + n <= length
           /\ \A i \in Index : i < first => st[i].ts > st[first].ts
           /\ Pin(r, first .. first + n - 1)
<1> USE RingAssumption, IndexFacts DEF IInv
<1>1. length \in Nat /\ length <= BlbCount /\ \A i \in Index : st[i].ts \in Int
  BY DEF TypeOK, Element
<1>2. CASE ReadN(r)
  <2>1. PICK m \in 0 .. BlbCount : Pin(r, {i \in Index : i < length /\ i < m})
    BY <1>2 DEF ReadN
  <2>2. PICK n \in Nat : n <= length /\ n <= m /\ (n = length \/ n = m)
    BY <1>1
  <2>3. {i \in Index : i < length /\ i < m} = 0 .. 0 + n - 1
    BY <1>1, <2>2 DEF Index
  <2>4. Pin(r, 0 .. 0 + n - 1)
    BY <2>1, <2>3
  <2>5. 0 \in Index /\ 0 + n <= BlbCount /\ 0 + n <= length
    BY <1>1, <2>2
  <2>6. \A i \in Index : ~(i < 0)
    BY DEF Index
  <2>. QED  BY <2>2, <2>4, <2>5, <2>6
<1>3. CASE ReadP(r)
  <2>1. PICK ts \in Stamp, period \in Stamp :
          Pin(r, {i \in Index : /\ i < length
                               /\ st[i].ts >= ts
                               /\ st[i].ts < ts + period})
    BY <1>3 DEF ReadP
  <2> DEFINE T == {i \in Index : /\ i < length
                                /\ st[i].ts >= ts
                                /\ st[i].ts < ts + period}
  <2>2. Pin(r, T) /\ ts \in Int /\ period \in Int
    BY <2>1 DEF Stamp
  <2>3. CASE T = {}
    <3>1. PICK n \in Nat : n = 0
      OBVIOUS
    <3>2. T = 0 .. 0 + n - 1
      BY <2>3, <3>1
    <3>3. Pin(r, 0 .. 0 + n - 1)
      <4> HIDE DEF T
      <4>. QED  BY <2>2, <3>2
    <3>4. \A i \in Index : ~(i < 0)
      BY DEF Index
    <3>. QED  BY <1>1, <3>1, <3>3, <3>4
  <2>4. CASE T # {}
    <3>1. T \in SUBSET Index
      OBVIOUS
    <3>2. ASSUME NEW i \in T, NEW k \in T, NEW j \in Index, i <= j, j <= k
          PROVE  j \in T
      <4>1. st[i].ts >= st[j].ts /\ st[j].ts >= st[k].ts
        BY <3>2 DEF NewestFirst
      <4>2. j < length
        BY <1>1, <3>2 DEF Index
      <4>. QED  BY <1>1, <2>2, <4>1, <4>2
    <3>3. PICK first \in T, last \in T : T = first .. last
      <4> HIDE DEF T
      <4>. QED  BY <2>4, <3>1, <3>2, NoGapIsARow
    <3> DEFINE n == last - first + 1
    <3>4. first \in Index /\ last \in Index /\ first < length /\ last < length
      OBVIOUS
    <3>5. first <= last
      BY <3>3, <3>4 DEF Index
    <3>6. /\ n \in Nat /\ first + n - 1 = last
          /\ first + n <= BlbCount /\ first + n <= length
      BY <1>1, <3>4, <3>5 DEF Index
    <3>7. ASSUME NEW i \in Index, i < first
          PROVE  st[i].ts > st[first].ts
      <4>1. i \notin T
        BY <3>3, <3>7 DEF Index
      <4>2. st[i].ts >= st[first].ts
        BY <3>4, <3>7 DEF NewestFirst, Index
      <4>3. i < length
        BY <1>1, <3>4, <3>7 DEF Index
      <4>4. st[first].ts >= ts /\ st[first].ts < ts + period
        OBVIOUS
      <4>. QED  BY <1>1, <2>2, <3>4, <4>1, <4>2, <4>3, <4>4
    <3>8. Pin(r, first .. first + n - 1)
      <4> HIDE DEF T
      <4>. QED  BY <2>2, <3>3, <3>6
    <3> HIDE DEF n, T
    <3>. QED  BY <3>4, <3>6, <3>7, <3>8
  <2>. QED  BY <2>3, <2>4
<1>. QED  BY <1>2, <1>3

-----------------------------------------------------------------------------
(* The stamp release looks for is that of the first element held, and the  *)
(* first position that has it is the element's.                            *)
LEMMA ReleaseFinds ==
  ASSUME IInv, NEW r \in Readers, NEW first \in Index, NEW n \in Nat, Holds(r, first, n)
  PROVE  /\ NewestGot(r) = st[first].ts
         /\ \A i \in Index : i < first => st[i].ts # NewestGot(r)
<1> USE RingAssumption, IndexFacts DEF IInv
<1>1. \A i \in Index : st[i].ts \in Int
  BY DEF TypeOK, Element
<1>2. /\ n > 0 /\ first + n <= BlbCount
      /\ PlaceOf(r) = first .. first + n - 1
      /\ got[r] = {CopyOf(j) : j \in PlaceOf(r)}
      /\ \A j \in Index : j < first => st[j].ts > st[first].ts
  BY DEF Holds
<1>3. \A j \in PlaceOf(r) : j \in Index /\ first <= j
  BY <1>2 DEF Index
<1>4. first \in PlaceOf(r)
  BY <1>2 DEF Index
<1> DEFINE ts == st[first].ts
<1>5. ts \in {e.ts : e \in got[r]}
  <2>1. CopyOf(first) \in got[r]
    BY <1>2, <1>4
  <2>2. CopyOf(first).ts = ts
    BY DEF CopyOf
  <2>. QED  BY <2>1, <2>2
<1>6. \A e \in got[r] : e.ts <= ts /\ e.ts \in Int
  BY <1>1, <1>2, <1>3 DEF CopyOf, NewestFirst
<1>7. \A t \in {e.ts : e \in got[r]} : (\A e \in got[r] : e.ts <= t) => t = ts
  BY <1>1, <1>5, <1>6
<1>8. NewestGot(r) = ts
  <2> HIDE DEF ts
  <2>. QED  BY <1>5, <1>6, <1>7 DEF NewestGot
<1>9. \A i \in Index : i < first => st[i].ts # ts
  BY <1>1, <1>2
<1>. QED  BY <1>8, <1>9

LEMMA ReleaseLowersItsRow ==
  ASSUME IInv, NEW r \in Readers, NEW first \in Index, NEW n \in Nat, Holds(r, first, n),
         ReleaseUnpin(r)
  PROVE  /\ st' = [i \in Index |-> IF i \in PlaceOf(r) THEN [st[i] EXCEPT !.status = @ - 1]
                                  ELSE st[i]]
         /\ got' = [got EXCEPT ![r] = {}]
<1>1. /\ NewestGot(r) = st[first].ts
      /\ \A i \in Index : i < first => st[i].ts # NewestGot(r)
  BY ReleaseFinds
<1>2. PlaceOf(r) = first .. first + n - 1 /\ Cardinality(got[r]) = n
  BY DEF Holds
<1> DEFINE found == {i \in Index : st[i].ts = NewestGot(r)}
           least == CHOOSE i \in found : \A j \in found : i <= j
<1>3. first \in found /\ \A j \in found : first <= j
  BY <1>1 DEF Index
<1>4. \A i \in found : (\A j \in found : i <= j) => i = first
  BY <1>3 DEF Index
<1>5. least = first
  <2> HIDE DEF found
  <2>. QED  BY <1>3, <1>4
<1>6. /\ st' = [i \in Index |-> IF i \in least .. least + Cardinality(got[r]) - 1
                                  THEN [st[i] EXCEPT !.status = @ - 1]
                                  ELSE st[i]]
      /\ got' = [got EXCEPT ![r] = {}]
  BY <1>3 DEF ReleaseUnpin, Unpin
<1>. QED  BY <1>2, <1>5, <1>6

LEMMA UnpinKeepsPins ==
  ASSUME IInv, PinsInPlace, StatusCountsPins, NEW r \in Readers, got[r] # {},
         ReleaseUnpin(r)
  PROVE  PinsInPlace' /\ StatusCountsPins'
<1>0. TypeOK
  BY DEF IInv
<1>1. PICK first \in Index, n \in Nat : Holds(r, first, n)
  BY DEF PinsInPlace
<1>2. /\ st' = [i \in Index |-> IF i \in PlaceOf(r) THEN [st[i] EXCEPT !.status = @ - 1]
                               ELSE st[i]]
      /\ got' = [got EXCEPT ![r] = {}]
  BY <1>1, ReleaseLowersItsRow
<1>3. \A i \in Index : CopyOf(i)' = CopyOf(i)
  BY <1>0, UnpinChangesStatus, CopiesStay
<1>4. got'[r] = {} /\ \A q \in Readers \ {r} : got'[q] = got[q]
  BY <1>0, <1>2 DEF TypeOK
<1>5. PlaceOf(r)' = {} /\ \A q \in Readers \ {r} : PlaceOf(q)' = PlaceOf(q)
  <2>1. PlaceOf(r)' = {}
    BY <1>4 DEF PlaceOf
  <2>. QED  BY <1>3, <1>4, <2>1, PlacesStay
<1>6. PinsInPlace'
  <2> SUFFICES ASSUME NEW q \in Readers, got'[q] # {}
               PROVE  \E f \in Index, m \in Nat : Holds(q, f, m)'
    BY DEF PinsInPlace
  <2>1. q # r /\ got'[q] = got[q]
    BY <1>4
  <2>2. PICK f \in Index, m \in Nat : Holds(q, f, m)
    BY <2>1 DEF PinsInPlace
  <2>3. Holds(q, f, m)'
    BY <1>3, <2>1, <2>2, HeldStays
  <2>. QED  BY <2>3
<1>7. StatusCountsPins'
  <2> SUFFICES ASSUME NEW i \in Index
               PROVE  st'[i].status = IF st'[i].ts = 0 THEN WRONLY
                                      ELSE RDWR + Cardinality(Pinning(i)')
    BY DEF StatusCountsPins
  <2>1. IsFiniteSet(Pinning(i)) /\ Cardinality(Pinning(i)) \in Nat
    BY PinningIsFinite
  <2>2. st[i].status = IF st[i].ts = 0 THEN WRONLY ELSE RDWR + Cardinality(Pinning(i))
    BY DEF StatusCountsPins
  <2>3. CASE i \in PlaceOf(r)
    <3>1. Pinning(i)' = Pinning(i) \ {r} /\ r \in Pinning(i)
      BY <1>5, <2>3 DEF Pinning
    <3>2. Cardinality(Pinning(i)') = Cardinality(Pinning(i)) - 1
      BY <2>1, <3>1, FS_RemoveElement
    <3>3. st[i].ts # 0
      BY <1>0, <2>3, NotFreeIfHeld
    <3>4. st'[i].status = st[i].status - 1 /\ st'[i].ts = st[i].ts
      BY <1>0, <1>2, <2>3 DEF TypeOK, Element
    <3>. QED  BY <2>1, <2>2, <3>2, <3>3, <3>4 DEF RDWR
  <2>4. CASE i \notin PlaceOf(r)
    <3>1. Pinning(i)' = Pinning(i)
      BY <1>5, <2>4 DEF Pinning
    <3>2. st'[i] = st[i]
      BY <1>2, <2>4
    <3>. QED  BY <2>2, <3>1, <3>2
  <2>. QED  BY <2>3, <2>4
<1>. QED  BY <1>6, <1>7

-----------------------------------------------------------------------------
LEMMA PinInvInit == Init => PinInv
<1> SUFFICES ASSUME Init PROVE PinInv
  OBVIOUS
<1> USE RingAssumption, IndexFacts DEF Init
<1>1. HeldInBetween /\ NewerThanHeld /\ RecycledOrPinned /\ DroppedOnlyIfStaleOrPinned
  BY DEF HeldInBetween, NewerThanHeld, RecycledOrPinned, DroppedOnlyIfStaleOrPinned, Proc
<1>2. PinsInPlace
  BY DEF PinsInPlace
<1>3. StatusCountsPins
  BY DEF StatusCountsPins, WRONLY
<1>. QED  BY <1>1, <1>2, <1>3 DEF PinInv

(* A publisher that is not in its loop, moving elsewhere outside it, leaves *)
(* what the others have established, while the list stays.                 *)
LEMMA PublishersStay ==
  ASSUME TypeOK, NewerThanHeld, RecycledOrPinned, DroppedOnlyIfStaleOrPinned,
         NEW p \in Proc, NEW to, to \notin {"wscan", "wcopy", "wunlock"},
         pc' = [pc EXCEPT ![p] = to],
         \A w \in Writers : w # p => wr'[w] = wr[w],
         UNCHANGED <<st, length>>,
         \A r \in Readers : got'[r] \subseteq got[r]
  PROVE  NewerThanHeld' /\ RecycledOrPinned' /\ DroppedOnlyIfStaleOrPinned'
<1>1. \A w \in Writers : pc'[w] \in {"wscan", "wcopy", "wunlock"} =>
        pc'[w] = pc[w] /\ wr'[w] = wr[w]
  BY DEF TypeOK, Proc
<1>2. NewerThanHeld'
  BY <1>1 DEF NewerThanHeld
<1>3. RecycledOrPinned'
  BY <1>1 DEF RecycledOrPinned
<1>4. DroppedOnlyIfStaleOrPinned'
  BY <1>1 DEF DroppedOnlyIfStaleOrPinned
<1>. QED  BY <1>2, <1>3, <1>4

(* While a thread is inside, no other publisher is in its loop.            *)
LEMMA NoOtherPublisher ==
  ASSUME TypeOK, OneInside, NEW p \in Proc, pc[p] \in Inside,
         NEW to, pc' = [pc EXCEPT ![p] = to]
  PROVE  \A w \in Writers : w # p =>
           /\ pc[w] \notin {"wscan", "wcopy", "wunlock"}
           /\ pc'[w] \notin {"wscan", "wcopy", "wunlock"}
BY DEF TypeOK, OneInside, Inside, Proc

(* A stamp newer than the head's is newer than whatever is held.           *)
LEMMA HeldIsNotNewerThanHead ==
  ASSUME IInv, PinsInPlace, NEW r \in Readers, NEW e \in got[r]
  PROVE  e.ts <= st[0].ts /\ e.ts \in Int /\ \E i \in PlaceOf(r) : e = CopyOf(i)
<1> USE RingAssumption, IndexFacts DEF IInv
<1>1. PICK first \in Index, n \in Nat : Holds(r, first, n)
  BY DEF PinsInPlace
<1>2. PICK i \in PlaceOf(r) : e = CopyOf(i)
  BY <1>1 DEF Holds
<1>3. i \in Index /\ e.ts = st[i].ts
  BY <1>2 DEF PlaceOf, CopyOf
<1>4. st[i].ts <= st[0].ts /\ st[i].ts \in Int
  BY <1>3 DEF NewestFirst, TypeOK, Element, Index
<1>. QED  BY <1>2, <1>3, <1>4

(* The publisher's steps.                                                  *)
LEMMA PinInvWrite ==
  ASSUME IInv, PinInv, NEW w \in Writers, WriteCall(w) \/ Write(w)
  PROVE  PinInv'
<1> USE RingAssumption, IndexFacts DEF PinInv, ring, Proc
<1>0. /\ w \in Proc /\ TypeOK /\ OneInside
      /\ \A r \in Readers : w # r
      /\ got' = got
  BY DEF IInv, WriteCall, Write, WriteLock, WriteCheck, CheckThenScan, WriteScan,
         WriteCopy, WriteUnlock
<1>1. HeldInBetween'
  <2>1. PICK to : pc' = [pc EXCEPT ![w] = to]
    <3>1. CASE WriteScan(w)
      <4>1. pc = [pc EXCEPT ![w] = pc[w]]
        BY <1>0 DEF TypeOK
      <4>. QED  BY <3>1, <4>1 DEF WriteScan
    <3>2. CASE WriteCall(w) \/ WriteLock(w) \/ WriteCheck(w) \/ WriteCopy(w) \/ WriteUnlock(w)
      BY <3>2 DEF WriteCall, WriteLock, WriteCheck, CheckThenScan, WriteCopy, WriteUnlock,
                  Enter, Leave
    <3>. QED  BY <3>1, <3>2 DEF Write
  <2>2. \A r \in Readers : pc'[r] = pc[r]
    BY <1>0, <2>1 DEF TypeOK
  <2>. QED  BY <1>0, <2>2 DEF HeldInBetween
<1>2. CASE WriteCall(w) \/ WriteLock(w) \/ WriteUnlock(w)
  <2>1. PICK to \in {"wlock", "wcheck", "idle"} :
          /\ pc' = [pc EXCEPT ![w] = to]
          /\ \A v \in Writers : v # w => wr'[v] = wr[v]
          /\ UNCHANGED <<st, length>>
    BY <1>0, <1>2 DEF WriteCall, WriteLock, WriteUnlock, Enter, Leave, TypeOK
  <2>2. PinsInPlace' /\ StatusCountsPins'
    BY <1>0, <2>1, PinsStay
  <2>3. NewerThanHeld' /\ RecycledOrPinned' /\ DroppedOnlyIfStaleOrPinned'
    BY <1>0, <2>1, PublishersStay
  <2>. QED  BY <1>1, <2>2, <2>3
<1>3. CASE WriteCheck(w)
  <2>1. PinsInPlace' /\ StatusCountsPins'
    BY <1>0, <1>3, PinsStay DEF WriteCheck, CheckThenScan
  <2>2. pc[w] \in Inside /\ UNCHANGED <<st, length, got>>
    BY <1>3 DEF WriteCheck, CheckThenScan, Inside
  <2>3. CASE wr[w].ts <= st[0].ts
    <3>1. pc' = [pc EXCEPT ![w] = "wunlock"] /\ wr' = wr
      BY <1>3, <2>3 DEF WriteCheck, CheckThenScan
    <3>2. \A v \in Writers : v # w => pc'[v] \notin {"wscan", "wcopy", "wunlock"}
      BY <1>0, <2>2, <3>1, NoOtherPublisher
    <3>3. pc'[w] = "wunlock"
      BY <1>0, <3>1 DEF TypeOK
    <3>4. NewerThanHeld' /\ RecycledOrPinned'
      BY <3>2, <3>3 DEF NewerThanHeld, RecycledOrPinned
    <3>5. st'[0].ts >= wr'[w].ts
      BY <1>0, <2>2, <2>3, <3>1 DEF TypeOK, Element
    <3>6. DroppedOnlyIfStaleOrPinned'
      BY <3>2, <3>5 DEF DroppedOnlyIfStaleOrPinned
    <3>. QED  BY <1>1, <2>1, <3>4, <3>6
  <2>4. CASE ~(wr[w].ts <= st[0].ts)
    <3>1. pc' = [pc EXCEPT ![w] = "wscan"] /\ wr' = [wr EXCEPT ![w].i = length]
      BY <1>3, <2>4 DEF WriteCheck, CheckThenScan
    <3>2. \A v \in Writers : v # w => pc'[v] \notin {"wscan", "wcopy", "wunlock"}
      BY <1>0, <2>2, <3>1, NoOtherPublisher
    <3>3. pc'[w] = "wscan" /\ wr'[w].ts = wr[w].ts /\ wr'[w].i = length
      BY <1>0, <3>1 DEF TypeOK
    <3>4. wr[w].ts \in Int /\ st[0].ts \in Int
      BY <1>0 DEF TypeOK, Element
    <3>5. \A r \in Readers : \A e \in got[r] : e.ts < wr[w].ts
      BY <2>4, <3>4, HeldIsNotNewerThanHead
    <3>6. NewerThanHeld'
      BY <2>2, <3>2, <3>3, <3>5 DEF NewerThanHeld
    <3>7. \A i \in Index : ~(length <= i /\ i < length)
      BY <1>0 DEF TypeOK, Index
    <3>8. RecycledOrPinned'
      BY <2>2, <3>2, <3>3, <3>7 DEF RecycledOrPinned
    <3>9. DroppedOnlyIfStaleOrPinned'
      BY <3>2, <3>3 DEF DroppedOnlyIfStaleOrPinned
    <3>. QED  BY <1>1, <2>1, <3>6, <3>8, <3>9
  <2>. QED  BY <2>3, <2>4
<1>4. CASE WriteScan(w)
  <2> DEFINE i == wr[w].i
             e == [ts |-> wr[w].ts, status |-> RDWR, slot |-> st[i].slot]
  <2>1. /\ i \in 0 .. BlbCount /\ pc[w] = "wscan" /\ pc[w] \in Inside
        /\ UNCHANGED <<lock, length, blob>>
    BY <1>0, <1>4 DEF WriteScan, TypeOK, Inside
  <2>2. PICK to \in {"wscan", "wcopy", "wunlock"} : pc' = [pc EXCEPT ![w] = to]
    BY <1>0, <1>4 DEF WriteScan, TypeOK
  <2>3. /\ \A v \in Writers : v # w => pc'[v] \notin {"wscan", "wcopy", "wunlock"}
        /\ pc'[w] = to
    BY <1>0, <2>1, <2>2, NoOtherPublisher DEF TypeOK
  <2>4. /\ \A r \in Readers : \A c \in got[r] : c.ts < wr[w].ts
        /\ \/ st[0].ts = wr[w].ts
           \/ \A j \in Index : length <= j /\ j < i => ~Free(st[j])
    BY <2>1 DEF NewerThanHeld, RecycledOrPinned
  <2>5. CASE i = BlbCount
    <3>1. pc' = [pc EXCEPT ![w] = "wunlock"] /\ UNCHANGED <<wr, st>>
      BY <1>4, <2>5 DEF WriteScan
    <3>2. pc'[w] = "wunlock"
      BY <1>0, <3>1 DEF TypeOK
    <3>3. PinsInPlace' /\ StatusCountsPins'
      BY <1>0, <3>1, PinsStay
    <3>4. NewerThanHeld' /\ RecycledOrPinned'
      BY <2>3, <3>2 DEF NewerThanHeld, RecycledOrPinned
    <3>5. \/ st[0].ts >= wr[w].ts
          \/ \A j \in Index : j >= length => ~Free(st[j])
      <4>1. st[0].ts \in Int /\ \A j \in Index : j < BlbCount
        BY <1>0 DEF TypeOK, Element
      <4>2. CASE st[0].ts = wr[w].ts
        BY <4>1, <4>2
      <4>3. CASE \A j \in Index : length <= j /\ j < i => ~Free(st[j])
        <5>1. length \in Int /\ \A j \in Index : j \in Int
          BY <1>0 DEF TypeOK
        <5>. QED  BY <2>5, <4>1, <4>3, <5>1
      <4>. QED  BY <2>4, <4>2, <4>3
    <3>6. DroppedOnlyIfStaleOrPinned'
      BY <2>1, <2>3, <3>1, <3>5 DEF DroppedOnlyIfStaleOrPinned, Free
    <3>. QED  BY <1>1, <3>3, <3>4, <3>6
  <2>6. CASE i < BlbCount /\ ~Free(st[i])
    <3>1. wr' = [wr EXCEPT ![w].i = i + 1] /\ UNCHANGED <<pc, st>>
      BY <1>4, <2>1, <2>6 DEF WriteScan
    <3>2. pc'[w] = "wscan" /\ wr'[w].ts = wr[w].ts /\ wr'[w].i = i + 1
      BY <1>0, <2>1, <3>1 DEF TypeOK
    <3>3. PinsInPlace' /\ StatusCountsPins'
      BY <1>0, <3>1, PinsStay
    <3>4. NewerThanHeld'
      BY <1>0, <2>3, <2>4, <3>2 DEF NewerThanHeld
    <3>5. \/ st[0].ts = wr[w].ts
          \/ \A j \in Index : length <= j /\ j < i + 1 => ~Free(st[j])
      BY <2>1, <2>4, <2>6 DEF Index
    <3>6. RecycledOrPinned'
      BY <2>1, <2>3, <3>1, <3>2, <3>5 DEF RecycledOrPinned, Free
    <3>7. DroppedOnlyIfStaleOrPinned'
      BY <2>3, <3>2 DEF DroppedOnlyIfStaleOrPinned
    <3>. QED  BY <1>1, <3>3, <3>4, <3>6, <3>7
  <2>7. CASE i < BlbCount /\ Free(st[i])
    <3>1. i \in Index
      BY <2>1, <2>7 DEF Index
    <3>2. st' = MoveToHead(i, e)
      BY <1>4, <2>1, <2>7 DEF WriteScan
    <3>3. wr[w].ts \in Stamp /\ st[0].ts <= wr[w].ts
      BY <2>1 DEF IInv, TypeOK, WriterInLoop, Stamp
    <3>4. PinsInPlace' /\ StatusCountsPins'
      BY <1>0, <2>4, <2>7, <3>1, <3>2, <3>3, RecyclingKeepsPins
    <3>5. /\ pc'[w] \in {"wscan", "wcopy"} /\ wr'[w].ts = wr[w].ts
      BY <1>0, <1>4, <2>1, <2>7 DEF WriteScan, TypeOK
    <3>6. st'[0].ts = wr[w].ts
      BY <3>2 DEF MoveToHead
    <3>7. NewerThanHeld'
      BY <1>0, <2>3, <2>4, <3>5 DEF NewerThanHeld
    <3>8. RecycledOrPinned'
      BY <2>3, <3>5, <3>6 DEF RecycledOrPinned
    <3>9. DroppedOnlyIfStaleOrPinned'
      BY <2>3, <3>5 DEF DroppedOnlyIfStaleOrPinned
    <3>. QED  BY <1>1, <3>4, <3>7, <3>8, <3>9
  <2>. QED  BY <2>1, <2>5, <2>6, <2>7
<1>5. CASE WriteCopy(w)
  <2>1. /\ pc[w] = "wcopy" /\ pc[w] \in Inside
        /\ pc' = [pc EXCEPT ![w] = "wscan"]
        /\ UNCHANGED <<length, st, got>>
    BY <1>5 DEF WriteCopy, Inside
  <2>2. /\ \A v \in Writers : v # w => pc'[v] \notin {"wscan", "wcopy", "wunlock"}
        /\ pc'[w] = "wscan"
        /\ wr'[w].ts = wr[w].ts
    <3>1. wr'[w].ts = wr[w].ts
      BY <1>0, <1>5 DEF TypeOK, WriteCopy
    <3>2. pc'[w] = "wscan"
      BY <1>0, <2>1 DEF TypeOK
    <3>3. \A v \in Writers : v # w => pc'[v] \notin {"wscan", "wcopy", "wunlock"}
      BY <1>0, <2>1, NoOtherPublisher
    <3>. QED  BY <3>1, <3>2, <3>3
  <2>3. PinsInPlace' /\ StatusCountsPins'
    BY <2>1, PinsStay
  <2>4. NewerThanHeld' /\ RecycledOrPinned' /\ DroppedOnlyIfStaleOrPinned'
    BY <2>1, <2>2 DEF NewerThanHeld, RecycledOrPinned, DroppedOnlyIfStaleOrPinned
  <2>. QED  BY <1>1, <2>3, <2>4
<1>. QED  BY <1>2, <1>3, <1>4, <1>5 DEF Write

(* The subscriber's steps.                                                 *)
LEMMA PinInvRead ==
  ASSUME IInv, PinInv, NEW r \in Readers,
         ReadCall(r) \/ Read(r) \/ ReleaseCall(r) \/ Release(r)
  PROVE  PinInv'
<1> USE RingAssumption, IndexFacts DEF PinInv, ring, Proc
<1>0. /\ r \in Proc /\ TypeOK /\ OneInside
      /\ \A w \in Writers : w # r
  BY DEF IInv
<1>1. CASE ReadCall(r) \/ ReadLock(r) \/ ReadUnlock(r) \/ ReleaseCall(r) \/ ReleaseLock(r)
           \/ ReleaseUnlock(r)
  <2>1. PICK to \in {"rlock", "rpin", "idle", "reading", "llock", "lunpin"} :
          /\ pc' = [pc EXCEPT ![r] = to]
          /\ UNCHANGED <<st, length, wr, got>>
          /\ to \in {"rlock", "rpin", "idle"} => got[r] = {}
          /\ to \in {"reading", "llock", "lunpin"} => got[r] # {}
    BY <1>1 DEF ReadCall, ReadLock, ReadUnlock, ReleaseCall, ReleaseLock, ReleaseUnlock,
                Enter, Leave, HeldInBetween
  <2>2. PinsInPlace' /\ StatusCountsPins'
    BY <2>1, PinsStay
  <2>3. NewerThanHeld' /\ RecycledOrPinned' /\ DroppedOnlyIfStaleOrPinned'
    BY <1>0, <2>1, PublishersStay
  <2>4. HeldInBetween'
    BY <1>0, <2>1 DEF HeldInBetween, TypeOK
  <2>. QED  BY <2>2, <2>3, <2>4
<1>2. CASE ReadN(r) \/ ReadP(r) \/ ReleaseUnpin(r)
  <2>1. PICK to \in {"runlock", "lunlock"} :
          /\ pc' = [pc EXCEPT ![r] = to]
          /\ to = "lunlock" => got'[r] = {}
          /\ \A q \in Readers \ {r} : got'[q] = got[q]
    BY <1>0, <1>2 DEF ReadN, ReadP, Pin, ReleaseUnpin, Unpin, TypeOK
  <2>2. pc[r] \in Inside
    BY <1>2 DEF ReadN, ReadP, Pin, ReleaseUnpin, Unpin, Inside
  <2>3. \A w \in Writers : pc'[w] \notin {"wscan", "wcopy", "wunlock"}
    BY <1>0, <2>1, <2>2, NoOtherPublisher
  <2>4. NewerThanHeld' /\ RecycledOrPinned' /\ DroppedOnlyIfStaleOrPinned'
    BY <2>3 DEF NewerThanHeld, RecycledOrPinned, DroppedOnlyIfStaleOrPinned
  <2>5. HeldInBetween'
    BY <1>0, <2>1 DEF HeldInBetween, TypeOK
  <2>6. PinsInPlace' /\ StatusCountsPins'
    <3>1. CASE ReadN(r) \/ ReadP(r)
      <4>1. got[r] = {}
        BY <3>1 DEF ReadN, ReadP, Pin, HeldInBetween
      <4>2. PICK first \in Index, n \in Nat :
              /\ first + n <= BlbCount /\ first + n <= length
              /\ \A i \in Index : i < first => st[i].ts > st[first].ts
              /\ Pin(r, first .. first + n - 1)
        BY <3>1, ReadTakesARow
      <4>. QED  BY <4>1, <4>2, PinKeepsPins
    <3>2. CASE ReleaseUnpin(r)
      <4>1. got[r] # {}
        BY <3>2 DEF ReleaseUnpin, Unpin, HeldInBetween
      <4>. QED  BY <3>2, <4>1, UnpinKeepsPins
    <3>. QED  BY <1>2, <3>1, <3>2
  <2>. QED  BY <2>4, <2>5, <2>6
<1>. QED  BY <1>1, <1>2 DEF Read, Release

(* The maintainer, and threads that die.                                   *)
LEMMA PinInvOther ==
  ASSUME IInv, PinInv, Maintain \/ (\E p \in Proc : Crash(p)) \/ UNCHANGED vars
  PROVE  PinInv'
<1> USE RingAssumption DEF PinInv, ring
<1>0. TypeOK /\ OneInside
  BY DEF IInv
<1>1. CASE Maintain
  <2>1. lock = 0 /\ UNCHANGED <<lock, st, blob, pc, wr, got>>
    BY <1>1 DEF Maintain
  <2>2. \A w \in Writers : pc'[w] \notin {"wscan", "wcopy", "wunlock"}
    BY <1>0, <2>1 DEF OneInside, Inside, Proc
  <2>3. NewerThanHeld' /\ RecycledOrPinned' /\ DroppedOnlyIfStaleOrPinned'
    BY <2>2 DEF NewerThanHeld, RecycledOrPinned, DroppedOnlyIfStaleOrPinned
  <2>4. PinsInPlace' /\ StatusCountsPins'
    BY <2>1, PinsStay
  <2>5. HeldInBetween'
    BY <2>1 DEF HeldInBetween
  <2>. QED  BY <2>3, <2>4, <2>5
<1>2. ASSUME NEW p \in Proc, Crash(p)
      PROVE  PinInv'
  <2>1. PICK to \in {"dead", "deadinside"} : pc' = [pc EXCEPT ![p] = to]
    BY <1>2 DEF Crash
  <2>2. UNCHANGED <<st, length, wr, got>>
    BY <1>2 DEF Crash
  <2>3. NewerThanHeld' /\ RecycledOrPinned' /\ DroppedOnlyIfStaleOrPinned'
    BY <1>0, <2>1, <2>2, PublishersStay
  <2>4. PinsInPlace' /\ StatusCountsPins'
    BY <2>2, PinsStay
  <2>5. HeldInBetween'
    BY <1>0, <2>1, <2>2 DEF HeldInBetween, TypeOK, Proc
  <2>. QED  BY <2>3, <2>4, <2>5
<1>3. CASE UNCHANGED vars
  <2>1. PinsInPlace' /\ StatusCountsPins'
    BY <1>3, PinsStay DEF vars
  <2>2. /\ HeldInBetween' /\ NewerThanHeld' /\ RecycledOrPinned'
        /\ DroppedOnlyIfStaleOrPinned'
    BY <1>3 DEF vars, HeldInBetween, NewerThanHeld, RecycledOrPinned, Free,
                DroppedOnlyIfStaleOrPinned
  <2>. QED  BY <2>1, <2>2
<1>. QED  BY <1>1, <1>2, <1>3

LEMMA PinInvStep == IInv /\ PinInv /\ [Next]_vars => PinInv'
BY PinInvWrite, PinInvRead, PinInvOther DEF Next

LEMMA PinInvAlways == Spec => [](IInv /\ PinInv)
<1>1. Init => IInv /\ PinInv
  BY InductiveInit, PinInvInit
<1>2. (IInv /\ PinInv) /\ [Next]_vars => (IInv /\ PinInv)'
  BY InductiveStep, PinInvStep
<1>. QED  BY <1>1, <1>2, PTL DEF Spec

-----------------------------------------------------------------------------
(* What release finds again is what was pinned.                            *)
THEOREM ReleaseFindsItsElementsAlways == Spec => []ReleaseFindsItsElements
<1>1. IInv /\ PinInv => ReleaseFindsItsElements
  <2> SUFFICES ASSUME IInv, PinInv, NEW r \in Readers, got[r] # {}
               PROVE  \E first \in Index :
                        /\ PlaceOf(r) = first .. first + Cardinality(got[r]) - 1
                        /\ \A i \in Index : i < first => st[i].ts # NewestGot(r)
                        /\ st[first].ts = NewestGot(r)
    BY DEF ReleaseFindsItsElements
  <2>1. PICK first \in Index, n \in Nat : Holds(r, first, n)
    BY DEF PinInv, PinsInPlace
  <2>2. /\ NewestGot(r) = st[first].ts
        /\ \A i \in Index : i < first => st[i].ts # NewestGot(r)
    BY <2>1, ReleaseFinds
  <2>. QED  BY <2>1, <2>2 DEF Holds
<1>. QED  BY PinInvAlways, <1>1, PTL

(* Every status counts its subscribers.                                    *)
THEOREM StatusCountsPinsAlways == Spec => []StatusCountsPins
<1>1. IInv /\ PinInv => StatusCountsPins
  BY DEF PinInv
<1>. QED  BY PinInvAlways, <1>1, PTL

(* A message is left out only when it is stale or every element that could *)
(* take it is held.                                                        *)
THEOREM DroppedOnlyIfStaleOrPinnedAlways == Spec => []DroppedOnlyIfStaleOrPinned
<1>1. IInv /\ PinInv => DroppedOnlyIfStaleOrPinned
  BY DEF PinInv
<1>. QED  BY PinInvAlways, <1>1, PTL

(* The publisher that copies does so in a block that nobody holds.         *)
LEMMA HeadIsNotHeld ==
  ASSUME IInv, PinInv, NEW w \in Writers, pc[w] = "wcopy", NEW r \in Readers, NEW e \in got[r]
  PROVE  e.slot # st[0].slot
<1>1. PICK i \in PlaceOf(r) : e = CopyOf(i)
  BY HeldIsNotNewerThanHead DEF PinInv
<1>2. e.ts < wr[w].ts /\ wr[w].ts = st[0].ts /\ e.ts \in Int
  BY HeldIsNotNewerThanHead DEF PinInv, NewerThanHeld, RecycledOrPinned
<1>3. i \in Index /\ e.ts = st[i].ts /\ e.slot = st[i].slot
  BY <1>1 DEF PlaceOf, CopyOf
<1>4. i # 0
  BY <1>2, <1>3
<1>. QED  BY <1>3, <1>4, IndexFacts DEF IInv, BlocksDistinct

LEMMA BlobStep ==
  IInv /\ [Next]_vars =>
    \/ UNCHANGED blob
    \/ \E w \in Writers : WriteCopy(w)
BY DEF Next, vars, ring, WriteCall, Write, WriteLock, WriteCheck, CheckThenScan,
       WriteScan, WriteUnlock, ReadCall, Read, ReadLock, ReadN, ReadP, Pin, ReadUnlock,
       ReleaseCall, Release, ReleaseLock, ReleaseUnpin, Unpin, ReleaseUnlock, Maintain, Crash

(* What a subscriber reads in place does not change under it.              *)
THEOREM HeldBlocksUntouchedAlways == Spec => HeldBlocksUntouched
<1>1. IInv /\ PinInv /\ [Next]_vars =>
        [\A r \in Readers : \A e \in got[r] : blob'[e.slot] = blob[e.slot]]_vars
  <2> SUFFICES ASSUME IInv, PinInv, [Next]_vars, NEW r \in Readers, NEW e \in got[r]
               PROVE  blob'[e.slot] = blob[e.slot]
    OBVIOUS
  <2>1. ASSUME NEW w \in Writers, WriteCopy(w)
        PROVE  blob'[e.slot] = blob[e.slot]
    <3>1. e.slot # st[0].slot
      BY <2>1, HeadIsNotHeld DEF WriteCopy
    <3>2. e.slot \in Slot
      BY DEF IInv, TypeOK, Copy
    <3>. QED  BY <2>1, <3>1, <3>2 DEF WriteCopy, IInv, TypeOK
  <2>. QED  BY <2>1, BlobStep
<1>. QED  BY PinInvAlways, <1>1, PTL DEF Spec, HeldBlocksUntouched

-----------------------------------------------------------------------------
(* A publisher past its call uses a size that publishers use.              *)
SizesInUse == \A w \in Writers : pc[w] \in {"wlock", "wcheck", "wscan", "wcopy"} =>
                wr[w].size \in SizesUsed

(* The message of every element is in its block, but for one that nobody   *)
(* holds, which a publisher is copying or died in copying.                 *)
CopyPending == /\ \E w \in Writers : pc[w] \in {"wcopy", "deadinside"}
               /\ \A r \in Readers : 0 \notin PlaceOf(r)
MessagesStored ==
  \A i \in Index : \/ blob[st[i].slot] = st[i].ts
                   \/ i = 0 /\ CopyPending

BlobInv == IInv /\ PinInv /\ SizesInUse /\ MessagesStored

LEMMA BlobInvInit == Init => SizesInUse /\ MessagesStored
<1> SUFFICES ASSUME Init PROVE SizesInUse /\ MessagesStored
  OBVIOUS
<1>. QED  BY RingAssumption, IndexFacts DEF Init, SizesInUse, MessagesStored, Proc

(* Steps of a thread that leave list, blocks and copies alone.             *)
LEMMA StoredStays ==
  ASSUME TypeOK, SizesInUse, MessagesStored, UNCHANGED <<st, blob, got>>,
         NEW p \in Proc, pc[p] # "wcopy", pc[p] # "deadinside", NEW to, to # "wlock",
         to \in {"wcheck", "wscan", "wcopy"} => pc[p] \in {"wlock", "wcheck", "wscan"},
         pc' = [pc EXCEPT ![p] = to],
         \A w \in Writers : wr'[w].size = wr[w].size \/ pc'[w] = "idle"
  PROVE  SizesInUse' /\ MessagesStored'
<1>1. \A q \in Proc : q # p => pc'[q] = pc[q]
  BY DEF TypeOK
<1>2. pc'[p] = to
  BY DEF TypeOK
<1>3. SizesInUse'
  BY <1>1, <1>2 DEF SizesInUse, Proc
<1>4. \A r \in Readers : PlaceOf(r)' = PlaceOf(r)
  BY DEF PlaceOf
<1>5. CopyPending => CopyPending'
  BY <1>1, <1>4 DEF CopyPending, Proc
<1>. QED  BY <1>3, <1>5 DEF MessagesStored

(* While a thread is inside and is not copying, all messages are stored.   *)
LEMMA AllStored ==
  ASSUME OneInside, MessagesStored, NEW p \in Proc,
         pc[p] \in Inside \ {"wcopy", "deadinside"}
  PROVE  \A i \in Index : blob[st[i].slot] = st[i].ts
<1>1. \A w \in Writers : pc[w] \notin {"wcopy", "deadinside"}
  BY DEF OneInside, Inside, Proc
<1>. QED  BY <1>1 DEF MessagesStored, CopyPending

LEMMA BlobInvWrite ==
  ASSUME SizesUsed = {"fits"}, BlobInv, NEW w \in Writers, WriteCall(w) \/ Write(w)
  PROVE  SizesInUse' /\ MessagesStored'
<1> USE RingAssumption, IndexFacts DEF BlobInv, IInv, ring, Proc
<1>0. w \in Proc /\ TypeOK /\ OneInside
  OBVIOUS
<1>1. CASE WriteCall(w)
  <2>1. /\ pc' = [pc EXCEPT ![w] = "wlock"] /\ pc[w] = "idle"
        /\ UNCHANGED <<st, blob, got>>
    BY <1>1 DEF WriteCall
  <2>2. /\ wr'[w].size \in SizesUsed
        /\ \A v \in Writers : v # w => wr'[v] = wr[v]
    BY <1>1 DEF WriteCall, TypeOK
  <2>3. \A q \in Proc : q # w => pc'[q] = pc[q]
    BY <2>1 DEF TypeOK
  <2>4. SizesInUse'
    BY <2>2, <2>3 DEF SizesInUse
  <2>5. \A r \in Readers : PlaceOf(r)' = PlaceOf(r)
    BY <2>1 DEF PlaceOf
  <2>6. CopyPending => CopyPending'
    BY <2>1, <2>3, <2>5 DEF CopyPending
  <2>. QED  BY <2>1, <2>4, <2>6 DEF MessagesStored
<1>2. CASE WriteLock(w) \/ WriteUnlock(w) \/ WriteCheck(w)
  <2>1. /\ UNCHANGED <<st, blob, got>>
        /\ pc[w] \in {"wlock", "wunlock", "wcheck"}
    BY <1>2 DEF WriteLock, WriteUnlock, WriteCheck, CheckThenScan, Enter, Leave
  <2>2. PICK to \in {"wcheck", "wscan", "wunlock", "idle"} :
          /\ pc' = [pc EXCEPT ![w] = to]
          /\ to \in {"wcheck", "wscan"} => pc[w] \in {"wlock", "wcheck"}
    BY <1>2 DEF WriteLock, WriteUnlock, WriteCheck, CheckThenScan, Enter, Leave
  <2>3. \A v \in Writers : wr'[v].size = wr[v].size \/ pc'[v] = "idle"
    BY <1>2 DEF WriteLock, WriteUnlock, WriteCheck, CheckThenScan, Enter, Leave, TypeOK
  <2>. QED  BY <1>0, <2>1, <2>2, <2>3, StoredStays
<1>3. CASE WriteScan(w)
  <2> DEFINE i == wr[w].i
             e == [ts |-> wr[w].ts, status |-> RDWR, slot |-> st[i].slot]
  <2>1. /\ i \in 0 .. BlbCount /\ pc[w] = "wscan" /\ pc[w] \in Inside \ {"wcopy", "deadinside"}
        /\ UNCHANGED <<blob, got>>
        /\ wr[w].size = "fits"
    BY <1>3 DEF WriteScan, TypeOK, Inside, SizesInUse
  <2>2. \A j \in Index : blob[st[j].slot] = st[j].ts
    BY <1>0, <2>1, AllStored
  <2>3. /\ \A v \in Writers : v # w => pc'[v] = pc[v]
        /\ \A v \in Writers : wr'[v].size = wr[v].size
    BY <1>3 DEF WriteScan, TypeOK
  <2>4. SizesInUse'
    BY <2>1, <2>3 DEF SizesInUse
  <2>5. CASE UNCHANGED st
    BY <2>1, <2>2, <2>4, <2>5 DEF MessagesStored
  <2>6. CASE i < BlbCount /\ Free(st[i])
    <3>1. i \in Index
      BY <2>1, <2>6 DEF Index
    <3>2. st' = MoveToHead(i, e) /\ pc' = [pc EXCEPT ![w] = "wcopy"]
      BY <1>3, <2>1, <2>6 DEF WriteScan
    <3>3. wr[w].ts \in Stamp
      BY <2>1 DEF TypeOK, WriterInLoop, Stamp
    <3>4. \A r \in Readers : \A c \in got[r] : c.ts < wr[w].ts
      BY <2>1 DEF PinInv, NewerThanHeld
    <3>5. \A r \in Readers : 0 \notin PlaceOf(r)'
      BY <1>0, <2>1, <3>1, <3>2, <3>3, <3>4, RecyclingMoves
    <3>6. pc'[w] = "wcopy"
      BY <3>2 DEF TypeOK
    <3>7. CopyPending'
      BY <3>5, <3>6 DEF CopyPending
    <3>8. \A j \in Index : j # 0 => \E k \in Index : st'[j] = st[k]
      BY <3>2 DEF MoveToHead, Index
    <3>9. \A j \in Index : j # 0 => blob'[st'[j].slot] = st'[j].ts
      BY <2>1, <2>2, <3>8
    <3>. QED  BY <2>4, <3>7, <3>9 DEF MessagesStored
  <2>7. UNCHANGED st \/ (i < BlbCount /\ Free(st[i]))
    BY <1>3 DEF WriteScan
  <2>. QED  BY <2>5, <2>6, <2>7
<1>4. CASE WriteCopy(w)
  <2>1. /\ pc[w] = "wcopy" /\ UNCHANGED <<st, got>>
        /\ pc' = [pc EXCEPT ![w] = "wscan"]
        /\ blob' = [blob EXCEPT ![st[0].slot] = wr[w].ts]
        /\ wr' = [wr EXCEPT ![w].i = @ + 1]
    BY <1>4 DEF WriteCopy
  <2>2. SizesInUse'
    BY <2>1 DEF SizesInUse, TypeOK
  <2>3. st[0].ts = wr[w].ts
    BY <2>1 DEF PinInv, RecycledOrPinned
  <2>4. ASSUME NEW j \in Index
        PROVE  blob'[st'[j].slot] = st'[j].ts
    <3>1. st[j].slot \in Slot /\ st[0].slot \in Slot /\ blob \in [Slot -> 0 .. MaxTs]
      BY DEF TypeOK, Element
    <3>2. CASE j = 0
      BY <2>1, <2>3, <3>1, <3>2
    <3>3. CASE j # 0
      <4>1. st[j].slot # st[0].slot
        BY <3>3 DEF BlocksDistinct
      <4>2. blob[st[j].slot] = st[j].ts
        BY <3>3 DEF MessagesStored
      <4>. QED  BY <2>1, <3>1, <4>1, <4>2
    <3>. QED  BY <3>2, <3>3
  <2>. QED  BY <2>2, <2>4 DEF MessagesStored
<1>. QED  BY <1>1, <1>2, <1>3, <1>4 DEF Write

LEMMA BlobInvCrash ==
  ASSUME TypeOK, SizesInUse, MessagesStored, NEW p \in Proc, Crash(p)
  PROVE  SizesInUse' /\ MessagesStored'
<1>1. UNCHANGED <<st, blob, got, wr>>
  BY DEF Crash, ring
<1>2. \A q \in Proc : q # p => pc'[q] = pc[q]
  BY DEF Crash, TypeOK
<1>3. pc'[p] \in {"dead", "deadinside"} /\ (pc[p] \in Inside => pc'[p] = "deadinside")
  BY DEF Crash, TypeOK
<1>4. SizesInUse'
  BY <1>1, <1>2, <1>3 DEF SizesInUse, Proc
<1>5. \A r \in Readers : PlaceOf(r)' = PlaceOf(r)
  BY <1>1 DEF PlaceOf
<1>6. \A w \in Writers : pc[w] \in {"wcopy", "deadinside"} =>
                         pc'[w] \in {"wcopy", "deadinside"}
  BY <1>2, <1>3 DEF Inside, Proc
<1>7. CopyPending => CopyPending'
  BY <1>5, <1>6 DEF CopyPending
<1>. QED  BY <1>1, <1>4, <1>7 DEF MessagesStored

LEMMA BlobInvOther ==
  ASSUME BlobInv,
         \/ \E r \in Readers : ReadCall(r) \/ Read(r) \/ ReleaseCall(r) \/ Release(r)
         \/ Maintain
         \/ \E p \in Proc : Crash(p)
         \/ UNCHANGED vars
  PROVE  SizesInUse' /\ MessagesStored'
<1> USE RingAssumption, IndexFacts DEF BlobInv, IInv, ring, Proc
<1>1. ASSUME NEW r \in Readers,
             ReadCall(r) \/ ReadLock(r) \/ ReadUnlock(r) \/ ReleaseCall(r)
               \/ ReleaseLock(r) \/ ReleaseUnlock(r)
      PROVE  SizesInUse' /\ MessagesStored'
  <2>1. /\ UNCHANGED <<st, blob, got, wr>>
        /\ pc[r] \in {"idle", "rlock", "runlock", "reading", "llock", "lunlock"}
    BY <1>1 DEF ReadCall, ReadLock, ReadUnlock, ReleaseCall, ReleaseLock, ReleaseUnlock,
                Enter, Leave
  <2>2. PICK to \in {"rlock", "rpin", "idle", "reading", "llock", "lunpin"} :
          pc' = [pc EXCEPT ![r] = to]
    BY <1>1 DEF ReadCall, ReadLock, ReadUnlock, ReleaseCall, ReleaseLock, ReleaseUnlock,
                Enter, Leave
  <2>. QED  BY <2>1, <2>2, StoredStays
<1>2. ASSUME NEW r \in Readers, ReadN(r) \/ ReadP(r) \/ ReleaseUnpin(r)
      PROVE  SizesInUse' /\ MessagesStored'
  <2>1. /\ pc[r] \in Inside \ {"wcopy", "deadinside"}
        /\ UNCHANGED <<blob, wr>>
    BY <1>2 DEF ReadN, ReadP, Pin, ReleaseUnpin, Unpin, Inside
  <2>2. \A w \in Writers : pc'[w] = pc[w]
    BY <1>2 DEF ReadN, ReadP, Pin, ReleaseUnpin, Unpin, TypeOK
  <2>3. OnlyStatusChanges
    BY <1>2, PinChangesStatus, UnpinChangesStatus DEF ReadN, ReadP
  <2>4. \A i \in Index : st'[i].ts = st[i].ts /\ st'[i].slot = st[i].slot
    BY <2>3 DEF OnlyStatusChanges, TypeOK, Element
  <2>5. \A i \in Index : blob[st[i].slot] = st[i].ts
    BY <2>1, AllStored
  <2>6. MessagesStored'
    BY <2>1, <2>4, <2>5 DEF MessagesStored
  <2>7. SizesInUse'
    BY <2>1, <2>2 DEF SizesInUse
  <2>. QED  BY <2>6, <2>7
<1>3. CASE Maintain \/ UNCHANGED vars
  <2>1. UNCHANGED <<st, blob, got, pc, wr>>
    BY <1>3 DEF Maintain, vars
  <2>2. \A r \in Readers : PlaceOf(r)' = PlaceOf(r)
    BY <2>1 DEF PlaceOf
  <2>. QED  BY <2>1, <2>2 DEF SizesInUse, MessagesStored, CopyPending
<1>4. ASSUME NEW p \in Proc, Crash(p)
      PROVE  SizesInUse' /\ MessagesStored'
  BY <1>4, BlobInvCrash
<1>. QED  BY <1>1, <1>2, <1>3, <1>4 DEF Read, Release

(* The message of every element held is in its block, whole, when          *)
(* publishers keep to the size they registered.                            *)
THEOREM HeldMessagesIntactAlways ==
  ASSUME SizesUsed = {"fits"}
  PROVE  Spec => []HeldMessagesIntact
<1>1. Init => BlobInv
  BY InductiveInit, PinInvInit, BlobInvInit DEF BlobInv
<1>2. BlobInv /\ [Next]_vars => BlobInv'
  BY InductiveStep, PinInvStep, BlobInvWrite, BlobInvOther DEF BlobInv, Next
<1>3. BlobInv => HeldMessagesIntact
  <2> SUFFICES ASSUME BlobInv, NEW r \in Readers, NEW e \in got[r]
               PROVE  blob[e.slot] = e.ts
    BY DEF HeldMessagesIntact
  <2>1. PICK i \in PlaceOf(r) : e = CopyOf(i)
    BY HeldIsNotNewerThanHead DEF BlobInv, PinInv
  <2>2. i \in Index /\ e.ts = st[i].ts /\ e.slot = st[i].slot
    BY <2>1 DEF PlaceOf, CopyOf
  <2>3. ~(i = 0 /\ CopyPending)
    BY <2>1 DEF CopyPending
  <2>. QED  BY <2>2, <2>3 DEF BlobInv, MessagesStored
<1>. QED  BY <1>1, <1>2, <1>3, PTL DEF Spec
=============================================================================
