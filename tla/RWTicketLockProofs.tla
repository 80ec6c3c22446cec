-------------------------- MODULE RWTicketLockProofs --------------------------
(***************************************************************************)
(* Proofs about the reader-writer ticket lock, for any number of values of *)
(* a byte and any set of fewer threads.  The counters are a circle: read   *)
(* is as far past write as there are readers inside, and users as far past *)
(* read as there are threads in the queue, that is, threads that have a    *)
(* ticket whose turn has not been passed on.  The tickets of the queue are *)
(* all different, which takes that there are fewer threads than values;    *)
(* whoever is inside but not reading has the ticket that read is at.       *)
(***************************************************************************)
EXTENDS RWTicketLock, FiniteSetTheorems, TLAPS

Byte == 0 .. Base - 1

(* The value n places after b, and how far it is from b on to c *)
Shift(b, n) == IF b + n < Base THEN b + n ELSE b + n - Base
Dist(b, c) == IF b <= c THEN c - b ELSE c - b + Base

Passing == {"rpass", "rstore"}
Exclusive == {"writing", "wstore"}
Queueing == {"wwait", "rwait"} \cup Passing \cup Exclusive
Trying == {"wtryread", "wtrycas", "rtrywrite", "rtrycas"}

InQueue == {p \in Proc : pc[p] \in Queueing}
Reading == {p \in Proc : pc[p] = "reading"}
Queued == Cardinality(InQueue)
Readers == Cardinality(Reading)

TypeOK == /\ u \in [write : Byte, read : Byte, users : Byte, top : Byte]
          /\ pc \in [Proc -> {"idle", "reading"} \cup Queueing \cup Trying]
          /\ me \in [Proc -> Byte]
          /\ reg \in [Proc -> Byte]

Counters == /\ u.read = Shift(u.write, Readers)
            /\ u.users = Shift(u.read, Queued)

Tickets == \A p \in InQueue : /\ Dist(u.read, me[p]) < Queued
                              /\ \A q \in InQueue : me[p] = me[q] => p = q

Turns == \A p \in Proc : /\ pc[p] \in Passing => me[p] = u.read
                         /\ pc[p] \in Exclusive => me[p] = u.read /\ me[p] = u.write

(* What a thread has loaded and is about to store is still there.          *)
Loaded == \A p \in Proc : /\ pc[p] = "rstore" => reg[p] = u.read
                          /\ pc[p] = "wstore" => reg[p] = u.write

IInv == TypeOK /\ Counters /\ Tickets /\ Turns /\ Loaded

-----------------------------------------------------------------------------
(* The circle of the values of a byte *)
LEMMA IncrIsShift ==
  ASSUME NEW b \in Byte
  PROVE  Incr(b) \in Byte /\ Incr(b) = Shift(b, 1)
<1>1. Base \in Nat /\ Base > 1 /\ b \in Nat /\ b < Base
  BY TicketAssumption DEF Byte
<1>2. CASE b + 1 < Base
  BY <1>1, <1>2 DEF Incr, Byte, Shift
<1>3. CASE b + 1 = Base
  <2>1. Base % Base = 0
    BY <1>1
  <2> QED
    BY <1>1, <1>3, <2>1 DEF Incr, Byte, Shift
<1> QED
  BY <1>1, <1>2, <1>3

LEMMA Circle ==
  ASSUME NEW b \in Byte, NEW n \in Nat, NEW m \in Nat, n + m < Base
  PROVE  Shift(Shift(b, n), m) = Shift(b, n + m)
  BY TicketAssumption DEF Byte, Shift

LEMMA NoShift == ASSUME NEW b \in Byte PROVE Shift(b, 0) = b
  BY TicketAssumption DEF Byte, Shift

LEMMA OnTheCircle ==
  ASSUME NEW b \in Byte, NEW n \in Nat, n < Base
  PROVE  Shift(b, n) \in Byte /\ Dist(b, Shift(b, n)) = n
  BY TicketAssumption DEF Byte, Shift, Dist

LEMMA Distance ==
  ASSUME NEW b \in Byte, NEW c \in Byte
  PROVE  /\ Dist(b, c) \in Nat
         /\ Dist(b, c) < Base
         /\ c = Shift(b, Dist(b, c))
         /\ Dist(b, c) = 0 <=> b = c
  BY TicketAssumption DEF Byte, Shift, Dist

(* One place on: everything that is not there is one nearer.               *)
LEMMA Nearer ==
  ASSUME NEW b \in Byte, NEW c \in Byte, b # c
  PROVE  Dist(Incr(b), c) = Dist(b, c) - 1
  BY IncrIsShift, TicketAssumption DEF Byte, Shift, Dist

-----------------------------------------------------------------------------
(* How many threads there are in the queue and reading *)
LEMMA Counts ==
  /\ IsFiniteSet(InQueue) /\ IsFiniteSet(Reading)
  /\ Queued \in Nat /\ Readers \in Nat
  /\ Queued = 0 <=> InQueue = {}
  /\ Readers = 0 <=> Reading = {}
  /\ Queued + Readers < Base
  /\ \A p \in Proc : pc[p] \notin Queueing \cup {"reading"} => Queued + Readers + 1 < Base
<1>1. IsFiniteSet(Proc) /\ Cardinality(Proc) \in Nat /\ Cardinality(Proc) < Base /\ Base \in Nat
  BY TicketAssumption, FS_CardinalityType
<1>2. InQueue \in SUBSET Proc /\ Reading \in SUBSET Proc
  BY DEF InQueue, Reading
<1>3. IsFiniteSet(InQueue) /\ IsFiniteSet(Reading)
  BY <1>1, <1>2, FS_Subset
<1>4. Queued \in Nat /\ Readers \in Nat
  BY <1>3, FS_CardinalityType DEF Queued, Readers
<1>5. (Queued = 0 <=> InQueue = {}) /\ (Readers = 0 <=> Reading = {})
  BY <1>3, FS_EmptySet DEF Queued, Readers
<1> DEFINE Out == InQueue \cup Reading
<1>6. InQueue \cap Reading = {}
  BY DEF InQueue, Reading, Queueing, Passing, Exclusive
<1>7. IsFiniteSet(Out) /\ Cardinality(Out) = Queued + Readers
  <2>1. /\ IsFiniteSet(InQueue \cup Reading)
        /\ Cardinality(InQueue \cup Reading)
             = Cardinality(InQueue) + Cardinality(Reading) - Cardinality(InQueue \cap Reading)
    BY <1>3, FS_Union
  <2>2. Cardinality(InQueue \cap Reading) = 0
    BY <1>6, FS_EmptySet
  <2> QED
    BY <1>4, <2>1, <2>2 DEF Queued, Readers
<1>8. Out \in SUBSET Proc
  BY <1>2
<1>9. Queued + Readers < Base
  BY <1>1, <1>4, <1>7, <1>8, FS_Subset
<1>10. ASSUME NEW p \in Proc, pc[p] \notin Queueing \cup {"reading"}
       PROVE  Queued + Readers + 1 < Base
  <2>1. p \notin Out
    BY <1>10 DEF InQueue, Reading
  <2> HIDE DEF Out
  <2>2. Cardinality(Out \cup {p}) = Queued + Readers + 1
    BY <1>7, <2>1, FS_AddElement
  <2>3. Out \cup {p} \in SUBSET Proc
    BY <1>8
  <2>4. Cardinality(Out \cup {p}) <= Cardinality(Proc)
    BY <1>1, <2>3, FS_Subset
  <2> QED
    BY <1>1, <1>4, <2>2, <2>4
<1> QED
  BY <1>3, <1>4, <1>5, <1>9, <1>10

LEMMA OneInOrOut ==
  ASSUME NEW S, IsFiniteSet(S), NEW T, NEW x, NEW in \in BOOLEAN,
         T = IF in THEN S \cup {x} ELSE S \ {x}
  PROVE  Cardinality(T) = Cardinality(S) + (IF in THEN 1 ELSE 0)
                                         - (IF x \in S THEN 1 ELSE 0)
<1>1. Cardinality(S) \in Nat
  BY FS_CardinalityType
<1>2. Cardinality(S \cup {x}) = IF x \in S THEN Cardinality(S) ELSE Cardinality(S) + 1
  BY FS_AddElement
<1>3. Cardinality(S \ {x}) = IF x \in S THEN Cardinality(S) - 1 ELSE Cardinality(S)
  BY FS_RemoveElement
<1> QED
  BY <1>1, <1>2, <1>3

LEMMA Moves ==
  ASSUME NEW p \in Proc, \A q \in Proc : q # p => pc'[q] = pc[q]
  PROVE  /\ InQueue' = IF pc'[p] \in Queueing THEN InQueue \cup {p} ELSE InQueue \ {p}
         /\ Reading' = IF pc'[p] = "reading" THEN Reading \cup {p} ELSE Reading \ {p}
         /\ Queued' = Queued + (IF pc'[p] \in Queueing THEN 1 ELSE 0)
                             - (IF pc[p] \in Queueing THEN 1 ELSE 0)
         /\ Readers' = Readers + (IF pc'[p] = "reading" THEN 1 ELSE 0)
                               - (IF pc[p] = "reading" THEN 1 ELSE 0)
<1> DEFINE to == pc'[p]
<1>2. InQueue' = IF to \in Queueing THEN InQueue \cup {p} ELSE InQueue \ {p}
  BY DEF InQueue
<1>3. Reading' = IF to = "reading" THEN Reading \cup {p} ELSE Reading \ {p}
  BY DEF Reading
<1>4. /\ IsFiniteSet(InQueue) /\ IsFiniteSet(Reading)
      /\ Queued \in Nat /\ Readers \in Nat
  BY Counts
<1>5. (p \in InQueue <=> pc[p] \in Queueing) /\ (p \in Reading <=> pc[p] = "reading")
  BY DEF InQueue, Reading
<1>6. Queued' = Queued + (IF to \in Queueing THEN 1 ELSE 0) - (IF pc[p] \in Queueing THEN 1 ELSE 0)
  <2> DEFINE in == to \in Queueing
  <2>1. InQueue' = IF in THEN InQueue \cup {p} ELSE InQueue \ {p}
    BY <1>2
  <2>2. in \in BOOLEAN
    OBVIOUS
  <2> HIDE DEF in
  <2>3. Cardinality(InQueue') = Cardinality(InQueue) + (IF in THEN 1 ELSE 0)
                                - (IF p \in InQueue THEN 1 ELSE 0)
    BY <1>4, <2>1, <2>2, OneInOrOut
  <2> QED
    BY <1>5, <2>3 DEF Queued, in
<1>7. Readers' = Readers + (IF to = "reading" THEN 1 ELSE 0) - (IF pc[p] = "reading" THEN 1 ELSE 0)
  <2> DEFINE in == to = "reading"
  <2>1. Reading' = IF in THEN Reading \cup {p} ELSE Reading \ {p}
    BY <1>3
  <2>2. in \in BOOLEAN
    OBVIOUS
  <2> HIDE DEF in
  <2>3. Cardinality(Reading') = Cardinality(Reading) + (IF in THEN 1 ELSE 0)
                                - (IF p \in Reading THEN 1 ELSE 0)
    BY <1>4, <2>1, <2>2, OneInOrOut
  <2> QED
    BY <1>5, <2>3 DEF Readers, in
<1> QED
  BY <1>2, <1>3, <1>6, <1>7

-----------------------------------------------------------------------------
(* What the counters tell of the threads *)
LEMMA CountersTell ==
  ASSUME TypeOK, Counters
  PROVE  /\ u.write \in Byte /\ u.read \in Byte /\ u.users \in Byte /\ u.top \in Byte
         /\ Dist(u.write, u.read) = Readers
         /\ Dist(u.read, u.users) = Queued
         /\ u.write = u.read <=> Reading = {}
         /\ u.read = u.users <=> InQueue = {}
         /\ u.write = u.users <=> Reading = {} /\ InQueue = {}
<1>1. /\ u.write \in Byte /\ u.read \in Byte /\ u.users \in Byte /\ u.top \in Byte
      /\ u.read = Shift(u.write, Readers)
      /\ u.users = Shift(u.read, Queued)
  BY DEF TypeOK, Counters
<1>2. /\ Readers \in Nat /\ Queued \in Nat /\ Readers + Queued < Base
      /\ Queued = 0 <=> InQueue = {}
      /\ Readers = 0 <=> Reading = {}
  BY Counts
<1>3. Readers < Base /\ Queued < Base /\ Base \in Nat
  BY <1>2, TicketAssumption
<1>4. Dist(u.write, u.read) = Readers
  BY <1>1, <1>2, <1>3, OnTheCircle
<1>5. Dist(u.read, u.users) = Queued
  BY <1>1, <1>2, <1>3, OnTheCircle
<1>6. u.users = Shift(u.write, Readers + Queued)
  BY <1>1, <1>2, Circle
<1>7. Dist(u.write, u.users) = Readers + Queued
  <2> DEFINE n == Readers + Queued
  <2>1. n \in Nat /\ n < Base /\ u.users = Shift(u.write, n)
    BY <1>2, <1>6, TicketAssumption
  <2> HIDE DEF n
  <2>2. Dist(u.write, u.users) = n
    BY <1>1, <2>1, OnTheCircle
  <2> QED
    BY <2>2 DEF n
<1>8. /\ u.write = u.read <=> Readers = 0
      /\ u.read = u.users <=> Queued = 0
      /\ u.write = u.users <=> Readers + Queued = 0
  BY <1>1, <1>4, <1>5, <1>7, Distance
<1> QED
  BY <1>1, <1>2, <1>4, <1>5, <1>8

(* A thread of the queue is as many places from write as there are readers *)
(* inside and tickets before its own.                                      *)
LEMMA PlaceInQueue ==
  ASSUME TypeOK, Counters, Tickets, NEW p \in InQueue
  PROVE  /\ me[p] \in Byte
         /\ Dist(u.read, me[p]) \in Nat
         /\ Dist(u.write, me[p]) = Readers + Dist(u.read, me[p])
         /\ Readers + Dist(u.read, me[p]) < Base
         /\ me[p] # u.users
<1> DEFINE d == Dist(u.read, me[p])
<1>1. me[p] \in Byte
  BY DEF TypeOK, InQueue
<1>2. /\ u.write \in Byte /\ u.read \in Byte /\ u.users \in Byte
      /\ Dist(u.read, u.users) = Queued
  BY CountersTell
<1>3. d \in Nat /\ d < Queued /\ me[p] = Shift(u.read, d)
  BY <1>1, <1>2, Distance DEF Tickets
<1>4. Readers \in Nat /\ Queued \in Nat /\ Readers + Queued < Base /\ Base \in Nat
  BY Counts, TicketAssumption
<1>5. me[p] # u.users
  BY <1>2, <1>3
<1> HIDE DEF d
<1>6. me[p] = Shift(u.write, Readers + d)
  BY <1>2, <1>3, <1>4, Circle DEF Counters
<1> DEFINE n == Readers + d
<1>7. n \in Nat /\ n < Base /\ me[p] = Shift(u.write, n)
  BY <1>3, <1>4, <1>6
<1> HIDE DEF n
<1>8. Dist(u.write, me[p]) = n
  BY <1>2, <1>7, OnTheCircle
<1> QED
  BY <1>1, <1>3, <1>5, <1>7, <1>8 DEF d, n

(* Who is at write's turn: nobody reads, and it is read's turn as well.    *)
LEMMA WriterTurn ==
  ASSUME TypeOK, Counters, Tickets, NEW p \in InQueue, me[p] = u.write
  PROVE  Reading = {} /\ u.read = u.write
<1>1. Dist(u.write, me[p]) = 0 /\ Dist(u.write, me[p]) = Readers + Dist(u.read, me[p])
      /\ Dist(u.read, me[p]) \in Nat
  BY PlaceInQueue, CountersTell, Distance
<1>2. Readers = 0
  BY <1>1, Counts
<1> QED
  BY <1>2, Counts, CountersTell

-----------------------------------------------------------------------------
LEMMA InitHolds == Init => IInv
<1> SUFFICES ASSUME Init PROVE IInv
  OBVIOUS
<1>1. InQueue = {} /\ Reading = {}
  BY DEF Init, InQueue, Reading, Queueing, Passing, Exclusive
<1>2. Queued = 0 /\ Readers = 0
  BY <1>1, Counts
<1>3. 0 \in Byte /\ Shift(0, 0) = 0
  BY TicketAssumption DEF Byte, Shift
<1>4. TypeOK
  BY <1>3 DEF Init, Word, TypeOK
<1>5. Counters
  BY <1>2, <1>3 DEF Init, Word, Counters
<1>6. Tickets /\ Turns /\ Loaded
  BY <1>1 DEF Init, Tickets, Turns, Loaded, Passing, Exclusive
<1> QED
  BY <1>4, <1>5, <1>6 DEF IInv

-----------------------------------------------------------------------------
(* What the steps of the lock do to the counters and the queue *)

(* The threads but p keep what they have loaded *)
OthersKeep(p) == \A q \in Proc : q # p => me'[q] = me[q] /\ reg'[q] = reg[q]

(* A thread draws a ticket, or a writer takes one by compare-and-swap *)
LEMMA JoinHolds ==
  ASSUME IInv, TypeOK', NEW p \in Proc, pc[p] \notin Queueing \cup {"reading"},
         NEW to \in {"wwait", "rwait", "writing"}, pc' = [pc EXCEPT ![p] = to],
         u'.write = u.write, u'.read = u.read, u'.users = Incr(u.users),
         me'[p] = u.users, OthersKeep(p),
         to = "writing" => u.write = u.users
  PROVE  IInv'
<1>0. TypeOK /\ Counters /\ Tickets /\ Turns /\ Loaded
  BY DEF IInv
<1>1. /\ to \in Queueing /\ to # "reading" /\ to \notin Passing /\ to # "wstore"
      /\ pc'[p] = to /\ \A q \in Proc : q # p => pc'[q] = pc[q]
  BY <1>0 DEF TypeOK, Queueing, Passing, Exclusive
<1>2. /\ InQueue' = InQueue \cup {p} /\ p \notin InQueue
      /\ Queued' = Queued + 1 /\ Readers' = Readers
  <2>1. /\ InQueue' = IF pc'[p] \in Queueing THEN InQueue \cup {p} ELSE InQueue \ {p}
        /\ Queued' = Queued + (IF pc'[p] \in Queueing THEN 1 ELSE 0)
                            - (IF pc[p] \in Queueing THEN 1 ELSE 0)
        /\ Readers' = Readers + (IF pc'[p] = "reading" THEN 1 ELSE 0)
                              - (IF pc[p] = "reading" THEN 1 ELSE 0)
    BY <1>1, Moves
  <2>2. (p \in InQueue <=> pc[p] \in Queueing) /\ Queued \in Nat /\ Readers \in Nat
    BY Counts DEF InQueue
  <2> QED
    BY <1>1, <2>1, <2>2
<1>3. /\ u.write \in Byte /\ u.read \in Byte /\ u.users \in Byte
      /\ Dist(u.read, u.users) = Queued
      /\ u.write = u.users => u.read = u.users
  BY <1>0, CountersTell
<1>4. Queued \in Nat /\ Queued + 1 < Base
  BY Counts, TicketAssumption
<1>5. Counters'
  <2>1. Incr(u.users) = Shift(Shift(u.read, Queued), 1)
    BY <1>0, <1>3, IncrIsShift DEF Counters
  <2>2. Incr(u.users) = Shift(u.read, Queued + 1)
    BY <1>3, <1>4, <2>1, Circle
  <2> QED
    BY <1>0, <1>2, <2>2 DEF Counters
<1>6. ASSUME NEW q \in InQueue' PROVE q = p \/ (q \in InQueue /\ me'[q] = me[q])
  BY <1>2, <1>6 DEF OthersKeep, InQueue
<1>7. Tickets'
  <2>1. ASSUME NEW q \in InQueue' PROVE Dist(u'.read, me'[q]) < Queued'
    BY <1>0, <1>2, <1>3, <1>4, <1>6, PlaceInQueue DEF Tickets
  <2>2. ASSUME NEW q \in InQueue', NEW o \in InQueue', me'[q] = me'[o] PROVE q = o
    BY <1>0, <1>6, <2>2, PlaceInQueue DEF Tickets
  <2> QED
    BY <1>0, <2>1, <2>2 DEF Tickets
<1>8. Turns'
  BY <1>0, <1>1, <1>3 DEF Turns, OthersKeep, Exclusive
<1>9. Loaded'
  BY <1>0, <1>1 DEF Loaded, OthersKeep, Passing
<1> QED
  BY <1>5, <1>7, <1>8, <1>9 DEF IInv

(* A step that changes neither the word nor who is in the queue or reads *)
LEMMA StayHolds ==
  ASSUME IInv, TypeOK', NEW p \in Proc, NEW to, pc' = [pc EXCEPT ![p] = to],
         pc[p] \in Queueing <=> to \in Queueing,
         pc[p] # "reading" /\ to # "reading",
         u' = u, OthersKeep(p),
         to \in Queueing => me'[p] = me[p],
         to \in Passing => me[p] = u.read,
         to \in Exclusive => me[p] = u.read /\ me[p] = u.write,
         to = "rstore" => reg'[p] = u.read,
         to = "wstore" => reg'[p] = u.write
  PROVE  IInv'
<1>0. TypeOK /\ Counters /\ Tickets /\ Turns /\ Loaded
  BY DEF IInv
<1>1. pc'[p] = to /\ \A q \in Proc : q # p => pc'[q] = pc[q]
  BY <1>0 DEF TypeOK
<1>2. /\ InQueue' = InQueue /\ Queued \in Nat /\ Readers \in Nat
      /\ Queued' = Queued /\ Readers' = Readers
  <2>1. /\ InQueue' = IF pc'[p] \in Queueing THEN InQueue \cup {p} ELSE InQueue \ {p}
        /\ Queued' = Queued + (IF pc'[p] \in Queueing THEN 1 ELSE 0)
                            - (IF pc[p] \in Queueing THEN 1 ELSE 0)
        /\ Readers' = Readers + (IF pc'[p] = "reading" THEN 1 ELSE 0)
                              - (IF pc[p] = "reading" THEN 1 ELSE 0)
    BY <1>1, Moves
  <2>2. (p \in InQueue <=> pc[p] \in Queueing) /\ Queued \in Nat /\ Readers \in Nat
    BY Counts DEF InQueue
  <2> QED
    BY <1>1, <2>1, <2>2
<1>3. Counters'
  BY <1>0, <1>2 DEF Counters
<1>4. \A q \in InQueue : me'[q] = me[q]
  BY DEF InQueue, OthersKeep
<1>5. Tickets'
  BY <1>0, <1>2, <1>4 DEF Tickets
<1>6. Turns'
  BY <1>0, <1>1 DEF Turns, OthersKeep, Queueing
<1>7. Loaded'
  BY <1>0, <1>1 DEF Loaded, OthersKeep
<1> QED
  BY <1>3, <1>5, <1>6, <1>7 DEF IInv

(* The thread whose turn it is leaves the queue: a reader that passes the  *)
(* turn on, or a writer that unlocks.                                      *)
LEMMA LeaveQueueHolds ==
  ASSUME IInv, TypeOK', NEW p \in Proc, pc[p] \in {"rstore", "wstore"},
         pc' = [pc EXCEPT ![p] = IF pc[p] = "rstore" THEN "reading" ELSE "idle"],
         u'.read = Incr(u.read), u'.users = u.users,
         u'.write = IF pc[p] = "rstore" THEN u.write ELSE Incr(u.write),
         OthersKeep(p)
  PROVE  IInv'
<1>0. TypeOK /\ Counters /\ Tickets /\ Turns /\ Loaded
  BY DEF IInv
<1> DEFINE to == IF pc[p] = "rstore" THEN "reading" ELSE "idle"
<1>1. /\ to \notin Queueing /\ pc[p] \in Queueing /\ pc[p] # "reading"
      /\ pc'[p] = to /\ \A q \in Proc : q # p => pc'[q] = pc[q]
  BY <1>0 DEF TypeOK, Queueing, Passing, Exclusive
<1>2. InQueue' = InQueue \ {p} /\ p \in InQueue /\ Queued' = Queued - 1
      /\ Readers' = Readers + IF pc[p] = "rstore" THEN 1 ELSE 0
  <2>1. /\ InQueue' = IF pc'[p] \in Queueing THEN InQueue \cup {p} ELSE InQueue \ {p}
        /\ Queued' = Queued + (IF pc'[p] \in Queueing THEN 1 ELSE 0)
                            - (IF pc[p] \in Queueing THEN 1 ELSE 0)
        /\ Readers' = Readers + (IF pc'[p] = "reading" THEN 1 ELSE 0)
                              - (IF pc[p] = "reading" THEN 1 ELSE 0)
    BY <1>1, Moves
  <2>2. (p \in InQueue <=> pc[p] \in Queueing) /\ Queued \in Nat /\ Readers \in Nat
    BY Counts DEF InQueue
  <2> QED
    BY <1>1, <2>1, <2>2
<1>3. me[p] = u.read /\ (pc[p] = "wstore" => me[p] = u.write)
  BY <1>0 DEF Turns, Passing, Exclusive
<1>4. /\ u.write \in Byte /\ u.read \in Byte /\ u.users \in Byte
      /\ Dist(u.read, u.users) = Queued
      /\ u.write = u.read <=> Readers = 0
      /\ Incr(u.read) \in Byte /\ Incr(u.read) = Shift(u.read, 1)
      /\ Incr(u.write) \in Byte
  BY <1>0, CountersTell, Counts, IncrIsShift
<1>5. /\ Queued \in Nat /\ Readers \in Nat /\ Queued + Readers < Base
      /\ Queued > 0 /\ Base \in Nat
  BY <1>2, Counts, TicketAssumption
<1>6. u.users = Shift(Incr(u.read), Queued - 1)
  <2>1. Queued - 1 \in Nat /\ 1 + (Queued - 1) < Base /\ 1 + (Queued - 1) = Queued
    BY <1>5
  <2>2. Shift(Shift(u.read, 1), Queued - 1) = Shift(u.read, 1 + (Queued - 1))
    BY <1>4, <2>1, Circle
  <2>3. Shift(u.read, Queued) = u.users
    BY <1>0 DEF Counters
  <2> QED
    BY <1>4, <2>1, <2>2, <2>3
<1>7. u'.read = Shift(u'.write, Readers')
  <2>1. CASE pc[p] = "rstore"
    <3>1. Shift(Shift(u.write, Readers), 1) = Shift(u.write, Readers + 1)
      BY <1>4, <1>5, Circle
    <3> QED
      BY <1>0, <1>2, <1>4, <2>1, <3>1 DEF Counters
  <2>2. CASE pc[p] = "wstore"
    <3>1. Readers' = 0 /\ u'.write = u'.read
      BY <1>2, <1>3, <1>4, <2>2
    <3> QED
      BY <1>4, <3>1, NoShift
  <2> QED
    BY <2>1, <2>2
<1>8. Counters'
  BY <1>0, <1>2, <1>6, <1>7 DEF Counters
<1>9. ASSUME NEW q \in InQueue'
      PROVE  q \in InQueue /\ me'[q] = me[q] /\ me[q] # u.read /\ me[q] \in Byte
  <2>1. q \in InQueue /\ q # p /\ me[q] \in Byte
    BY <1>0, <1>2, <1>9 DEF InQueue, TypeOK
  <2> QED
    BY <1>0, <1>2, <1>3, <2>1 DEF OthersKeep, Tickets, InQueue
<1>10. Tickets'
  <2>1. ASSUME NEW q \in InQueue' PROVE Dist(u'.read, me'[q]) < Queued'
    <3>1. Dist(Incr(u.read), me[q]) = Dist(u.read, me[q]) - 1
      BY <1>4, <1>9, Nearer
    <3>2. Dist(u.read, me[q]) < Queued /\ Dist(u.read, me[q]) \in Nat
      BY <1>0, <1>9, PlaceInQueue DEF Tickets
    <3> QED
      BY <1>2, <1>5, <1>9, <3>1, <3>2
  <2>2. ASSUME NEW q \in InQueue', NEW o \in InQueue', me'[q] = me'[o] PROVE q = o
    BY <1>0, <1>9, <2>2 DEF Tickets
  <2> QED
    BY <1>0, <2>1, <2>2 DEF Tickets
<1>11. \A q \in Proc : pc'[q] \notin Passing \cup Exclusive
  <2> SUFFICES ASSUME NEW q \in Proc, pc'[q] \in Passing \cup Exclusive PROVE FALSE
    OBVIOUS
  <2>1. q \in InQueue'
    BY DEF InQueue, Queueing
  <2>2. q # p /\ pc[q] \in Passing \cup Exclusive
    BY <1>1 DEF Passing, Exclusive
  <2> QED
    BY <1>0, <1>9, <2>1, <2>2 DEF Turns
<1>12. Turns' /\ Loaded'
  BY <1>0, <1>11 DEF Turns, Loaded, Passing, Exclusive
<1> QED
  BY <1>8, <1>10, <1>12 DEF IInv

(* A reader leaves: write is one nearer to read *)
LEMMA RUnlockHolds ==
  ASSUME IInv, TypeOK', NEW p \in Proc, pc[p] = "reading", pc' = [pc EXCEPT ![p] = "idle"],
         u'.read = u.read, u'.users = u.users, u'.write = Incr(u.write), OthersKeep(p)
  PROVE  IInv'
<1>0. TypeOK /\ Counters /\ Tickets /\ Turns /\ Loaded
  BY DEF IInv
<1>1. /\ "idle" \notin Queueing /\ pc[p] \notin Queueing
      /\ pc'[p] = "idle" /\ \A q \in Proc : q # p => pc'[q] = pc[q]
  BY <1>0 DEF TypeOK, Queueing, Passing, Exclusive
<1>2. InQueue' = InQueue /\ p \notin InQueue
      /\ Queued' = Queued /\ Readers' = Readers - 1
  <2>1. /\ InQueue' = IF pc'[p] \in Queueing THEN InQueue \cup {p} ELSE InQueue \ {p}
        /\ Queued' = Queued + (IF pc'[p] \in Queueing THEN 1 ELSE 0)
                            - (IF pc[p] \in Queueing THEN 1 ELSE 0)
        /\ Readers' = Readers + (IF pc'[p] = "reading" THEN 1 ELSE 0)
                              - (IF pc[p] = "reading" THEN 1 ELSE 0)
    BY <1>1, Moves
  <2>2. (p \in InQueue <=> pc[p] \in Queueing) /\ Queued \in Nat /\ Readers \in Nat
    BY Counts DEF InQueue
  <2> QED
    BY <1>1, <2>1, <2>2
<1>3. p \in Reading
  BY DEF Reading
<1>4. /\ u.write \in Byte /\ u.read \in Byte
      /\ u.write # u.read
      /\ Incr(u.write) \in Byte /\ Incr(u.write) = Shift(u.write, 1)
  BY <1>0, <1>3, CountersTell, IncrIsShift
<1>5. /\ Queued \in Nat /\ Readers \in Nat /\ Queued + Readers < Base
      /\ Readers > 0 /\ Base \in Nat
  BY <1>3, Counts, TicketAssumption
<1>6. u.read = Shift(Incr(u.write), Readers - 1)
  <2>1. Readers - 1 \in Nat /\ 1 + (Readers - 1) < Base /\ 1 + (Readers - 1) = Readers
    BY <1>5
  <2>2. Shift(Shift(u.write, 1), Readers - 1) = Shift(u.write, 1 + (Readers - 1))
    BY <1>4, <2>1, Circle
  <2>3. Shift(u.write, Readers) = u.read
    BY <1>0 DEF Counters
  <2> QED
    BY <1>4, <2>1, <2>2, <2>3
<1>7. Counters'
  BY <1>0, <1>2, <1>6 DEF Counters
<1>8. Tickets'
  BY <1>0, <1>2 DEF Tickets, OthersKeep, InQueue
<1>9. Turns'
  BY <1>0, <1>1, <1>4 DEF Turns, OthersKeep, Passing, Exclusive
<1>10. Loaded'
  <2>1. \A q \in Proc : pc[q] # "wstore"
    BY <1>0, <1>4 DEF Turns, Exclusive
  <2> QED
    BY <1>0, <1>1, <2>1 DEF Loaded, OthersKeep
<1> QED
  BY <1>7, <1>8, <1>9, <1>10 DEF IInv

(* A reader takes a ticket and passes the turn on in one step *)
LEMMA RTryHolds ==
  ASSUME IInv, TypeOK', NEW p \in Proc, pc[p] = "rtrycas",
         pc' = [pc EXCEPT ![p] = "reading"], u.read = u.users,
         u'.read = Incr(u.read), u'.users = Incr(u.users), u'.write = u.write, OthersKeep(p)
  PROVE  IInv'
<1>0. TypeOK /\ Counters /\ Tickets /\ Turns /\ Loaded
  BY DEF IInv
<1>1. /\ "reading" \notin Queueing /\ pc[p] \notin Queueing \cup {"reading"}
      /\ pc'[p] = "reading" /\ \A q \in Proc : q # p => pc'[q] = pc[q]
  BY <1>0 DEF TypeOK, Queueing, Passing, Exclusive
<1>2. /\ InQueue = {} /\ Queued = 0 /\ Readers \in Nat
      /\ Readers + 1 < Base
  BY <1>0, <1>1, CountersTell, Counts
<1>3. InQueue' = {} /\ Queued' = 0 /\ Readers' = Readers + 1
  BY <1>1, <1>2, Moves
<1>4. /\ u.write \in Byte /\ u.read \in Byte
      /\ Incr(u.read) \in Byte /\ Incr(u.read) = Shift(u.read, 1)
  BY <1>0, CountersTell, IncrIsShift
<1>5. Shift(Shift(u.write, Readers), 1) = Shift(u.write, Readers + 1)
  BY <1>2, <1>4, Circle
<1>6. Counters'
  <2>1. u'.users = Shift(u'.read, 0)
    BY <1>4, NoShift
  <2> QED
    BY <1>0, <1>3, <1>4, <1>5, <2>1 DEF Counters
<1>7. \A q \in Proc : pc'[q] \notin Queueing
  BY <1>3 DEF InQueue
<1>8. Tickets' /\ Turns' /\ Loaded'
  BY <1>3, <1>7 DEF Tickets, Turns, Loaded, Queueing, Passing, Exclusive
<1> QED
  BY <1>6, <1>8 DEF IInv

-----------------------------------------------------------------------------
(* The steps of a thread *)

(* The step of one thread moves that thread, from one place to another,    *)
(* and leaves what the others have loaded.                                 *)
LEMMA OneThreadMoves ==
  ASSUME TypeOK, NEW p \in Proc, NEW from, NEW to, Goto(p, from, to)
  PROVE  /\ pc[p] = from /\ pc'[p] = to
         /\ pc' = [pc EXCEPT ![p] = to]
         /\ \A q \in Proc : q # p => pc'[q] = pc[q]
  BY DEF TypeOK, Goto

LEMMA DrawHolds ==
  ASSUME IInv, NEW p \in Proc, WLockDraw(p) \/ RLockDraw(p)
  PROVE  IInv'
<1>0. TypeOK /\ Counters
  BY DEF IInv
<1>1. /\ u.users \in Byte /\ Incr(u.users) \in Byte /\ Incr(u.top) \in Byte
  BY <1>0, CountersTell, IncrIsShift
<1>2. PICK to \in {"wwait", "rwait"} : Goto(p, "idle", to) /\ Draw(p)
  BY DEF WLockDraw, RLockDraw
<1>3. TypeOK'
  <2>1. u' \in [write : Byte, read : Byte, users : Byte, top : Byte]
    BY <1>0, <1>1, <1>2 DEF TypeOK, Draw
  <2>2. me' \in [Proc -> Byte] /\ reg' \in [Proc -> Byte]
    BY <1>0, <1>1, <1>2 DEF TypeOK, Draw
  <2>3. pc' \in [Proc -> {"idle", "reading"} \cup Queueing \cup Trying]
    BY <1>0, <1>2 DEF TypeOK, Goto, Queueing
  <2> QED
    BY <2>1, <2>2, <2>3 DEF TypeOK
<1>4. pc[p] = "idle" /\ pc' = [pc EXCEPT ![p] = to]
  BY <1>0, <1>2, OneThreadMoves
<1>5. u'.write = u.write /\ u'.read = u.read /\ u'.users = Incr(u.users)
  BY <1>0, <1>2 DEF Draw, TypeOK
<1>6. me'[p] = u.users /\ OthersKeep(p)
  BY <1>0, <1>2 DEF Draw, TypeOK, OthersKeep
<1>7. pc[p] \notin Queueing \cup {"reading"}
  BY <1>4 DEF Queueing, Passing, Exclusive
<1> QED
  BY <1>2, <1>3, <1>4, <1>5, <1>6, <1>7, JoinHolds

(* The steps that leave the word as it is, and the thread in the queue or  *)
(* out of it                                                               *)
LEMMA EnterHolds ==
  ASSUME IInv, NEW p \in Proc, WLockEnter(p) \/ RLockEnter(p)
  PROVE  IInv'
<1>0. TypeOK /\ Counters /\ Tickets
  BY DEF IInv
<1>1. u' = u /\ me' = me /\ reg' = reg
  BY DEF WLockEnter, RLockEnter
<1>2. CASE WLockEnter(p)
  <2>1. /\ pc[p] = "wwait" /\ pc' = [pc EXCEPT ![p] = "writing"] /\ me[p] = u.write
    BY <1>0, <1>2, OneThreadMoves DEF WLockEnter
  <2>2. p \in InQueue
    BY <2>1 DEF InQueue, Queueing
  <2>3. me[p] = u.read
    BY <1>0, <2>1, <2>2, WriterTurn
  <2>4. TypeOK'
    BY <1>0, <1>1, <2>1 DEF TypeOK, Queueing, Exclusive
  <2> QED
    BY <1>1, <2>1, <2>3, <2>4, StayHolds DEF OthersKeep, Queueing, Passing, Exclusive
<1>3. CASE RLockEnter(p)
  <2>1. /\ pc[p] = "rwait" /\ pc' = [pc EXCEPT ![p] = "rpass"] /\ me[p] = u.read
    BY <1>0, <1>3, OneThreadMoves DEF RLockEnter
  <2>2. TypeOK'
    BY <1>0, <1>1, <2>1 DEF TypeOK, Queueing, Passing
  <2> QED
    BY <1>1, <2>1, <2>2, StayHolds DEF OthersKeep, Queueing, Passing, Exclusive
<1> QED
  BY <1>2, <1>3

LEMMA LoadHolds ==
  ASSUME IInv, NEW p \in Proc, WUnlockLoad(p) \/ RLockLoad(p)
  PROVE  IInv'
<1>0. TypeOK /\ Counters /\ Turns
  BY DEF IInv
<1>1. u.read \in Byte /\ u.write \in Byte
  BY <1>0, CountersTell
<1>2. CASE WUnlockLoad(p)
  <2>1. pc[p] = "writing" /\ pc' = [pc EXCEPT ![p] = "wstore"]
    BY <1>0, <1>2, OneThreadMoves DEF WUnlockLoad
  <2>2. me[p] = u.read /\ me[p] = u.write
    BY <1>0, <2>1 DEF Turns, Exclusive
  <2>3. /\ u' = u /\ me'[p] = me[p] /\ reg'[p] = u.write /\ OthersKeep(p)
        /\ me' \in [Proc -> Byte] /\ reg' \in [Proc -> Byte]
    BY <1>0, <1>1, <1>2, <2>2 DEF WUnlockLoad, TypeOK, OthersKeep
  <2>4. TypeOK'
    BY <1>0, <2>1, <2>3 DEF TypeOK, Queueing, Exclusive
  <2> QED
    BY <2>1, <2>2, <2>3, <2>4, StayHolds DEF Queueing, Passing, Exclusive
<1>3. CASE RLockLoad(p)
  <2>1. pc[p] = "rpass" /\ pc' = [pc EXCEPT ![p] = "rstore"]
    BY <1>0, <1>3, OneThreadMoves DEF RLockLoad
  <2>2. me[p] = u.read
    BY <1>0, <2>1 DEF Turns, Passing
  <2>3. /\ u' = u /\ me' = me /\ reg'[p] = u.read /\ OthersKeep(p)
        /\ reg' \in [Proc -> Byte]
    BY <1>0, <1>1, <1>3 DEF RLockLoad, TypeOK, OthersKeep
  <2>4. TypeOK'
    BY <1>0, <2>1, <2>3 DEF TypeOK, Queueing, Passing
  <2> QED
    BY <2>1, <2>2, <2>3, <2>4, StayHolds DEF Queueing, Passing, Exclusive
<1> QED
  BY <1>2, <1>3

(* The steps of a trylock before its compare-and-swap, and one that fails  *)
LEMMA TryStepHolds ==
  ASSUME IInv, NEW p \in Proc, NEW from \in Trying \cup {"idle"}, NEW to \in Trying \cup {"idle"},
         Goto(p, from, to), u' = u, OthersKeep(p),
         me' \in [Proc -> Byte], reg' \in [Proc -> Byte]
  PROVE  IInv'
<1>0. TypeOK
  BY DEF IInv
<1>1. pc[p] = from /\ pc' = [pc EXCEPT ![p] = to]
  BY <1>0, OneThreadMoves
<1>2. /\ from \notin Queueing \cup {"reading"} /\ to \notin Queueing \cup {"reading"}
      /\ to \notin Passing \cup Exclusive /\ to # "rstore" /\ to # "wstore"
  BY DEF Trying, Queueing, Passing, Exclusive
<1>3. TypeOK'
  BY <1>0, <1>1 DEF TypeOK
<1> QED
  BY <1>1, <1>2, <1>3, StayHolds

LEMMA TryLoadHolds ==
  ASSUME IInv, NEW p \in Proc,
         WTryUsers(p) \/ WTryRead(p) \/ RTryUsers(p) \/ RTryWrite(p)
  PROVE  IInv'
<1>0. TypeOK /\ u.users \in Byte /\ u.read \in Byte /\ u.write \in Byte
  BY CountersTell DEF IInv
<1>1. u' = u /\ OthersKeep(p) /\ me' \in [Proc -> Byte] /\ reg' \in [Proc -> Byte]
  BY <1>0 DEF TypeOK, OthersKeep, WTryUsers, WTryRead, RTryUsers, RTryWrite
<1>2. \E from, to \in Trying \cup {"idle"} : Goto(p, from, to)
  BY DEF Trying, WTryUsers, WTryRead, RTryUsers, RTryWrite
<1> QED
  BY <1>1, <1>2, TryStepHolds

(* A compare-and-swap fails, or the word is the one it expects.            *)
LEMMA WTryCasHolds ==
  ASSUME IInv, NEW p \in Proc, WTryCas(p)
  PROVE  IInv'
<1> DEFINE fits == u = Word(me[p], reg[p], me[p], 0)
<1>0. TypeOK /\ Counters /\ 0 \in Byte /\ u.users \in Byte /\ Incr(u.users) \in Byte
  BY CountersTell, IncrIsShift, TicketAssumption DEF IInv, Byte
<1>1. /\ OthersKeep(p) /\ reg' \in [Proc -> Byte]
  BY <1>0 DEF WTryCas, Swap, TypeOK, OthersKeep
<1>2. CASE ~fits
  <2>1. Goto(p, "wtrycas", "idle") /\ u' = u /\ me' \in [Proc -> Byte]
    BY <1>0, <1>2 DEF WTryCas, Swap, TypeOK
  <2> QED
    BY <1>1, <2>1, TryStepHolds DEF Trying
<1>3. CASE fits
  <2>1. /\ Goto(p, "wtrycas", "writing") /\ me' = me
        /\ u' = Word(me[p], reg[p], Incr(me[p]), 0)
    BY <1>3 DEF WTryCas, Swap
  <2>2. /\ me[p] = u.users /\ u.write = u.users
        /\ u'.write = u.write /\ u'.read = u.read /\ u'.users = Incr(u.users)
    BY <1>3, <2>1 DEF Word
  <2>3. u' \in [write : Byte, read : Byte, users : Byte, top : Byte]
    BY <1>0, <2>1, <2>2 DEF Word, TypeOK
  <2>4. pc[p] = "wtrycas" /\ pc' = [pc EXCEPT ![p] = "writing"]
    BY <1>0, <2>1, OneThreadMoves
  <2>5. TypeOK'
    BY <1>0, <1>1, <2>1, <2>3, <2>4 DEF TypeOK, Queueing, Exclusive
  <2>6. pc[p] \notin Queueing \cup {"reading"}
    BY <2>4 DEF Queueing, Passing, Exclusive
  <2> QED
    BY <1>1, <2>1, <2>2, <2>4, <2>5, <2>6, JoinHolds
<1> QED
  BY <1>2, <1>3

LEMMA RTryCasHolds ==
  ASSUME IInv, NEW p \in Proc, RTryCas(p)
  PROVE  IInv'
<1> DEFINE fits == u = Word(reg[p], me[p], me[p], 0)
<1>0. TypeOK /\ Counters /\ 0 \in Byte /\ u.users \in Byte /\ Incr(u.users) \in Byte
  BY CountersTell, IncrIsShift, TicketAssumption DEF IInv, Byte
<1>1. /\ OthersKeep(p) /\ reg' \in [Proc -> Byte]
  BY <1>0 DEF RTryCas, Swap, TypeOK, OthersKeep
<1>2. CASE ~fits
  <2>1. Goto(p, "rtrycas", "idle") /\ u' = u /\ me' \in [Proc -> Byte]
    BY <1>0, <1>2 DEF RTryCas, Swap, TypeOK
  <2> QED
    BY <1>1, <2>1, TryStepHolds DEF Trying
<1>3. CASE fits
  <2>1. /\ Goto(p, "rtrycas", "reading") /\ me' = me
        /\ u' = Word(reg[p], Incr(me[p]), Incr(me[p]), 0)
    BY <1>3 DEF RTryCas, Swap
  <2>2. /\ me[p] = u.users /\ u.read = u.users /\ reg[p] = u.write
        /\ u'.write = u.write /\ u'.read = Incr(u.read) /\ u'.users = Incr(u.users)
    BY <1>3, <2>1 DEF Word
  <2>3. u' \in [write : Byte, read : Byte, users : Byte, top : Byte]
    BY <1>0, <2>1, <2>2 DEF Word, TypeOK
  <2>4. pc[p] = "rtrycas" /\ pc' = [pc EXCEPT ![p] = "reading"]
    BY <1>0, <2>1, OneThreadMoves
  <2>5. TypeOK'
    BY <1>0, <1>1, <2>1, <2>3, <2>4 DEF TypeOK
  <2> QED
    BY <1>1, <2>2, <2>4, <2>5, RTryHolds
<1> QED
  BY <1>2, <1>3

LEMMA UnlockHolds ==
  ASSUME IInv, NEW p \in Proc, WUnlockStore(p) \/ RLockStore(p) \/ RUnlock(p)
  PROVE  IInv'
<1>0. /\ TypeOK /\ Turns /\ Loaded
      /\ 0 \in Byte /\ Incr(u.read) \in Byte /\ Incr(u.write) \in Byte
  BY CountersTell, IncrIsShift, TicketAssumption DEF IInv, Byte
<1>1. CASE WUnlockStore(p)
  <2>1. pc[p] = "wstore" /\ pc' = [pc EXCEPT ![p] = "idle"]
    BY <1>0, <1>1, OneThreadMoves DEF WUnlockStore
  <2>2. reg[p] = u.write /\ me[p] = u.read
    BY <1>0, <2>1 DEF Loaded, Turns, Exclusive
  <2>3. u' = [u EXCEPT !.write = Incr(u.write), !.read = Incr(u.read)]
    BY <1>1, <2>2 DEF WUnlockStore
  <2>4. /\ u' \in [write : Byte, read : Byte, users : Byte, top : Byte]
        /\ u'.write = Incr(u.write) /\ u'.read = Incr(u.read) /\ u'.users = u.users
    BY <1>0, <2>3 DEF TypeOK
  <2>5. OthersKeep(p) /\ me' \in [Proc -> Byte] /\ reg' \in [Proc -> Byte]
    BY <1>0, <1>1 DEF WUnlockStore, TypeOK, OthersKeep
  <2>6. TypeOK'
    BY <1>0, <2>1, <2>4, <2>5 DEF TypeOK
  <2> QED
    BY <2>1, <2>4, <2>5, <2>6, LeaveQueueHolds
<1>2. CASE RLockStore(p)
  <2>1. pc[p] = "rstore" /\ pc' = [pc EXCEPT ![p] = "reading"]
    BY <1>0, <1>2, OneThreadMoves DEF RLockStore
  <2>2. reg[p] = u.read
    BY <1>0, <2>1 DEF Loaded
  <2>3. u' = [u EXCEPT !.read = Incr(u.read)]
    BY <1>2, <2>2 DEF RLockStore
  <2>4. /\ u' \in [write : Byte, read : Byte, users : Byte, top : Byte]
        /\ u'.write = u.write /\ u'.read = Incr(u.read) /\ u'.users = u.users
    BY <1>0, <2>3 DEF TypeOK
  <2>5. OthersKeep(p) /\ me' \in [Proc -> Byte] /\ reg' \in [Proc -> Byte]
    BY <1>0, <1>2 DEF RLockStore, TypeOK, OthersKeep
  <2>6. TypeOK'
    BY <1>0, <2>1, <2>4, <2>5 DEF TypeOK
  <2> QED
    BY <2>1, <2>4, <2>5, <2>6, LeaveQueueHolds
<1>3. CASE RUnlock(p)
  <2>1. pc[p] = "reading" /\ pc' = [pc EXCEPT ![p] = "idle"]
    BY <1>0, <1>3, OneThreadMoves DEF RUnlock
  <2>2. /\ u' \in [write : Byte, read : Byte, users : Byte, top : Byte]
        /\ u'.write = Incr(u.write) /\ u'.read = u.read /\ u'.users = u.users
    BY <1>0, <1>3 DEF TypeOK, RUnlock
  <2>3. OthersKeep(p) /\ me' \in [Proc -> Byte] /\ reg' \in [Proc -> Byte]
    BY <1>0, <1>3 DEF RUnlock, TypeOK, OthersKeep
  <2>4. TypeOK'
    BY <1>0, <2>1, <2>2, <2>3 DEF TypeOK
  <2> QED
    BY <2>1, <2>2, <2>3, <2>4, RUnlockHolds
<1> QED
  BY <1>1, <1>2, <1>3

LEMMA StepHolds == IInv /\ [Next]_vars => IInv'
<1> SUFFICES ASSUME IInv, [Next]_vars PROVE IInv'
  OBVIOUS
<1>1. ASSUME NEW p \in Proc, Call(p) PROVE IInv'
  BY <1>1, DrawHolds, TryLoadHolds DEF Call
<1>2. ASSUME NEW p \in Proc, Step(p) PROVE IInv'
  BY <1>2, EnterHolds, LoadHolds, UnlockHolds, TryLoadHolds, WTryCasHolds, RTryCasHolds DEF Step
<1>3. ASSUME NEW p \in Proc, Leave(p) PROVE IInv'
  BY <1>3, LoadHolds, UnlockHolds DEF Leave
<1>4. CASE UNCHANGED vars
  BY <1>4 DEF vars, IInv, TypeOK, Counters, Tickets, Turns, Loaded, Queued, Readers,
              InQueue, Reading
<1> QED
  BY <1>1, <1>2, <1>3, <1>4 DEF Next

LEMMA Invariant == Spec => []IInv
  BY InitHolds, StepHolds, PTL DEF Spec

-----------------------------------------------------------------------------
(* Who holds the lock *)

LEMMA Holding ==
  ASSUME IInv, NEW p \in Proc
  PROVE  /\ p \in ReadersHolding <=> pc[p] \in Passing \cup {"reading"}
         /\ p \in WritersHolding <=> pc[p] \in Exclusive
         /\ pc[p] \in Exclusive => ReadersHolding = {} /\ WritersHolding = {p}
         /\ pc[p] \in Passing => WritersHolding = {}
<1>0. TypeOK /\ Counters /\ Tickets /\ Turns
  BY DEF IInv
<1>1. /\ \A q \in Proc : q \in ReadersHolding <=> pc[q] \in Passing \cup {"reading"}
      /\ \A q \in Proc : q \in WritersHolding <=> pc[q] \in Exclusive
      /\ ReadersHolding \subseteq Proc /\ WritersHolding \subseteq Proc
  BY DEF ReadersHolding, WritersHolding, Passing, Exclusive
<1>2. ASSUME NEW q \in Proc, q # p, pc[p] \in Passing \cup Exclusive
      PROVE  pc[q] \notin Passing \cup Exclusive
  <2> SUFFICES ASSUME pc[q] \in Passing \cup Exclusive PROVE FALSE
    OBVIOUS
  <2>1. p \in InQueue /\ q \in InQueue /\ me[p] = u.read /\ me[q] = u.read
    BY <1>0, <1>2 DEF InQueue, Queueing, Turns
  <2> QED
    BY <1>0, <1>2, <2>1 DEF Tickets
<1>3. ASSUME pc[p] \in Exclusive PROVE \A q \in Proc : pc[q] # "reading"
  <2>1. u.read = u.write
    BY <1>0, <1>3 DEF Turns
  <2> QED
    BY <1>0, <2>1, CountersTell DEF Reading
<1>4. Passing \cap Exclusive = {}
  BY DEF Passing, Exclusive
<1>5. ASSUME pc[p] \in Exclusive PROVE ReadersHolding = {} /\ WritersHolding = {p}
  BY <1>1, <1>2, <1>3, <1>4, <1>5
<1>6. ASSUME pc[p] \in Passing PROVE WritersHolding = {}
  BY <1>1, <1>2, <1>4, <1>6
<1> QED
  BY <1>1, <1>5, <1>6

LEMMA NobodyHolds ==
  ASSUME IInv
  PROVE  /\ u.write = u.users => ReadersHolding = {} /\ WritersHolding = {}
         /\ u.read = u.users => WritersHolding = {}
         /\ u.write = u.users \/ u.read = u.users => Waiting = {}
<1>0. TypeOK /\ Counters
  BY DEF IInv
<1>1. /\ Waiting \cup WritersHolding \subseteq InQueue
      /\ ReadersHolding \subseteq InQueue \cup Reading
  BY DEF Waiting, WritersHolding, ReadersHolding, InQueue, Reading, Queueing, Passing, Exclusive
<1> QED
  BY <1>0, <1>1, CountersTell

(* How a step of p changes the holders *)
LEMMA HoldersMove ==
  ASSUME NEW p \in Proc, \A q \in Proc : q # p => pc'[q] = pc[q]
  PROVE  /\ ReadersHolding' = IF pc'[p] \in Passing \cup {"reading"}
                                THEN ReadersHolding \cup {p} ELSE ReadersHolding \ {p}
         /\ WritersHolding' = IF pc'[p] \in Exclusive
                                THEN WritersHolding \cup {p} ELSE WritersHolding \ {p}
<1>1. ReadersHolding' = IF pc'[p] \in Passing \cup {"reading"}
                          THEN ReadersHolding \cup {p} ELSE ReadersHolding \ {p}
  BY DEF ReadersHolding, Passing
<1>2. WritersHolding' = IF pc'[p] \in Exclusive
                          THEN WritersHolding \cup {p} ELSE WritersHolding \ {p}
  BY DEF WritersHolding, Exclusive
<1> QED
  BY <1>1, <1>2

(* A thread that enters finds nobody inside that it may not share with *)
LEMMA EnterAlone ==
  ASSUME IInv, NEW p \in Proc
  PROVE  /\ WLockEnter(p) => ReadersHolding = {} /\ WritersHolding = {}
         /\ RLockEnter(p) => WritersHolding = {}
<1>0. TypeOK /\ Counters /\ Tickets /\ Turns
  BY DEF IInv
<1>1. /\ Reading \subseteq Proc /\ InQueue \subseteq Proc
      /\ WritersHolding \subseteq InQueue /\ ReadersHolding \subseteq InQueue \cup Reading
  BY DEF WritersHolding, ReadersHolding, InQueue, Reading, Queueing, Passing, Exclusive
<1>2. ASSUME p \in InQueue, pc[p] \in {"wwait", "rwait"}, me[p] = u.read, NEW q \in InQueue
      PROVE  pc[q] \notin Passing \cup Exclusive
  <2>1. q # p => me[q] # u.read
    BY <1>0, <1>2 DEF Tickets
  <2>2. pc[p] \notin Passing \cup Exclusive
    BY <1>2 DEF Passing, Exclusive
  <2> QED
    BY <1>0, <1>1, <1>2, <2>1, <2>2 DEF Turns
<1>3. ASSUME WLockEnter(p) PROVE ReadersHolding = {} /\ WritersHolding = {}
  <2>1. pc[p] = "wwait" /\ me[p] = u.write /\ p \in InQueue
    BY <1>3 DEF WLockEnter, Goto, InQueue, Queueing
  <2>2. Reading = {} /\ me[p] = u.read
    BY <1>0, <2>1, WriterTurn
  <2>3. \A q \in InQueue : pc[q] \notin Passing \cup Exclusive
    BY <1>2, <2>1, <2>2
  <2>4. \A q \in ReadersHolding : pc[q] \in Passing \/ q \in Reading
    BY DEF ReadersHolding, Passing, Reading
  <2>5. \A q \in WritersHolding : pc[q] \in Exclusive
    BY DEF WritersHolding, Exclusive
  <2> QED
    BY <1>1, <2>2, <2>3, <2>4, <2>5
<1>4. ASSUME RLockEnter(p) PROVE WritersHolding = {}
  <2>1. pc[p] = "rwait" /\ me[p] = u.read /\ p \in InQueue
    BY <1>4 DEF RLockEnter, Goto, InQueue, Queueing
  <2>2. \A q \in InQueue : pc[q] \notin Passing \cup Exclusive
    BY <1>2, <2>1
  <2>3. \A q \in WritersHolding : pc[q] \in Exclusive
    BY DEF WritersHolding, Exclusive
  <2> QED
    BY <1>1, <2>2, <2>3
<1> QED
  BY <1>3, <1>4

-----------------------------------------------------------------------------
(* The lock implements the abstract reader-writer lock *)

(* A step within the same kind of place changes no holder *)
LEMMA SameHolders ==
  ASSUME IInv, NEW p \in Proc, NEW from, NEW to, Goto(p, from, to),
         from \in Passing \cup {"reading"} <=> to \in Passing \cup {"reading"},
         from \in Exclusive <=> to \in Exclusive
  PROVE  UNCHANGED RW!vars
<1>1. pc[p] = from /\ pc'[p] = to /\ \A q \in Proc : q # p => pc'[q] = pc[q]
  BY OneThreadMoves DEF IInv
<1>2. /\ ReadersHolding' = IF to \in Passing \cup {"reading"}
                             THEN ReadersHolding \cup {p} ELSE ReadersHolding \ {p}
      /\ WritersHolding' = IF to \in Exclusive
                             THEN WritersHolding \cup {p} ELSE WritersHolding \ {p}
  BY <1>1, HoldersMove
<1>3. (p \in ReadersHolding <=> from \in Passing \cup {"reading"})
      /\ (p \in WritersHolding <=> from \in Exclusive)
  BY <1>1, Holding
<1> QED
  BY <1>2, <1>3 DEF RW!vars

Outside == {"idle", "wwait", "rwait"} \cup Trying

LEMMA HoldersAfter ==
  ASSUME IInv, NEW p \in Proc, NEW from, NEW to, Goto(p, from, to)
  PROVE  /\ ReadersHolding' = IF to \in Passing \cup {"reading"}
                                THEN ReadersHolding \cup {p} ELSE ReadersHolding \ {p}
         /\ WritersHolding' = IF to \in Exclusive
                                THEN WritersHolding \cup {p} ELSE WritersHolding \ {p}
         /\ p \in ReadersHolding <=> from \in Passing \cup {"reading"}
         /\ p \in WritersHolding <=> from \in Exclusive
         /\ from \in Exclusive => ReadersHolding = {} /\ WritersHolding = {p}
<1>1. pc[p] = from /\ pc'[p] = to /\ \A q \in Proc : q # p => pc'[q] = pc[q]
  BY OneThreadMoves DEF IInv
<1>2. /\ ReadersHolding' = IF pc'[p] \in Passing \cup {"reading"}
                             THEN ReadersHolding \cup {p} ELSE ReadersHolding \ {p}
      /\ WritersHolding' = IF pc'[p] \in Exclusive
                             THEN WritersHolding \cup {p} ELSE WritersHolding \ {p}
  BY <1>1, HoldersMove
<1>3. /\ p \in ReadersHolding <=> from \in Passing \cup {"reading"}
      /\ p \in WritersHolding <=> from \in Exclusive
      /\ from \in Exclusive => ReadersHolding = {} /\ WritersHolding = {p}
  BY <1>1, Holding
<1> QED
  BY <1>1, <1>2, <1>3

LEMMA BeginWriteStep ==
  ASSUME IInv, NEW p \in Proc, NEW from \in Outside, Goto(p, from, "writing"),
         ReadersHolding = {}, WritersHolding = {}
  PROVE  RW!BeginWrite(p)
  BY HoldersAfter DEF RW!BeginWrite, Passing, Exclusive

LEMMA BeginReadStep ==
  ASSUME IInv, NEW p \in Proc, NEW from \in Outside, NEW to \in {"rpass", "reading"},
         Goto(p, from, to), WritersHolding = {}
  PROVE  RW!BeginRead(p)
  BY HoldersAfter DEF RW!BeginRead, Passing, Exclusive, Outside, Trying

LEMMA EndStep ==
  ASSUME IInv, NEW p \in Proc
  PROVE  /\ Goto(p, "reading", "idle") => RW!EndRead(p)
         /\ Goto(p, "wstore", "idle") => RW!EndWrite(p)
<1>1. ASSUME Goto(p, "reading", "idle") PROVE RW!EndRead(p)
  BY <1>1, HoldersAfter DEF RW!EndRead, Passing, Exclusive
<1>2. ASSUME Goto(p, "wstore", "idle") PROVE RW!EndWrite(p)
  BY <1>2, HoldersAfter DEF RW!EndWrite, Passing, Exclusive
<1> QED
  BY <1>1, <1>2

LEMMA StepRefines == IInv /\ [Next]_vars => [RW!Next]_RW!vars
<1> SUFFICES ASSUME IInv, [Next]_vars PROVE [RW!Next]_RW!vars
  OBVIOUS
<1>0. {"wwait", "rwait", "wtrycas", "rtrycas"} \subseteq Outside
  BY DEF Outside, Trying
<1>1. ASSUME NEW p \in Proc,
             WLockDraw(p) \/ RLockDraw(p) \/ WTryUsers(p) \/ WTryRead(p)
               \/ RTryUsers(p) \/ RTryWrite(p) \/ WUnlockLoad(p) \/ RLockLoad(p) \/ RLockStore(p)
      PROVE  UNCHANGED RW!vars
  <2>1. \/ \E from, to \in {"idle", "wwait", "rwait"} \cup Trying : Goto(p, from, to)
        \/ Goto(p, "writing", "wstore")
        \/ Goto(p, "rpass", "rstore")
        \/ Goto(p, "rstore", "reading")
    BY <1>1 DEF WLockDraw, RLockDraw, WTryUsers, WTryRead, RTryUsers, RTryWrite,
                WUnlockLoad, RLockLoad, RLockStore, Trying
  <2> QED
    BY <2>1, SameHolders DEF Passing, Exclusive, Trying
<1>2. ASSUME NEW p \in Proc, WLockEnter(p) PROVE RW!Next
  BY <1>0, <1>2, EnterAlone, BeginWriteStep DEF WLockEnter, RW!Next
<1>3. ASSUME NEW p \in Proc, RLockEnter(p) PROVE RW!Next
  BY <1>0, <1>3, EnterAlone, BeginReadStep DEF RLockEnter, RW!Next
<1>4. ASSUME NEW p \in Proc, WUnlockStore(p) \/ RUnlock(p) PROVE RW!Next
  BY <1>4, EndStep DEF WUnlockStore, RUnlock, RW!Next
<1>5. ASSUME NEW p \in Proc, WTryCas(p) PROVE [RW!Next]_RW!vars
  <2>1. CASE u = Word(me[p], reg[p], me[p], 0)
    <3>1. Goto(p, "wtrycas", "writing") /\ u.write = u.users
      BY <1>5, <2>1 DEF WTryCas, Swap, Word
    <3> QED
      BY <1>0, <3>1, NobodyHolds, BeginWriteStep DEF RW!Next
  <2>2. CASE u # Word(me[p], reg[p], me[p], 0)
    <3>1. Goto(p, "wtrycas", "idle")
      BY <1>5, <2>2 DEF WTryCas, Swap
    <3> QED
      BY <3>1, SameHolders DEF Passing, Exclusive
  <2> QED
    BY <2>1, <2>2
<1>6. ASSUME NEW p \in Proc, RTryCas(p) PROVE [RW!Next]_RW!vars
  <2>1. CASE u = Word(reg[p], me[p], me[p], 0)
    <3>1. Goto(p, "rtrycas", "reading") /\ u.read = u.users
      BY <1>6, <2>1 DEF RTryCas, Swap, Word
    <3> QED
      BY <1>0, <3>1, NobodyHolds, BeginReadStep DEF RW!Next
  <2>2. CASE u # Word(reg[p], me[p], me[p], 0)
    <3>1. Goto(p, "rtrycas", "idle")
      BY <1>6, <2>2 DEF RTryCas, Swap
    <3> QED
      BY <3>1, SameHolders DEF Passing, Exclusive
  <2> QED
    BY <2>1, <2>2
<1>7. CASE UNCHANGED vars
  BY <1>7 DEF vars, RW!vars, ReadersHolding, WritersHolding
<1> QED
  BY <1>1, <1>2, <1>3, <1>4, <1>5, <1>6, <1>7 DEF Next, Call, Step, Leave

(* Many readers or one writer, for any number of threads below the number  *)
(* of tickets: across every wrap of the bytes, with an increment and an    *)
(* unlock that are not atomic, and with trylocks that compare the whole    *)
(* word to bytes they have read one at a time.                             *)
THEOREM TicketLockIsRWLock == Spec => ImplementsRWLock
<1>1. Init => RW!Init
  BY DEF Init, RW!Init, ReadersHolding, WritersHolding
<1>2. IInv /\ [Next]_vars => [RW!Next]_RW!vars
  BY StepRefines
<1> QED
  BY <1>1, <1>2, Invariant, PTL DEF Spec, ImplementsRWLock, RW!Spec


-----------------------------------------------------------------------------
(* Nobody in the queue and nobody reading: the three counters are at one   *)
(* place of the circle, and no increment was lost or made twice.           *)
THEOREM CountersAgreeAtRestAlways == Spec => []CountersAgreeAtRest
<1>1. IInv => CountersAgreeAtRest
  <2> SUFFICES ASSUME IInv, ReadersHolding \cup WritersHolding \cup Waiting = {}
               PROVE  u.write = u.users /\ u.read = u.users
    BY DEF CountersAgreeAtRest
  <2>1. InQueue = {} /\ Reading = {}
    BY DEF InQueue, Reading, Queueing, Passing, Exclusive, ReadersHolding, WritersHolding, Waiting
  <2> QED
    BY <2>1, CountersTell DEF IInv
<1> QED
  BY <1>1, Invariant, PTL

(* Only a thread's own steps move it *)
LEMMA OwnStep ==
  ASSUME IInv, [Next]_vars, NEW p \in Proc, pc'[p] # pc[p]
  PROVE  Call(p) \/ Step(p) \/ Leave(p)
<1>1. PICK q \in Proc : Call(q) \/ Step(q) \/ Leave(q)
  BY DEF Next, vars
<1>2. \E from, to : Goto(q, from, to)
  BY <1>1 DEF Call, Step, Leave, WLockDraw, RLockDraw, WTryUsers, RTryUsers, WLockEnter,
              WUnlockStore, RLockEnter, RLockLoad, RLockStore, WTryRead, WTryCas, RTryWrite,
              RTryCas, Swap, WUnlockLoad, RUnlock
<1>3. q = p
  BY <1>2, OneThreadMoves DEF IInv
<1> QED
  BY <1>1, <1>3

(* What a thread at its compare-and-swap, or one that waits, may do next *)
LEMMA NextOf ==
  ASSUME IInv, [Next]_vars, NEW p \in Proc, pc'[p] # pc[p]
  PROVE  /\ pc[p] = "wtrycas" => WTryCas(p)
         /\ pc[p] = "rtrycas" => RTryCas(p)
         /\ pc[p] = "wwait" => WLockEnter(p)
         /\ pc[p] = "rwait" => RLockEnter(p)
  BY OwnStep DEF Call, Step, Leave, WLockDraw, RLockDraw, WTryUsers, RTryUsers, WLockEnter,
                 WUnlockStore, RLockEnter, RLockLoad, RLockStore, WTryRead, WTryCas, RTryWrite,
                 RTryCas, Swap, WUnlockLoad, RUnlock, Goto

(* A trylock gets in where its compare-and-swap fits, and it fits only a   *)
(* word whose users byte is read's or write's: nobody is in the queue.     *)
THEOREM TryNeverOvertakesAlways == Spec => TryNeverOvertakes
<1> DEFINE Fine(p) == /\ pc[p] \in {"wtrycas", "rtrycas"}
                      /\ pc'[p] \in {"writing", "reading"}
                      => Waiting = {}
<1>1. IInv /\ [Next]_vars => [\A p \in Proc : Fine(p)]_vars
  <2> SUFFICES ASSUME IInv, [Next]_vars, NEW p \in Proc, pc[p] \in {"wtrycas", "rtrycas"},
                      pc'[p] \in {"writing", "reading"}
               PROVE  Waiting = {}
    OBVIOUS
  <2>1. WTryCas(p) \/ RTryCas(p)
    BY NextOf
  <2>2. pc'[p] # "idle"
    OBVIOUS
  <2>3. u = Word(me[p], reg[p], me[p], 0) \/ u = Word(reg[p], me[p], me[p], 0)
    BY <2>1, <2>2, OneThreadMoves DEF WTryCas, RTryCas, Swap, IInv
  <2>4. u.write = u.users \/ u.read = u.users
    BY <2>3 DEF Word
  <2> QED
    BY <2>4, NobodyHolds
<1> QED
  BY <1>1, Invariant, PTL DEF Spec, TryNeverOvertakes

(* With nobody in the way the counters agree, so a compare-and-swap that   *)
(* does not fit was given an old byte, or meets a carry in the top byte.   *)
THEOREM TryFailsForAReasonAlways == Spec => TryFailsForAReason
<1> DEFINE Fine(p) ==
       /\ pc[p] = "wtrycas" /\ pc'[p] = "idle" /\ Rest /\ ReadersHolding = {}
            => me[p] # u.users \/ reg[p] # u.read \/ u.top # 0
       /\ pc[p] = "rtrycas" /\ pc'[p] = "idle" /\ Rest
          /\ (\A q \in ReadersHolding : pc[q] = "reading")
            => me[p] # u.users \/ reg[p] # u.write \/ u.top # 0
<1>1. IInv /\ [Next]_vars => [\A p \in Proc : Fine(p)]_vars
  <2> SUFFICES ASSUME IInv, [Next]_vars, NEW p \in Proc
               PROVE  Fine(p)
    OBVIOUS
  <2>0. TypeOK /\ Counters
    BY DEF IInv
  <2>1. u = Word(u.write, u.read, u.users, u.top)
    BY <2>0 DEF TypeOK, Word
  <2>2. ASSUME pc[p] = "wtrycas", pc'[p] = "idle", Rest, ReadersHolding = {},
               me[p] = u.users, reg[p] = u.read, u.top = 0
        PROVE  FALSE
    <3>1. InQueue = {} /\ Reading = {}
      BY <2>2 DEF Rest, InQueue, Reading, Queueing, Passing, Exclusive, ReadersHolding,
                  WritersHolding, Waiting
    <3>2. u = Word(me[p], reg[p], me[p], 0)
      BY <2>0, <2>1, <2>2, <3>1, CountersTell
    <3>3. Goto(p, "wtrycas", "writing")
      BY <2>2, <3>2, NextOf DEF WTryCas, Swap
    <3> QED
      BY <2>0, <2>2, <3>3, OneThreadMoves
  <2>3. ASSUME pc[p] = "rtrycas", pc'[p] = "idle", Rest,
               \A q \in ReadersHolding : pc[q] = "reading",
               me[p] = u.users, reg[p] = u.write, u.top = 0
        PROVE  FALSE
    <3>1. InQueue = {}
      BY <2>3 DEF Rest, InQueue, Queueing, Passing, Exclusive, ReadersHolding,
                  WritersHolding, Waiting
    <3>2. u = Word(reg[p], me[p], me[p], 0)
      BY <2>0, <2>1, <2>3, <3>1, CountersTell
    <3>3. Goto(p, "rtrycas", "reading")
      BY <2>3, <3>2, NextOf DEF RTryCas, Swap
    <3> QED
      BY <2>0, <2>3, <3>3, OneThreadMoves
  <2> QED
    BY <2>2, <2>3
<1> QED
  BY <1>1, Invariant, PTL DEF Spec, TryFailsForAReason

(* The property counts modulo Base what the proofs count on the circle *)
LEMMA AheadIsDistance ==
  ASSUME NEW b \in Byte, NEW c \in Byte
  PROVE  (c - b) % Base = Dist(b, c)
<1>1. Base \in Nat /\ Base > 1 /\ b \in Nat /\ c \in Nat /\ b < Base /\ c < Base
  BY TicketAssumption DEF Byte
<1>2. CASE b <= c
  <2> DEFINE d == c - b
  <2>1. d \in Nat /\ d < Base
    BY <1>1, <1>2
  <2> HIDE DEF d
  <2>2. d % Base = d
    BY <1>1, <2>1
  <2> QED
    BY <1>2, <2>2 DEF Dist, d
<1>3. CASE ~(b <= c)
  <2> DEFINE d == c - b
  <2>1. d \in Int /\ 0 < d + Base /\ d + Base < Base
    BY <1>1, <1>3
  <2> HIDE DEF d
  <2>2. d % Base = d + Base
    BY <1>1, <2>1
  <2> QED
    BY <1>3, <2>2 DEF Dist, d
<1> QED
  BY <1>2, <1>3

(* A writer enters with its ticket at write, where no ticket is nearer; a  *)
(* reader with its ticket at read, as far from write as there are readers  *)
(* inside, and every ticket of the queue is at least that far.             *)
THEOREM FirstComeFirstServedAlways == Spec => FirstComeFirstServed
<1>1. IInv /\ [Next]_vars
        => [\A p \in Waiting \ Waiting' : \A q \in Waiting : Ahead(q) >= Ahead(p)]_vars
  <2> SUFFICES ASSUME IInv, [Next]_vars, NEW p \in Waiting \ Waiting', NEW q \in Waiting
               PROVE  Ahead(q) >= Ahead(p)
    OBVIOUS
  <2>0. TypeOK /\ Counters /\ Tickets
    BY DEF IInv
  <2>1. p \in InQueue /\ q \in InQueue /\ p \in Proc
    BY DEF Waiting, InQueue, Queueing
  <2>2. pc'[p] # pc[p] /\ pc[p] \in {"wwait", "rwait"}
    BY DEF Waiting
  <2>3. me[p] = u.write \/ me[p] = u.read
    BY <2>1, <2>2, NextOf DEF WLockEnter, RLockEnter
  <2>4. u.write \in Byte /\ u.read \in Byte
    BY <2>0, CountersTell
  <2>5. /\ me[p] \in Byte /\ Dist(u.write, me[p]) = Readers + Dist(u.read, me[p])
        /\ Dist(u.read, me[p]) \in Nat
    BY <2>0, <2>1, PlaceInQueue
  <2>6. /\ me[q] \in Byte /\ Dist(u.write, me[q]) = Readers + Dist(u.read, me[q])
        /\ Dist(u.read, me[q]) \in Nat
    BY <2>0, <2>1, PlaceInQueue
  <2>7. Ahead(p) = Dist(u.write, me[p]) /\ Ahead(q) = Dist(u.write, me[q])
    BY <2>4, <2>5, <2>6, AheadIsDistance DEF Ahead
  <2>8. Dist(u.write, me[p]) = 0 \/ Dist(u.read, me[p]) = 0
    BY <2>3, <2>4, <2>5, Distance
  <2>9. Readers \in Nat
    BY Counts
  <2> QED
    BY <2>5, <2>6, <2>7, <2>8, <2>9
<1> QED
  BY <1>1, Invariant, PTL DEF Spec, FirstComeFirstServed
=============================================================================
