---------------------------- MODULE RWTicketLock ----------------------------
(***************************************************************************)
(* The reader-writer ticket lock of eal/lmice_eal_rwlock.h.  One 32-bit    *)
(* word u holds three 8-bit counters: users, the next ticket; read, the    *)
(* ticket whose holder may read; write, the ticket whose holder may write. *)
(* The top byte of u belongs to none of them, but a ticket is drawn by     *)
(* adding 1 << 16 to all of u, so users carries into it.                   *)
(*                                                                         *)
(* Bytes count modulo Base, 256 in the code and small here: the lock works *)
(* modulo Base, and a small Base wraps early.  Steps are the accesses to   *)
(* the shared word: each atomic instruction is one, and each plain load    *)
(* and store of a byte or of the low half word is one.                     *)
(***************************************************************************)
EXTENDS Integers, FiniteSets

CONSTANTS Proc,   \* the threads
          Triers, \* those that also call the trylocks
          Base    \* values of a byte

ASSUME TicketAssumption == /\ Base \in Nat \ {0, 1}
                           /\ IsFiniteSet(Proc)
                           /\ Cardinality(Proc) < Base
                           /\ Triers \subseteq Proc

Incr(b) == (b + 1) % Base      \* ++ on an unsigned char

VARIABLES u,     \* the word: the bytes write, read, users and the top byte
          pc,    \* where each thread is
          me,    \* the ticket of a thread that waits; users as a trylock read it
          reg    \* the other bytes a thread has loaded

vars == <<u, pc, me, reg>>

Word(write, read, users, top) ==
  [write |-> write, read |-> read, users |-> users, top |-> top]

Init == /\ u = Word(0, 0, 0, 0)
        /\ pc = [p \in Proc |-> "idle"]
        /\ me = [p \in Proc |-> 0]
        /\ reg = [p \in Proc |-> 0]

Goto(p, from, to) == /\ pc[p] = from
                     /\ pc' = [pc EXCEPT ![p] = to]

-----------------------------------------------------------------------------
(* eal_atomic_xadd(&l->u, 1 << 16): draw a ticket, the carry out of users  *)
(* goes to the top byte.                                                   *)
Draw(p) == /\ me' = [me EXCEPT ![p] = u.users]
           /\ u' = [u EXCEPT !.users = Incr(@),
                             !.top = IF u.users = Base - 1 THEN Incr(@) ELSE @]
           /\ UNCHANGED reg

(* eal_rwlock_wlock *)
WLockDraw(p) == /\ Goto(p, "idle", "wwait")
                /\ Draw(p)

(* Bug: the writer looks at the readers' counter. *)
WLockEnterOnRead(p) == /\ Goto(p, "wwait", "writing")
                       /\ me[p] = u.read
                       /\ UNCHANGED <<u, me, reg>>

WLockEnter(p) == /\ Goto(p, "wwait", "writing")
                 /\ me[p] = u.write
                 /\ UNCHANGED <<u, me, reg>>

(* eal_rwlock_wunlock: a copy of the word, incremented and stored back in  *)
(* its low half.                                                           *)
WUnlockLoad(p) == /\ Goto(p, "writing", "wstore")
                  /\ me' = [me EXCEPT ![p] = u.read]
                  /\ reg' = [reg EXCEPT ![p] = u.write]
                  /\ UNCHANGED u

(* Bug: readers are not let on. *)
WUnlockWritersOnly(p) == /\ Goto(p, "wstore", "idle")
                         /\ u' = [u EXCEPT !.write = Incr(reg[p])]
                         /\ me' = [me EXCEPT ![p] = 0]
                         /\ reg' = [reg EXCEPT ![p] = 0]

WUnlockStore(p) == /\ Goto(p, "wstore", "idle")
                   /\ u' = [u EXCEPT !.write = Incr(reg[p]), !.read = Incr(me[p])]
                   /\ me' = [me EXCEPT ![p] = 0]
                   /\ reg' = [reg EXCEPT ![p] = 0]

(* eal_rwlock_rlock: the reader whose turn it is passes the turn on, with  *)
(* an increment that is not atomic.                                        *)
RLockDraw(p) == /\ Goto(p, "idle", "rwait")
                /\ Draw(p)

(* Bug: >= for =. *)
RLockEnterEarly(p) == /\ Goto(p, "rwait", "rpass")
                      /\ me[p] >= u.read
                      /\ UNCHANGED <<u, me, reg>>

RLockEnter(p) == /\ Goto(p, "rwait", "rpass")
                 /\ me[p] = u.read
                 /\ UNCHANGED <<u, me, reg>>

RLockLoad(p) == /\ Goto(p, "rpass", "rstore")
                /\ reg' = [reg EXCEPT ![p] = u.read]
                /\ UNCHANGED <<u, me>>

RLockStore(p) == /\ Goto(p, "rstore", "reading")
                 /\ u' = [u EXCEPT !.read = Incr(reg[p])]
                 /\ reg' = [reg EXCEPT ![p] = 0]
                 /\ UNCHANGED me

(* Bug: the turn is not passed on. *)
RUnlockNothing(p) == /\ Goto(p, "reading", "idle")
                     /\ me' = [me EXCEPT ![p] = 0]
                     /\ UNCHANGED <<u, reg>>

(* eal_rwlock_runlock: eal_atomic_inc of the write byte *)
RUnlock(p) == /\ Goto(p, "reading", "idle")
              /\ u' = [u EXCEPT !.write = Incr(@)]
              /\ me' = [me EXCEPT ![p] = 0]
              /\ UNCHANGED reg

(* eal_rwlock_wtrylock: load users, then read, then one compare-and-swap   *)
(* of the whole word, whose expected value has a zero top byte.            *)
WTryUsers(p) == /\ Goto(p, "idle", "wtryread")
                /\ me' = [me EXCEPT ![p] = u.users]
                /\ UNCHANGED <<u, reg>>

WTryRead(p) == /\ Goto(p, "wtryread", "wtrycas")
               /\ reg' = [reg EXCEPT ![p] = u.read]
               /\ UNCHANGED <<u, me>>

Swap(p, at, fits, new, to) ==
  /\ IF fits
       THEN /\ u' = new
            /\ Goto(p, at, to)
            /\ UNCHANGED me
       ELSE /\ Goto(p, at, "idle")     \* EBUSY
            /\ me' = [me EXCEPT ![p] = 0]
            /\ UNCHANGED u
  /\ reg' = [reg EXCEPT ![p] = 0]

(* Bug: only the low half of the word is compared. *)
WTryCasHalf(p) == Swap(p, "wtrycas", u.write = me[p] /\ u.read = reg[p],
                       Word(me[p], reg[p], Incr(me[p]), 0), "writing")

WTryCas(p) == Swap(p, "wtrycas", u = Word(me[p], reg[p], me[p], 0),
                   Word(me[p], reg[p], Incr(me[p]), 0), "writing")

(* eal_rwlock_rtrylock: it expects read = users, any write byte, and moves *)
(* both on.                                                                *)
RTryUsers(p) == /\ Goto(p, "idle", "rtrywrite")
                /\ me' = [me EXCEPT ![p] = u.users]
                /\ UNCHANGED <<u, reg>>

RTryWrite(p) == /\ Goto(p, "rtrywrite", "rtrycas")
                /\ reg' = [reg EXCEPT ![p] = u.write]
                /\ UNCHANGED <<u, me>>

(* Bug: the write byte must be users too, so that any reader is in the way. *)
RTryCasAlone(p) == Swap(p, "rtrycas", u = Word(me[p], me[p], me[p], 0),
                        Word(reg[p], Incr(me[p]), Incr(me[p]), 0), "reading")

RTryCas(p) == Swap(p, "rtrycas", u = Word(reg[p], me[p], me[p], 0),
                   Word(reg[p], Incr(me[p]), Incr(me[p]), 0), "reading")

-----------------------------------------------------------------------------
(* The steps a thread takes on its own once it is inside a call; a holder  *)
(* calls unlock when it wants to.                                          *)
Call(p) == \/ WLockDraw(p) \/ RLockDraw(p)
           \/ p \in Triers /\ (WTryUsers(p) \/ RTryUsers(p))
Step(p) == \/ WLockEnter(p) \/ WUnlockStore(p)
           \/ RLockEnter(p) \/ RLockLoad(p) \/ RLockStore(p)
           \/ WTryRead(p) \/ WTryCas(p) \/ RTryWrite(p) \/ RTryCas(p)
Leave(p) == WUnlockLoad(p) \/ RUnlock(p)

Next == \E p \in Proc : Call(p) \/ Step(p) \/ Leave(p)

Spec == Init /\ [][Next]_vars

(* Running threads, and holders that give the lock back.                   *)
FairSpec == Spec /\ \A p \in Proc : WF_vars(Step(p)) /\ WF_vars(Leave(p))
-----------------------------------------------------------------------------
(* The lock is many readers or one writer, across every wrap of the bytes, *)
(* with blocking and non-blocking callers mixed, and with an unlock that   *)
(* stores bytes it loaded a step before.                                   *)
ReadersHolding == {p \in Proc : pc[p] \in {"rpass", "rstore", "reading"}}
WritersHolding == {p \in Proc : pc[p] \in {"writing", "wstore"}}
RW == INSTANCE RWLock WITH readers <- ReadersHolding, writers <- WritersHolding
ImplementsRWLock == RW!Spec

(* Tickets not yet served: how far a waiting thread is from the counter    *)
(* that write tickets are compared with.                                   *)
Ahead(p) == (me[p] - u.write) % Base

(* First come, first served: when a thread that waits gets in, no thread   *)
(* that drew its ticket earlier is still waiting.  Readers do not overtake *)
(* a waiting writer, nor the reverse.                                      *)
Waiting == {p \in Proc : pc[p] \in {"wwait", "rwait"}}
FirstComeFirstServed ==
  [][\A p \in Waiting \ Waiting' : \A q \in Waiting : Ahead(q) >= Ahead(p)]_vars

(* A trylock never gets in past a thread that is waiting its turn.         *)
TryNeverOvertakes ==
  [][\A p \in Proc : /\ pc[p] \in {"wtrycas", "rtrycas"}
                     /\ pc'[p] \in {"writing", "reading"}
                     => Waiting = {}]_vars

(* When nobody waits or holds the lock, the three counters agree: no       *)
(* increment was lost and none was made twice.                             *)
CountersAgreeAtRest ==
  (ReadersHolding \cup WritersHolding \cup Waiting = {}) =>
    u.write = u.users /\ u.read = u.users

(* A trylock fails although nobody stands in its way only if the word      *)
(* changed after it looked, or if users has carried into the top byte.  So *)
(* until Base tickets have been drawn a trylock that runs alone succeeds;  *)
(* from then on every trylock returns EBUSY until the top byte wraps too.  *)
Rest == Waiting = {} /\ WritersHolding = {}
TryFailsForAReason ==
  [][\A p \in Proc :
       /\ pc[p] = "wtrycas" /\ pc'[p] = "idle" /\ Rest /\ ReadersHolding = {}
            => me[p] # u.users \/ reg[p] # u.read \/ u.top # 0
       /\ pc[p] = "rtrycas" /\ pc'[p] = "idle" /\ Rest
          /\ (\A q \in ReadersHolding : pc[q] = "reading")
            => me[p] # u.users \/ reg[p] # u.write \/ u.top # 0]_vars

(* A thread that drew a ticket gets the lock, if holders give it back: the *)
(* lock is fair to readers and to writers, across wraps.                   *)
EveryWaiterServed == \A p \in Proc : pc[p] \in {"wwait", "rwait"} ~> p \notin Waiting
=============================================================================
