------------------------------- MODULE RWLock -------------------------------
(***************************************************************************)
(* What a reader-writer lock promises: many readers or one writer.         *)
(* eal/lmice_eal_rwlock.h implements it with tickets.                      *)
(***************************************************************************)
CONSTANT Proc
VARIABLES readers,   \* threads that hold the lock for reading
          writers    \* the thread that holds it for writing, at most one

vars == <<readers, writers>>

Init == readers = {} /\ writers = {}

BeginRead(p) == /\ writers = {}
                /\ p \notin readers
                /\ readers' = readers \cup {p}
                /\ UNCHANGED writers

EndRead(p) == /\ p \in readers
              /\ readers' = readers \ {p}
              /\ UNCHANGED writers

BeginWrite(p) == /\ readers = {} /\ writers = {}
                 /\ writers' = {p}
                 /\ UNCHANGED readers

EndWrite(p) == /\ writers = {p}
               /\ writers' = {}
               /\ UNCHANGED readers

Next == \E p \in Proc : BeginRead(p) \/ EndRead(p) \/ BeginWrite(p) \/ EndWrite(p)

Spec == Init /\ [][Next]_vars
=============================================================================
