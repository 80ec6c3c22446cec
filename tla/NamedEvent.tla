----------------------------- MODULE NamedEvent -----------------------------
(***************************************************************************)
(* An event that processes share by name (eal/lmice_eal_event.c on POSIX): *)
(* a named semaphore that one creates and others open, wait for and wake.  *)
(* A creation that is refused because the name exists unlinks the name,    *)
(* also that of an event in use: those who have it and those who create or *)
(* open it later then wait for and wake different ones.  Refusal and       *)
(* unlinking are two calls.  The name and the semaphores outlive the       *)
(* processes.  Callers zero an lmice_event_t before they create with it    *)
(* and after they close it (eal_event_close cannot).                       *)
(***************************************************************************)
EXTENDS Integers

CONSTANTS Party,     \* processes that know the name
          MaxMade,   \* bound: semaphores made under the name
          MaxPosts   \* bound: the value of a semaphore

None == 0
Made == 1 .. MaxMade

VARIABLES link,      \* the semaphore that has the name, or None
          value,     \* of each semaphore
          made,      \* how many there have been
          fd,        \* e->fd of each process
          pc,
          own,       \* the semaphore that a process has created, or None
          found,     \* its value then
          met        \* the semaphore that last refused a process its creation

vars == <<link, value, made, fd, pc, own, found, met>>

Init == /\ link = None
        /\ value = [s \in Made |-> 0]
        /\ made = 0
        /\ fd = [p \in Party |-> None]
        /\ pc = [p \in Party |-> "idle"]
        /\ own = [p \in Party |-> None]
        /\ found = [p \in Party |-> 0]
        /\ met = [p \in Party |-> None]

Idle(p) == pc[p] = "idle"

(* sem_unlink, which fails when nothing has the name *)
Unlink == link' = None

-----------------------------------------------------------------------------
(* sem_open, O_CREAT, of a name that nothing has: a semaphore of value 0 *)
CreateNew(p) == /\ Idle(p)
                /\ fd[p] = None
                /\ link = None
                /\ made < MaxMade
                /\ made' = made + 1
                /\ link' = made'
                /\ fd' = [fd EXCEPT ![p] = made']
                /\ own' = [own EXCEPT ![p] = made']
                /\ found' = [found EXCEPT ![p] = 0]
                /\ UNCHANGED <<value, pc, met>>

(* Bug: without O_EXCL, sem_open gives the semaphore that has the name. *)
CreateOrOpen(p) == \/ CreateNew(p)
                   \/ /\ Idle(p)
                      /\ fd[p] = None
                      /\ link # None
                      /\ fd' = [fd EXCEPT ![p] = link]
                      /\ own' = [own EXCEPT ![p] = link]
                      /\ found' = [found EXCEPT ![p] = value[link]]
                      /\ UNCHANGED <<link, value, made, pc, met>>

Create(p) == CreateNew(p)

CreateRefused(p) == /\ Idle(p)
                    /\ fd[p] = None
                    /\ link # None
                    /\ pc' = [pc EXCEPT ![p] = "refused"]
                    /\ met' = [met EXCEPT ![p] = link]
                    /\ UNCHANGED <<link, value, made, fd, own, found>>

(* Whoever has the name by then loses it *)
UnlinkRefused(p) == /\ pc[p] = "refused"
                    /\ pc' = [pc EXCEPT ![p] = "idle"]
                    /\ Unlink
                    /\ UNCHANGED <<value, made, fd, own, found, met>>

Destroy(p) == /\ Idle(p)
              /\ Unlink
              /\ UNCHANGED <<value, made, fd, pc, own, found, met>>

(* Does nothing when fd is set already; fails when nothing has the name *)
Open(p) == /\ Idle(p)
           /\ fd[p] = None
           /\ link # None
           /\ fd' = [fd EXCEPT ![p] = link]
           /\ UNCHANGED <<link, value, made, pc, own, found, met>>

Close(p) == /\ Idle(p)
            /\ fd' = [fd EXCEPT ![p] = None]
            /\ own' = [own EXCEPT ![p] = None]
            /\ UNCHANGED <<link, value, made, pc, found, met>>

Awake(p) == /\ Idle(p)
            /\ fd[p] # None
            /\ value[fd[p]] < MaxPosts
            /\ value' = [value EXCEPT ![fd[p]] = @ + 1]
            /\ UNCHANGED <<link, made, fd, pc, own, found, met>>

(* eal_event_wait_one, and eal_event_wait_timed when it does not time out *)
Wait(p) == /\ Idle(p)
           /\ fd[p] # None
           /\ value[fd[p]] > 0
           /\ value' = [value EXCEPT ![fd[p]] = @ - 1]
           /\ UNCHANGED <<link, made, fd, pc, own, found, met>>

(* A process dies, also between a refusal and its unlinking, and starts    *)
(* again: the semaphore keeps its name and its value.                      *)
Crash(p) == /\ fd' = [fd EXCEPT ![p] = None]
            /\ own' = [own EXCEPT ![p] = None]
            /\ met' = [met EXCEPT ![p] = None]
            /\ pc' = [pc EXCEPT ![p] = "idle"]
            /\ UNCHANGED <<link, value, made, found>>

Next == \E p \in Party : \/ Create(p) \/ CreateRefused(p) \/ UnlinkRefused(p)
                         \/ Destroy(p) \/ Open(p) \/ Close(p)
                         \/ Awake(p) \/ Wait(p) \/ Crash(p)

Spec == Init /\ [][Next]_vars
-----------------------------------------------------------------------------
(* A process that starts again after a death, its own or another's, gets   *)
(* an event of its own: the name that the dead one left refuses a process  *)
(* one creation, never two, as the refused one unlinks it whoever comes in *)
(* between; and who has created an event is its only creator and has found *)
(* no wake in it that was meant for an earlier one.                        *)
StartsAfresh ==
  \A p \in Party :
    /\ Idle(p) /\ met[p] # None => link # met[p]
    /\ own[p] # None => /\ found[p] = 0
                        /\ \A q \in Party \ {p} : own[q] # own[p]
=============================================================================
