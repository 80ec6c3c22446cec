----------------------------- MODULE NetService -----------------------------
(***************************************************************************)
(* Network services, eal/lmice_eal_wsa.{h,c}: a thread creates tcp, udp    *)
(* and multicast services, and each tcp server has a thread that accepts   *)
(* connections.  Services and connections take a handle from one chain of  *)
(* slabs, and the receives they post take their data from another          *)
(* (eal/lmice_eal_iocp.h).  The chains have a lock word that no code uses, *)
(* so taking an element is two steps here: find one with id 0, mark it.    *)
(*                                                                         *)
(* The system's calls (sockets, addresses, completion port, threads) are   *)
(* external and may fail.  Memory does not run out.  The application is    *)
(* external too: one thread that creates the services of Program in order, *)
(* and that gives the accept threads the i/o chain it gives the services.  *)
(***************************************************************************)
EXTENDS Integers, Sequences, SequencesExt

CONSTANTS Program,     \* the modes of the services, in order of creation
          SlabLen,     \* elements of a slab: 128 handles, 64 i/o data
          Addrs,       \* addresses a name resolves to
          MaxAccepts   \* bound: connections a server waits for

Modes == {"client", "server", "udp", "mc"}

ASSUME ServiceAssumption == /\ Program \in Seq(Modes)
                            /\ SlabLen \in Nat \ {0} /\ Addrs \in Nat \ {0}
                            /\ MaxAccepts \in Nat

(* The main thread is 0, the accept thread of service k is k.  Elements    *)
(* are used by service k, <<k, 0>>, and by its n-th connection, <<k, n>>.  *)
Service == DOMAIN Program
Thread == {0} \cup Service
User == Service \X (0 .. MaxAccepts)

VARIABLES hlist, ilist, \* the chains of handles and of i/o data
          open,         \* sockets that are open
          hd, data,     \* places of the handle and of the i/o data of a user
          receiving,    \* users whose receive was posted
          found,        \* the place a thread that takes an element has found
          pc,
          svc,          \* the service under creation
          left, rleft,  \* local and remote addresses not tried yet
          ret,          \* what the creation of a service returned
          conns         \* connections each accept thread has waited for

vars == <<hlist, ilist, open, hd, data, receiving, found, pc, svc, left, rleft, ret, conns>>
lists == <<hlist, ilist, hd, data, found>>

(* Ids and sockets.  A hashed id is named by its user, and a socket by its *)
(* user and the address it was opened for.                                 *)
Zero == <<0, 0>>
Invalid == <<-1, 0>>   \* EAL_WSA_INVALID_INSTID
Element(id, nfd) == [id |-> id, nfd |-> nfd]
Fresh == Element(Zero, <<>>)

(* chain: the slabs from the first on, by the next pointers.  slabs: every *)
(* slab ever made.  A place is a slab and an index, 0 for "none is free".  *)
Nowhere == <<0, 0>>
EmptySlab == [i \in 1 .. SlabLen |-> Fresh]
NewList == [chain |-> <<1>>, slabs |-> <<EmptySlab>>]

(* The user thread p acts for *)
Me(p) == IF p = 0 THEN <<svc, 0>> ELSE <<p, conns[p]>>
Goto(p, from, to) == /\ pc[p] = from
                     /\ pc' = [pc EXCEPT ![p] = to]

Init == /\ hlist = NewList /\ ilist = NewList
        /\ open = {} /\ receiving = {}
        /\ hd = [u \in User |-> Nowhere] /\ data = [u \in User |-> Nowhere]
        /\ found = [p \in Thread |-> Nowhere]
        /\ pc = [p \in Thread |-> "idle"]
        /\ svc = 0 /\ left = 0 /\ rleft = 0
        /\ ret = [k \in Service |-> "none"]
        /\ conns = [k \in Service |-> 0]

-----------------------------------------------------------------------------
(* eal_wsa_append_handle, eal_iocp_append_data *)

At(list, place) == list.slabs[place[1]][place[2]]
Put(list, place, e) == [list EXCEPT !.slabs[place[1]][place[2]] = e]

(* The first element with id 0, slab by slab, or the last slab. *)
Look(list) ==
  LET PlaceOf(k) == <<list.chain[(k \div SlabLen) + 1], (k % SlabLen) + 1>>
      free == {k \in 0 .. Len(list.chain) * SlabLen - 1 :
                 At(list, PlaceOf(k)).id = Zero}
  IN IF free = {} THEN <<Last(list.chain), 0>>
                  ELSE PlaceOf(CHOOSE k \in free : \A j \in free : k <= j)

(* The place found, or the first of a new slab.  last->next is set         *)
(* whatever it has become: a slab another thread hung there is lost.       *)
Place(list, at) == IF at[2] # 0 THEN at ELSE <<Len(list.slabs) + 1, 1>>
Taken(list, at, e) ==
  IF at[2] # 0 THEN Put(list, at, e)
  ELSE LET new == Len(list.slabs) + 1 IN
       [slabs |-> Append(list.slabs, [EmptySlab EXCEPT ![1] = e]),
        chain |-> LET here == {j \in DOMAIN list.chain : list.chain[j] = at[1]} IN
                  IF here = {} THEN list.chain
                  ELSE Append(SubSeq(list.chain, 1, CHOOSE j \in here : TRUE), new)]

Find(p, from, to, list) == /\ Goto(p, from, to)
                           /\ found' = [found EXCEPT ![p] = Look(list)]
                           /\ UNCHANGED <<hlist, ilist, hd, data>>

FindHandle(p) == /\ Find(p, "findHandle", "takeHandle", hlist)
                 /\ UNCHANGED <<open, svc, left, rleft, ret, conns>>

(* Bug: the id is set by the caller, later. *)
TakeUnmarked(p) ==
  /\ Goto(p, "takeHandle", IF p = 0 THEN "resolve" ELSE "accept")
  /\ hlist' = Taken(hlist, found[p], Fresh)
  /\ hd' = [hd EXCEPT ![Me(p)] = Place(hlist, found[p])]
  /\ UNCHANGED <<ilist, data, found, open, svc, left, rleft, ret, conns>>

TakeHandle(p) ==
  /\ Goto(p, "takeHandle", IF p = 0 THEN "resolve" ELSE "accept")
  /\ hlist' = Taken(hlist, found[p], Element(Invalid, <<>>))
  /\ hd' = [hd EXCEPT ![Me(p)] = Place(hlist, found[p])]
  /\ UNCHANGED <<ilist, data, found, open, svc, left, rleft, ret, conns>>

FindData(p) == /\ Find(p, "findData", "post", ilist)
               /\ UNCHANGED <<open, svc, left, rleft, ret, conns>>

-----------------------------------------------------------------------------
(* Steps of a creation *)

My == <<svc, 0>>
Mode == Program[svc]
Handle == At(hlist, hd[My])
Write(e) == hlist' = Put(hlist, hd[My], e)

Return(from, how) == /\ Goto(0, from, "idle")
                     /\ ret' = [ret EXCEPT ![svc] = how]

(* eal_wsa_remove_handle: the id only; nobody reads the rest again. *)
RemoveHandle(u) == /\ hlist' = Put(hlist, hd[u], Element(Zero, At(hlist, hd[u]).nfd))
                   /\ hd' = [hd EXCEPT ![u] = Nowhere]

(* Bug: a failure that keeps the handle. *)
AbortKeeping(from) == /\ Return(from, "failed")
                      /\ open' = open \ {Handle.nfd}
                      /\ hd' = [hd EXCEPT ![My] = Nowhere]
                      /\ UNCHANGED <<hlist, ilist, data, found>>

(* A failure that closes the socket, gives the handle back and returns -1 *)
Abort(from) == /\ Return(from, "failed")
               /\ RemoveHandle(My)
               /\ open' = open \ {Handle.nfd}
               /\ UNCHANGED <<ilist, data, found>>

Create == /\ svc < Len(Program)
          /\ svc' = svc + 1
          /\ Goto(0, "idle", "findHandle")
          /\ UNCHANGED <<lists, open, left, rleft, ret, conns>>

(* getaddrinfo of the local address *)
Resolve == /\ \/ /\ Goto(0, "resolve", "bind")
                 /\ left' = Addrs
                 /\ UNCHANGED <<lists, open, ret>>
              \/ Abort("resolve") /\ UNCHANGED left
           /\ UNCHANGED <<svc, rleft, conns>>

(* WSASocket and bind for one address; a socket that cannot be bound is    *)
(* closed, if that is the code                                             *)
BindOr(closes) ==
  LET s == <<My, left>> IN
  /\ left > 0
  /\ left' = left - 1
  /\ \/ /\ Goto(0, "bind", "bind")      \* INVALID_SOCKET
        /\ Write(Element(Handle.id, <<>>))
        /\ UNCHANGED open
     \/ /\ Goto(0, "bind", "bind")
        /\ Write(Element(Handle.id, s))
        /\ open' = IF closes THEN open ELSE open \cup {s}
     \/ /\ Goto(0, "bind", Mode)
        /\ Write(Element(Handle.id, s))
        /\ open' = open \cup {s}
  /\ UNCHANGED <<ilist, hd, data, found, svc, rleft, ret, conns>>

(* Bug *)
BindLeaving == BindOr(FALSE)

Bind == BindOr(TRUE)

(* Every address failed: the last error is returned, with the handle kept. *)
NoAddress == /\ left = 0
             /\ Return("bind", "noaddress")
             /\ UNCHANGED <<lists, open, svc, left, rleft, conns>>

(* The next address: the socket is closed. *)
NextAddress(from) == /\ Goto(0, from, "bind")
                     /\ open' = open \ {Handle.nfd}
                     /\ UNCHANGED <<lists, ret>>

Same == UNCHANGED <<svc, left, rleft, conns>>

(* Bug: the id is hashed after the data has been appended under it. *)
AttachUnhashed(from) == /\ Goto(0, from, "findData")
                        /\ UNCHANGED <<hlist, ilist, hd, data, found, open, ret>>

(* The id is hashed, and the socket attached to the completion port. *)
Attach(from) == /\ Goto(0, from, "findData")
                /\ Write(Element(My, Handle.nfd))
                /\ UNCHANGED <<ilist, hd, data, found, open, ret>>

Udp == (Attach("udp") \/ Abort("udp")) /\ Same

(* eal_wsa_create_mc_handle ends here. *)
Join == /\ \/ /\ Goto(0, "mc", "joined")
              /\ ret' = [ret EXCEPT ![svc] = "ok"]
              /\ Write(Element(My, Handle.nfd))
              /\ UNCHANGED <<ilist, hd, data, found, open>>
           \/ NextAddress("mc")
        /\ Same

(* The application calls eal_wsa_bind_handle_cp and eal_wsa_arecv_data.    *)
(* The first returns no value when it succeeds: the application may take   *)
(* what it gets for a failure.                                             *)
BindHandleCp == /\ \/ Abort("joined")
                   \/ /\ Goto(0, "joined", "findData") \/ Goto(0, "joined", "idle")
                      /\ UNCHANGED <<lists, open, ret>>
                /\ Same

(* A client resolves the remote name and tries its addresses. *)
ResolveRemote == /\ \/ /\ Goto(0, "client", "connect")
                       /\ rleft' = Addrs
                       /\ UNCHANGED <<lists, open, ret>>
                    \/ Abort("client") /\ UNCHANGED rleft
                 /\ UNCHANGED <<svc, left, conns>>

Connect == /\ rleft > 0
           /\ \/ /\ Goto(0, "connect", "connect")
                 /\ rleft' = rleft - 1
                 /\ UNCHANGED <<lists, open, ret>>
              \/ /\ Attach("connect") \/ Abort("connect")
                 /\ UNCHANGED rleft
           /\ UNCHANGED <<svc, left, conns>>

(* No address answered: ret = 0 all the same. *)
Unconnected == /\ rleft = 0
               /\ Return("connect", "ok")
               /\ UNCHANGED <<lists, open>>
               /\ Same

(* listen, and the thread that accepts; its creation may fail unnoticed.   *)
Listen == /\ \/ /\ pc[0] = "server"
                /\ \E started \in {"accepting", "idle"} :
                     pc' = [pc EXCEPT ![0] = "idle", ![svc] = started]
                /\ ret' = [ret EXCEPT ![svc] = "ok"]
                /\ UNCHANGED <<lists, open>>
             \/ NextAddress("server")
          /\ Same

(* eal_iocp_append_data and the receive it is for, WSARecvFrom or WSARecv. *)
(* Nobody looks whether that could be posted: the creation returns 0, the  *)
(* thread goes on accepting, and the data stays taken.                     *)
Post(p) == /\ Goto(p, "post", IF p = 0 THEN "idle" ELSE "accepting")
           /\ ilist' = Taken(ilist, found[p], Element(At(hlist, hd[Me(p)]).id, <<>>))
           /\ data' = [data EXCEPT ![Me(p)] = Place(ilist, found[p])]
           /\ receiving' \in {receiving, receiving \cup {Me(p)}}
           /\ ret' = IF p = 0 THEN [ret EXCEPT ![svc] = "ok"] ELSE ret
           /\ UNCHANGED <<hlist, hd, found, open, svc, left, rleft, conns>>

-----------------------------------------------------------------------------
(* eal_wsa_tcp_accept_thread_proc *)

AcceptNext(p) == /\ Goto(p, "accepting", "findHandle")
                 /\ conns[p] < MaxAccepts
                 /\ conns' = [conns EXCEPT ![p] = @ + 1]
                 /\ UNCHANGED <<lists, open, svc, left, rleft, ret>>

(* The thread ends when accept or the completion port fails; it does not   *)
(* close the socket it has accepted.                                       *)
Accepted(p) == /\ At(hlist, hd[<<p, 0>>]).nfd \in open
               /\ open' = open \cup {<<Me(p), 0>>}

Accept(p) ==
  /\ \/ /\ Goto(p, "accept", "findData")
        /\ Accepted(p)
        /\ hlist' = Put(hlist, hd[Me(p)], Element(Me(p), <<Me(p), 0>>))
        /\ UNCHANGED hd
     \/ /\ Goto(p, "accept", "ended")
        /\ Accepted(p) \/ UNCHANGED open
        /\ RemoveHandle(Me(p))
  /\ UNCHANGED <<ilist, data, found, svc, left, rleft, ret, conns>>

Step == \/ Create \/ Resolve \/ Bind \/ NoAddress
        \/ Udp \/ Join \/ BindHandleCp
        \/ ResolveRemote \/ Connect \/ Unconnected \/ Listen
        \/ \E p \in Thread : FindHandle(p) \/ TakeHandle(p) \/ FindData(p)
        \/ \E p \in Service : AcceptNext(p) \/ Accept(p)

Next == \/ Step /\ UNCHANGED receiving
        \/ \E p \in Thread : Post(p)

Spec == Init /\ [][Next]_vars
-----------------------------------------------------------------------------
(* "创建用来和套接字关联的单句柄数据信息结构" (lmice_eal_wsa.c:21), a          *)
(* structure per socket: no two services or connections share a handle,    *)
(* and no two receives share their data.  It holds while one thread takes  *)
(* elements at a time.                                                     *)
Distinct(places) ==
  \A u, v \in User : places[u] = places[v] /\ places[u] # Nowhere => u = v
OneUserEach == Distinct(hd) /\ Distinct(data)

(* Every handle marked in use, and no other, is a service's or a           *)
(* connection's: whichever step of a creation failed, only one that ran    *)
(* out of addresses keeps its handle, and no handle in use can be taken    *)
(* again.                                                                  *)
HandlesAccountedFor ==
  {place \in (DOMAIN hlist.slabs) \X (1 .. SlabLen) : At(hlist, place).id # Zero}
    = {hd[u] : u \in User} \ {Nowhere}

(* A creation that reports a failure leaves no socket open, whichever of   *)
(* its steps failed and however many addresses it went through; one that   *)
(* reports success leaves one.                                             *)
SocketsOf(k) == {s \in open : s[1] = <<k, 0>>}
SocketsClosed ==
  \A k \in Service : k # svc \/ pc[0] = "idle" =>
    SocketsOf(k) = IF ret[k] = "ok" THEN {At(hlist, hd[<<k, 0>>]).nfd} ELSE {}

(* A udp service reported as created has asked for a receive, whether or   *)
(* not it was posted; and every receive that was, of a service or of a     *)
(* connection, is in data under its user's id, and the handle with that id *)
(* is still in use and its socket open: no failure of this creation or a   *)
(* later one has taken them away.                                          *)
ReceivesReachTheirUser ==
  /\ \A k \in Service : ret[k] = "ok" /\ Program[k] = "udp" => data[<<k, 0>>] # Nowhere
  /\ \A u \in receiving : /\ data[u] # Nowhere /\ At(ilist, data[u]).id = u
                           /\ hd[u] # Nowhere /\ At(hlist, hd[u]).id = u
                           /\ At(hlist, hd[u]).nfd \in open
=============================================================================
