--------------------------- MODULE NetServiceProofs ---------------------------
(***************************************************************************)
(* Proofs about network services, for any services in any order as long as *)
(* a tcp server comes last, for slabs of any length, any number of         *)
(* addresses and any number of connections.  Then one thread at a time     *)
(* appends to the chains: the main thread until the server listens, the    *)
(* accept thread from then on.  No slab is lost, an element that a scan    *)
(* has found is still free when it is marked, and every element marked is  *)
(* some user's; the sockets of a creation under way are those of the       *)
(* address it is at.                                                       *)
(***************************************************************************)
EXTENDS NetService, WellFoundedInduction, TLAPS

(* What the run without a race has: nobody appends beside an accept thread *)
ServerOnlyLast == \A k \in Service : Program[k] = "server" => k = Len(Program)

(* Chains *)
Elem == [id : {Zero, Invalid} \cup User, nfd : {<<>>} \cup (User \X Nat)]
Slab == [1 .. SlabLen -> Elem]

Chained(list) == /\ list \in [chain : Seq(Nat), slabs : Seq(Slab)]
                 /\ Len(list.slabs) > 0
                 /\ Len(list.chain) = Len(list.slabs)
                 /\ \A j \in 1 .. Len(list.slabs) : list.chain[j] = j

Places(list) == (1 .. Len(list.slabs)) \X (1 .. SlabLen)
Used(list) == {place \in Places(list) : At(list, place).id # Zero}

(* What a scan finds: a free element, or that there is none *)
Free(list, at) == \/ at \in Places(list) /\ At(list, at).id = Zero
                  \/ at = <<Len(list.slabs), 0>>

(* Every place that somebody has is marked, and only he has it *)
Owned(list, places) == /\ \A v \in User : places[v] = Nowhere \/ places[v] \in Used(list)
                       /\ Distinct(places)

Handles == /\ Chained(hlist) /\ Owned(hlist, hd)
           /\ \A place \in Used(hlist) : \E v \in User : hd[v] = place

Data == Chained(ilist) /\ Owned(ilist, data)

(* Where the threads may be: before, with and after the handle *)
Taking == {"findHandle", "takeHandle"}
Bound == Modes \cup {"connect", "joined", "findData", "post"}
Having == {"resolve", "bind", "accept"} \cup Bound
Serving == Taking \cup {"accept", "findData", "post"}

TypeOK == /\ open \in SUBSET (User \X Nat)
          /\ hd \in [User -> Nat \X Nat] /\ data \in [User -> Nat \X Nat]
          /\ found \in [Thread -> Nat \X Nat]
          /\ pc \in [Thread -> {"idle", "accepting", "ended"} \cup Taking \cup Having]
          /\ svc \in {0} \cup Service
          /\ left \in 0 .. Addrs /\ rleft \in 0 .. Addrs
          /\ ret \in [Service -> {"none", "ok", "failed", "noaddress"}]
          /\ conns \in [Service -> 0 .. MaxAccepts]

(* The main thread or the accept thread of the last service, not both *)
OneAppends ==
  /\ pc[0] # "idle" => svc \in Service /\ pc[0] \in Taking \cup (Having \ {"accept"})
  /\ \A k \in Service : pc[k] # "idle" =>
       /\ pc[0] = "idle" /\ svc = k /\ k = Len(Program)
       /\ pc[k] \in Serving \cup {"accepting", "ended"}
       /\ pc[k] \in Serving => conns[k] >= 1

ModeOf == /\ pc[0] \in Modes => pc[0] = Mode
          /\ pc[0] = "connect" => Mode = "client"
          /\ pc[0] = "joined" => Mode = "mc" /\ ret[svc] = "ok"

Returned == /\ \A k \in Service : k > svc => ret[k] = "none"
            /\ \A k \in Service : ret[k] = "ok" => hd[<<k, 0>>] # Nowhere
            /\ pc[0] # "idle" => \/ ret[svc] = "none"
                                 \/ Mode = "mc" /\ pc[0] \in {"joined", "findData", "post"}

WhoHas ==
  /\ \A k \in Service : k > svc => hd[<<k, 0>>] = Nowhere
  /\ \A k \in Service, n \in 1 .. MaxAccepts : n > conns[k] => hd[<<k, n>>] = Nowhere
  /\ \A p \in Thread : /\ pc[p] \in Taking => hd[Me(p)] = Nowhere
                       /\ pc[p] \in Having => hd[Me(p)] # Nowhere

Finding == \A p \in Thread : /\ pc[p] = "takeHandle" => Free(hlist, found[p])
                             /\ pc[p] = "post" => Free(ilist, found[p])

HandleOf(v) == At(hlist, hd[v])

Attached ==
  \A p \in Thread : pc[p] \in {"joined", "findData", "post"} => HandleOf(Me(p)).id = Me(p)

(* The sockets of the creation under way *)
Sockets == /\ SocketsClosed
           /\ pc[0] \in Taking \cup {"resolve", "bind"} => SocketsOf(svc) = {}
           /\ pc[0] = "resolve" => Handle.nfd = <<>>
           /\ pc[0] \in Bound => SocketsOf(svc) = {Handle.nfd}

(* Whoever has data was there with his handle and an open socket, and has  *)
(* them still; nobody has any while he is in the making.                   *)
HasSocket(v) == HandleOf(v).nfd \in open /\ HandleOf(v).nfd[1] = v
Receives ==
  /\ \A k \in Service : ret[k] = "ok" /\ Program[k] = "udp" => data[<<k, 0>>] # Nowhere
  /\ \A v \in User : data[v] # Nowhere => /\ At(ilist, data[v]).id = v
                                          /\ hd[v] # Nowhere /\ HandleOf(v).id = v
                                          /\ HasSocket(v)
  /\ \A p \in Thread : pc[p] \in Having => data[Me(p)] = Nowhere
  /\ \A p \in Service : pc[p] \in {"findData", "post"} => HasSocket(Me(p))

IInv == /\ TypeOK /\ Handles /\ Data /\ OneAppends /\ ModeOf /\ Returned /\ WhoHas
        /\ Finding /\ Attached /\ Sockets /\ Receives

-----------------------------------------------------------------------------
(* Chains of slabs *)

LEMMA Division ==
  ASSUME NEW a \in Nat, NEW b \in Nat \ {0}
  PROVE  /\ a \div b \in Nat
         /\ (a \div b) * b <= a
         /\ a < (a \div b) * b + b
  OBVIOUS

LEMMA ProductsKeepOrder ==
  ASSUME NEW a \in Int, NEW b \in Int, NEW c \in Nat, a <= b
  PROVE  a * c <= b * c
<1>1. b - a \in Nat /\ (b - a) * c >= 0
  OBVIOUS
<1>. QED  BY <1>1

(* Counting through slabs of b elements stays within n slabs. *)
LEMMA QuotientBelow ==
  ASSUME NEW a \in Nat, NEW b \in Nat \ {0}, NEW n \in Nat, a < n * b
  PROVE  a \div b < n
<1>1. a \div b \in Nat /\ (a \div b) * b <= a
  BY Division
<1>2. CASE n <= a \div b
  <2>1. n * b <= (a \div b) * b
    BY <1>1, <1>2, ProductsKeepOrder
  <2>. QED  BY <1>1, <2>1
<1>. QED  BY <1>1, <1>2

(* A set of natural numbers has a least element. *)
LEMMA LeastNatural ==
  ASSUME NEW T, T \subseteq Nat, T # {}
  PROVE  \E x \in T : \A y \in T : x <= y
<1> DEFINE Below == OpToRel(<, Nat)
<1>1. PICK x \in T : \A y \in T : <<y, x>> \notin Below
  BY NatLessThanWellFounded, WFMin, Zenon
<1>2. \A y \in Nat : y < x => <<y, x>> \in Below
  BY DEF OpToRel
<1>3. ASSUME NEW y \in T PROVE ~(y < x)
  <2> HIDE DEF Below
  <2>. QED  BY <1>1, <1>2, Zenon
<1>. QED  BY <1>3

(* What the fields of a chain are *)
LEMMA ChainFields ==
  ASSUME NEW l, Chained(l)
  PROVE  /\ l.chain \in Seq(Nat) /\ l.slabs \in Seq(Slab)
         /\ Len(l.slabs) \in Nat /\ Len(l.slabs) > 0
         /\ Len(l.chain) = Len(l.slabs)
         /\ DOMAIN l.chain = 1 .. Len(l.slabs) /\ DOMAIN l.slabs = 1 .. Len(l.slabs)
         /\ \A j \in 1 .. Len(l.slabs) : l.chain[j] = j
         /\ \A j \in 1 .. Len(l.slabs) : l.slabs[j] \in Slab
  BY DEF Chained

LEMMA ElementAt ==
  ASSUME NEW l, Chained(l), NEW at \in Places(l)
  PROVE  /\ At(l, at) \in Elem
         /\ at[1] \in 1 .. Len(l.slabs) /\ at[2] \in 1 .. SlabLen
         /\ at = <<at[1], at[2]>>
         /\ at \in Nat \X Nat /\ at # Nowhere
<1>1. at[1] \in 1 .. Len(l.slabs) /\ at[2] \in 1 .. SlabLen /\ at = <<at[1], at[2]>>
  BY DEF Places
<1>2. l.slabs[at[1]] \in Slab
  BY <1>1, ChainFields
<1>3. l.slabs[at[1]][at[2]] \in Elem
  BY <1>1, <1>2 DEF Slab
<1>4. Len(l.slabs) \in Nat /\ SlabLen \in Nat
  BY ChainFields, ServiceAssumption
<1>5. at \in Nat \X Nat
  BY <1>1, <1>4
<1>6. at # Nowhere
  BY <1>1, <1>4 DEF Nowhere
<1>. QED  BY <1>1, <1>3, <1>5, <1>6 DEF At

(* A scan ends at a free element, or at the last slab. *)
LEMMA LookFinds ==
  ASSUME NEW l, Chained(l)
  PROVE  Free(l, Look(l))
<1> DEFINE PlaceOf(k) == <<l.chain[(k \div SlabLen) + 1], (k % SlabLen) + 1>>
           free == {k \in 0 .. Len(l.chain) * SlabLen - 1 : At(l, PlaceOf(k)).id = Zero}
           first == CHOOSE k \in free : \A j \in free : k <= j
<1>0. /\ Len(l.slabs) \in Nat /\ Len(l.slabs) > 0 /\ Len(l.chain) = Len(l.slabs)
      /\ SlabLen \in Nat \ {0}
  BY ChainFields, ServiceAssumption
<1>1. Look(l) = IF free = {} THEN <<Last(l.chain), 0>> ELSE PlaceOf(first)
  BY Zenon DEF Look
<1>2. CASE free = {}
  <2>1. Last(l.chain) = l.chain[Len(l.chain)]
    BY Zenon DEF Last
  <2>2. l.chain[Len(l.chain)] = Len(l.slabs)
    BY <1>0, ChainFields
  <2>3. Look(l) = <<Len(l.slabs), 0>>
    BY <1>1, <1>2, <2>1, <2>2, Zenon
  <2>. QED  BY <2>3 DEF Free
<1>3. CASE free # {}
  <2>1. first \in free
    <3>1. free \subseteq Nat
      BY <1>0
    <3>2. \E k \in free : \A j \in free : k <= j
      <4> HIDE DEF free
      <4>. QED  BY <1>3, <3>1, LeastNatural
    <3>. QED  BY <3>2, Zenon
  <2> HIDE DEF first
  <2>2. first \in Nat /\ first < Len(l.slabs) * SlabLen /\ At(l, PlaceOf(first)).id = Zero
    <3>1. Len(l.slabs) * SlabLen \in Nat
      BY <1>0
    <3>. QED  BY <1>0, <2>1, <3>1
  <2>3. first \div SlabLen \in Nat /\ first \div SlabLen < Len(l.slabs)
    BY <1>0, <2>2, Division, QuotientBelow
  <2>4. first % SlabLen \in 0 .. SlabLen - 1
    BY <1>0, <2>2
  <2>5. l.chain[(first \div SlabLen) + 1] = (first \div SlabLen) + 1
    <3>1. (first \div SlabLen) + 1 \in 1 .. Len(l.slabs)
      BY <1>0, <2>3
    <3>. QED  BY <3>1, ChainFields
  <2>6. PlaceOf(first) \in Places(l)
    <3>1. (first \div SlabLen) + 1 \in 1 .. Len(l.slabs) /\ (first % SlabLen) + 1 \in 1 .. SlabLen
      BY <1>0, <2>3, <2>4
    <3>. QED  BY <2>5, <3>1 DEF Places
  <2> HIDE DEF PlaceOf, free
  <2>7. Look(l) = PlaceOf(first)
    BY <1>1, <1>3
  <2>. QED  BY <2>2, <2>6, <2>7 DEF Free
<1>. QED  BY <1>2, <1>3

(* An element written *)
LEMMA PutIn ==
  ASSUME NEW l, Chained(l), NEW at \in Places(l), NEW e \in Elem
  PROVE  /\ Chained(Put(l, at, e)) /\ Places(Put(l, at, e)) = Places(l)
         /\ At(Put(l, at, e), at) = e
         /\ \A q \in Places(l) : q # at => At(Put(l, at, e), q) = At(l, q)
<1> DEFINE s == [l.slabs EXCEPT ![at[1]][at[2]] = e]
           n == [l EXCEPT !.slabs = s]
<1>0. Put(l, at, e) = n
  BY DEF Put
<1>1. /\ at[1] \in 1 .. Len(l.slabs) /\ at[2] \in 1 .. SlabLen
      /\ at = <<at[1], at[2]>>
  BY ElementAt
<1>2. /\ l.slabs \in Seq(Slab) /\ l.slabs[at[1]] \in Slab
      /\ DOMAIN l.slabs = 1 .. Len(l.slabs) /\ Len(l.slabs) \in Nat
  BY <1>1, ChainFields
<1>3. [l.slabs[at[1]] EXCEPT ![at[2]] = e] \in Slab
  BY <1>1, <1>2 DEF Slab
<1>4. /\ s \in Seq(Slab) /\ Len(s) = Len(l.slabs)
      /\ s[at[1]] = [l.slabs[at[1]] EXCEPT ![at[2]] = e]
      /\ \A j \in 1 .. Len(l.slabs) : j # at[1] => s[j] = l.slabs[j]
  BY <1>1, <1>2, <1>3
<1>5. /\ n \in [chain : Seq(Nat), slabs : Seq(Slab)]
      /\ n.slabs = s /\ n.chain = l.chain
  <2> HIDE DEF s
  <2>. QED  BY <1>4 DEF Chained
<1> HIDE DEF n, s
<1>6. Chained(n) /\ Places(n) = Places(l)
  BY <1>4, <1>5, ChainFields DEF Chained, Places
<1>7. At(n, at) = e
  BY <1>1, <1>2, <1>4, <1>5 DEF At, Slab
<1>8. ASSUME NEW q \in Places(l), q # at PROVE At(n, q) = At(l, q)
  <2>1. q[1] \in 1 .. Len(l.slabs) /\ q[2] \in 1 .. SlabLen /\ q = <<q[1], q[2]>>
    BY ElementAt
  <2>2. CASE q[1] # at[1]
    BY <1>4, <1>5, <2>1, <2>2 DEF At
  <2>3. CASE q[1] = at[1]
    <3>1. q[2] # at[2]
      BY <1>1, <1>8, <2>1, <2>3, Zenon
    <3>. QED  BY <1>1, <1>2, <1>4, <1>5, <2>1, <2>3, <3>1 DEF At, Slab
  <2>. QED  BY <2>2, <2>3
<1>. QED  BY <1>0, <1>6, <1>7, <1>8

(* An element taken where a scan ended, in the slab found or in a new one: *)
(* it was free, and no other element has changed.                          *)
LEMMA TakenIn ==
  ASSUME NEW l, Chained(l), NEW at, Free(l, at), NEW e \in Elem
  PROVE  /\ Chained(Taken(l, at, e))
         /\ Places(l) \subseteq Places(Taken(l, at, e))
         /\ Place(l, at) \in Places(Taken(l, at, e))
         /\ Place(l, at) \notin Used(l)
         /\ At(Taken(l, at, e), Place(l, at)) = e
         /\ \A q \in Places(l) : q # Place(l, at) => At(Taken(l, at, e), q) = At(l, q)
         /\ \A q \in Places(Taken(l, at, e)) \ Places(l) :
               q # Place(l, at) => At(Taken(l, at, e), q).id = Zero
<1>0. /\ Len(l.slabs) \in Nat /\ Len(l.slabs) > 0 /\ SlabLen \in Nat \ {0}
      /\ l.slabs \in Seq(Slab) /\ l.chain \in Seq(Nat) /\ Len(l.chain) = Len(l.slabs)
      /\ DOMAIN l.chain = 1 .. Len(l.slabs)
      /\ \A j \in 1 .. Len(l.slabs) : l.chain[j] = j
      /\ \A j \in 1 .. Len(l.slabs) : l.slabs[j] \in Slab
  BY ChainFields, ServiceAssumption
<1>1. CASE at \in Places(l) /\ At(l, at).id = Zero
  <2>1. at[2] # 0
    BY <1>0, <1>1, ElementAt
  <2>2. Taken(l, at, e) = Put(l, at, e) /\ Place(l, at) = at
    BY <2>1, Zenon DEF Taken, Place
  <2>3. at \notin Used(l)
    BY <1>1 DEF Used
  <2>. QED  BY <1>1, <2>2, <2>3, PutIn
<1>2. CASE at = <<Len(l.slabs), 0>>
  <2> DEFINE new == Len(l.slabs) + 1
             first == [EmptySlab EXCEPT ![1] = e]
             here == {j \in DOMAIN l.chain : l.chain[j] = at[1]}
             s == Append(l.slabs, first)
             c == Append(SubSeq(l.chain, 1, CHOOSE j \in here : TRUE), new)
             n == [slabs |-> s, chain |-> c]
  <2>1. here = {Len(l.slabs)}
    BY <1>0, <1>2
  <2>2. (CHOOSE j \in here : TRUE) = Len(l.slabs)
    BY <2>1
  <2>3. Taken(l, at, e) = n /\ Place(l, at) = <<new, 1>>
    <3>1. at[2] = 0 /\ here # {}
      BY <1>2, <2>1
    <3>. QED  BY <3>1 DEF Taken, Place
  <2>4. c = Append(l.chain, new)
    <3>1. SubSeq(l.chain, 1, Len(l.slabs)) = l.chain
      BY <1>0
    <3>. QED  BY <2>2, <3>1
  <2>5. /\ first \in Slab /\ first[1] = e
        /\ \A i \in 1 .. SlabLen : i # 1 => first[i].id = Zero
    <3>1. Fresh \in Elem /\ Fresh.id = Zero
      BY DEF Fresh, Element, Elem
    <3>2. EmptySlab \in Slab
      BY <3>1 DEF EmptySlab, Slab
    <3>3. \A i \in 1 .. SlabLen : EmptySlab[i] = Fresh
      BY DEF EmptySlab
    <3> HIDE DEF EmptySlab
    <3>4. 1 \in 1 .. SlabLen
      BY <1>0
    <3>. QED  BY <3>1, <3>2, <3>3, <3>4 DEF Slab
  <2> HIDE DEF first, here
  <2>6. /\ c \in Seq(Nat) /\ Len(c) = new
        /\ \A j \in 1 .. new : c[j] = j
    <3> HIDE DEF c
    <3>1. Append(l.chain, new)[new] = new
      BY <1>0
    <3>2. \A j \in 1 .. Len(l.slabs) : Append(l.chain, new)[j] = j
      BY <1>0
    <3>3. Append(l.chain, new) \in Seq(Nat) /\ Len(Append(l.chain, new)) = new
      BY <1>0
    <3>. QED  BY <1>0, <2>4, <3>1, <3>2, <3>3
  <2>7. /\ s \in Seq(Slab) /\ Len(s) = new /\ s[new] = first
        /\ \A j \in 1 .. Len(l.slabs) : s[j] = l.slabs[j]
    BY <1>0, <2>5
  <2>8. /\ n \in [chain : Seq(Nat), slabs : Seq(Slab)] /\ n.slabs = s /\ n.chain = c
    <3> HIDE DEF s, c
    <3>. QED  BY <2>6, <2>7
  <2> HIDE DEF n, s, c
  <2>9. Chained(n)
    BY <1>0, <2>6, <2>7, <2>8 DEF Chained
  <2>10. Places(n) = (1 .. new) \X (1 .. SlabLen)
    BY <2>7, <2>8 DEF Places
  <2>11. Places(l) \subseteq Places(n) /\ <<new, 1>> \in Places(n)
    BY <1>0, <2>10 DEF Places
  <2>12. <<new, 1>> \notin Places(l)
    BY <1>0 DEF Places
  <2>13. At(n, <<new, 1>>) = e
    BY <2>5, <2>7, <2>8 DEF At
  <2>14. ASSUME NEW q \in Places(l) PROVE At(n, q) = At(l, q)
    <3>1. q[1] \in 1 .. Len(l.slabs)
      BY ElementAt
    <3>. QED  BY <2>7, <2>8, <3>1 DEF At
  <2>15. ASSUME NEW q \in Places(n) \ Places(l), q # <<new, 1>> PROVE At(n, q).id = Zero
    <3>1. q[1] \in 1 .. new /\ q[2] \in 1 .. SlabLen /\ q = <<q[1], q[2]>>
      BY <2>10
    <3>2. q[1] = new
      <4>1. q[1] \notin 1 .. Len(l.slabs)
        BY <2>15, <3>1 DEF Places
      <4>. QED  BY <1>0, <3>1, <4>1
    <3>3. q[2] # 1
      BY <2>15, <3>1, <3>2, Zenon
    <3>. QED  BY <2>5, <2>7, <2>8, <3>1, <3>2, <3>3 DEF At
  <2>. QED  BY <2>3, <2>9, <2>11, <2>12, <2>13, <2>14, <2>15 DEF Used
<1>. QED  BY <1>1, <1>2 DEF Free

-----------------------------------------------------------------------------
(* Users and their elements, for both chains: who is a function of users.  *)

(* An element in use written and still marked: it stays its user's, and    *)
(* nobody else's element changes.                                          *)
LEMMA WriteOwned ==
  ASSUME NEW l, Chained(l), NEW who \in [User -> Nat \X Nat], Owned(l, who),
         NEW v \in User, who[v] # Nowhere, NEW e \in Elem, e.id # Zero
  PROVE  /\ Chained(Put(l, who[v], e)) /\ Owned(Put(l, who[v], e), who)
         /\ Used(Put(l, who[v], e)) = Used(l)
         /\ At(Put(l, who[v], e), who[v]) = e
         /\ \A w \in User : w # v /\ who[w] # Nowhere =>
              At(Put(l, who[v], e), who[w]) = At(l, who[w])
<1> DEFINE n == Put(l, who[v], e)
<1>1. who[v] \in Used(l) /\ who[v] \in Places(l)
  BY DEF Owned, Used
<1>2. /\ Chained(n) /\ Places(n) = Places(l) /\ At(n, who[v]) = e
      /\ \A q \in Places(l) : q # who[v] => At(n, q) = At(l, q)
  BY <1>1, PutIn
<1> HIDE DEF n
<1>3. Used(n) = Used(l)
  BY <1>1, <1>2 DEF Used
<1>4. ASSUME NEW w \in User, w # v, who[w] # Nowhere PROVE At(n, who[w]) = At(l, who[w])
  <2>1. who[w] \in Places(l) /\ who[w] # who[v]
    BY <1>4 DEF Owned, Distinct, Used
  <2>. QED  BY <1>2, <2>1
<1>5. Owned(n, who)
  BY <1>3 DEF Owned
<1>. QED  BY <1>2, <1>3, <1>4, <1>5 DEF n

(* An element given back *)
LEMMA FreeOwned ==
  ASSUME NEW l, Chained(l), NEW who \in [User -> Nat \X Nat], Owned(l, who),
         NEW v \in User, who[v] # Nowhere, NEW e \in Elem, e.id = Zero,
         NEW rest, rest[v] = Nowhere, \A w \in User : w # v => rest[w] = who[w]
  PROVE  /\ Chained(Put(l, who[v], e)) /\ Owned(Put(l, who[v], e), rest)
         /\ Used(Put(l, who[v], e)) = Used(l) \ {who[v]}
         /\ \A w \in User : w # v /\ who[w] # Nowhere =>
              At(Put(l, who[v], e), who[w]) = At(l, who[w])
<1> DEFINE n == Put(l, who[v], e)
<1>1. who[v] \in Used(l) /\ who[v] \in Places(l)
  BY DEF Owned, Used
<1>2. /\ Chained(n) /\ Places(n) = Places(l) /\ At(n, who[v]) = e
      /\ \A q \in Places(l) : q # who[v] => At(n, q) = At(l, q)
  BY <1>1, PutIn
<1> HIDE DEF n
<1>3. Used(n) = Used(l) \ {who[v]}
  BY <1>1, <1>2 DEF Used
<1>4. ASSUME NEW w \in User, w # v, who[w] # Nowhere
      PROVE  /\ At(n, who[w]) = At(l, who[w])
             /\ who[w] \in Used(l) /\ who[w] # who[v]
  <2>1. who[w] \in Used(l) /\ who[w] \in Places(l) /\ who[w] # who[v]
    BY <1>4 DEF Owned, Distinct, Used
  <2>. QED  BY <1>2, <2>1
<1>5. \A w \in User : rest[w] = Nowhere \/ rest[w] \in Used(n)
  BY <1>3, <1>4
<1>6. Distinct(rest)
  BY DEF Distinct, Owned
<1>7. Owned(n, rest)
  BY <1>5, <1>6 DEF Owned
<1>. QED  BY <1>2, <1>3, <1>4, <1>7 DEF n

(* An element taken where a scan ended *)
LEMMA TakeOwned ==
  ASSUME NEW l, Chained(l), NEW who \in [User -> Nat \X Nat], Owned(l, who),
         NEW at, Free(l, at), NEW v \in User, NEW e \in Elem, e.id # Zero,
         NEW more, more[v] = Place(l, at), \A w \in User : w # v => more[w] = who[w]
  PROVE  /\ Chained(Taken(l, at, e)) /\ Owned(Taken(l, at, e), more)
         /\ Used(Taken(l, at, e)) = Used(l) \cup {Place(l, at)}
         /\ At(Taken(l, at, e), Place(l, at)) = e
         /\ Place(l, at) # Nowhere /\ Place(l, at) \in Nat \X Nat
         /\ \A w \in User : who[w] # Nowhere => At(Taken(l, at, e), who[w]) = At(l, who[w])
<1> DEFINE n == Taken(l, at, e)
           p == Place(l, at)
<1>1. /\ Chained(n) /\ Places(l) \subseteq Places(n) /\ p \in Places(n)
      /\ p \notin Used(l) /\ At(n, p) = e
      /\ \A q \in Places(l) : q # p => At(n, q) = At(l, q)
      /\ \A q \in Places(n) \ Places(l) : q # p => At(n, q).id = Zero
  BY TakenIn
<1>2. p # Nowhere /\ p \in Nat \X Nat
  <2> HIDE DEF n, p
  <2>. QED  BY <1>1, ElementAt
<1>3. more[v] = p
  OBVIOUS
<1> HIDE DEF n, p
<1>4. Used(n) = Used(l) \cup {p}
  BY <1>1 DEF Used
<1>5. \A w \in User : who[w] # Nowhere =>
        who[w] \in Used(l) /\ who[w] # p /\ At(n, who[w]) = At(l, who[w])
  BY <1>1 DEF Owned, Used
<1>6. \A w \in User : more[w] = Nowhere \/ more[w] \in Used(n)
  BY <1>3, <1>4, <1>5
<1>7. Distinct(more)
  BY <1>3, <1>5 DEF Distinct, Owned
<1>8. Owned(n, more)
  BY <1>6, <1>7 DEF Owned
<1>. QED  BY <1>1, <1>2, <1>4, <1>5, <1>8 DEF n, p

-----------------------------------------------------------------------------
(* Threads, users and their handles *)

LEMMA Services ==
  /\ Len(Program) \in Nat /\ Service = 1 .. Len(Program)
  /\ 0 \in Thread /\ 0 \notin Service
  /\ \A k \in Service : k \in Thread /\ k \in Nat /\ k # 0 /\ Program[k] \in Modes
  /\ \A k \in Service, n \in 0 .. MaxAccepts :
       /\ <<k, n>> \in User
       /\ <<k, n>> # Zero
       /\ <<k, n>> \in Nat \X Nat
  /\ \A v \in User : v[1] \in Service /\ v[2] \in 0 .. MaxAccepts /\ v = <<v[1], v[2]>>
  BY ServiceAssumption DEF Service, Thread, User, Zero

LEMMA Elements ==
  ASSUME NEW id \in {Zero, Invalid} \cup User, NEW nfd \in {<<>>} \cup (User \X Nat)
  PROVE  /\ Element(id, nfd) \in Elem
         /\ Element(id, nfd).id = id /\ Element(id, nfd).nfd = nfd
  BY DEF Element, Elem

LEMMA NoSocketIsEmpty ==
  ASSUME NEW s \in User \X Nat
  PROVE  s # <<>>
<1>1. s = <<s[1], s[2]>>
  OBVIOUS
<1>2. Len(<<s[1], s[2]>>) = 2 /\ Len(<<>>) = 0 /\ 2 # 0
  OBVIOUS
<1>. QED  BY <1>1, <1>2, Zenon

LEMMA NotInvalid ==
  /\ Invalid # Zero
  /\ \A v \in User : v # Zero /\ v # Invalid /\ v # Nowhere
  BY Services DEF Invalid, Zero, Nowhere

(* The main thread with a handle: no accept thread runs. *)
LEMMA MainHas ==
  ASSUME TypeOK, Handles, OneAppends, WhoHas, pc[0] \in Having
  PROVE  /\ svc \in Service /\ My \in User /\ Me(0) = My
         /\ hd[My] # Nowhere /\ pc[0] # "idle"
         /\ \A k \in Service : pc[k] = "idle"
         /\ Handle \in Elem /\ Handle.id # Zero
<1>1. pc[0] # "idle"
  BY DEF Having, Bound, Modes
<1>2. svc \in Service /\ \A k \in Service : pc[k] = "idle"
  BY <1>1 DEF OneAppends
<1>3. Me(0) = My /\ My \in User
  BY <1>2, Services, ServiceAssumption DEF Me, My
<1>4. hd[My] # Nowhere
  BY <1>3, Services DEF WhoHas
<1>5. hd[My] \in Used(hlist)
  BY <1>3, <1>4 DEF Handles, Owned
<1>6. Handle \in Elem /\ Handle.id # Zero
  BY <1>5, ElementAt DEF Used, Handles, Handle
<1>. QED  BY <1>1, <1>2, <1>3, <1>4, <1>6

(* The accept thread with an element: the main thread is done. *)
LEMMA ServerServes ==
  ASSUME TypeOK, OneAppends, NEW k \in Service, pc[k] \in Serving \cup {"accepting", "ended"}
  PROVE  /\ pc[0] = "idle" /\ svc = k /\ k = Len(Program)
         /\ Me(k) = <<k, conns[k]>> /\ Me(k) \in User
         /\ pc[k] \in Serving => conns[k] \in 1 .. MaxAccepts
         /\ \A j \in Service : j # k => pc[j] = "idle"
<1>1. pc[k] # "idle"
  BY DEF Serving, Taking
<1>2. /\ pc[0] = "idle" /\ svc = k /\ k = Len(Program)
      /\ pc[k] \in Serving => conns[k] >= 1
  BY <1>1 DEF OneAppends
<1>3. \A j \in Service : j # k => pc[j] = "idle"
  BY <1>2 DEF OneAppends
<1>4. conns[k] \in 0 .. MaxAccepts
  BY DEF TypeOK
<1>5. Me(k) = <<k, conns[k]>> /\ Me(k) \in User
  BY <1>4, Services DEF Me
<1>. QED  BY <1>2, <1>3, <1>4, <1>5, ServiceAssumption

LEMMA HandleWritten ==
  ASSUME TypeOK, Handles, NEW v \in User, hd[v] # Nowhere, NEW e \in Elem, e.id # Zero,
         hlist' = Put(hlist, hd[v], e), hd' = hd
  PROVE  /\ Handles' /\ HandleOf(v)' = e
         /\ \A w \in User : w # v /\ hd[w] # Nowhere => HandleOf(w)' = HandleOf(w)
<1>1. Chained(hlist) /\ hd \in [User -> Nat \X Nat] /\ Owned(hlist, hd)
  BY DEF TypeOK, Handles
<1>2. /\ Chained(hlist') /\ Owned(hlist', hd)
      /\ Used(hlist') = Used(hlist)
      /\ At(hlist', hd[v]) = e
      /\ \A w \in User : w # v /\ hd[w] # Nowhere => At(hlist', hd[w]) = At(hlist, hd[w])
  BY <1>1, WriteOwned
<1>3. Handles'
  BY <1>2 DEF Handles
<1>. QED  BY <1>2, <1>3 DEF HandleOf

LEMMA HandleRemoved ==
  ASSUME TypeOK, Handles, NEW v \in User, hd[v] # Nowhere, RemoveHandle(v)
  PROVE  /\ Handles' /\ hd' = [hd EXCEPT ![v] = Nowhere]
         /\ hd'[v] = Nowhere /\ \A w \in User : w # v => hd'[w] = hd[w]
         /\ \A w \in User : w # v /\ hd[w] # Nowhere => HandleOf(w)' = HandleOf(w)
<1> DEFINE e == Element(Zero, At(hlist, hd[v]).nfd)
<1>1. Chained(hlist) /\ hd \in [User -> Nat \X Nat] /\ Owned(hlist, hd)
  BY DEF TypeOK, Handles
<1>2. hd[v] \in Places(hlist)
  BY <1>1 DEF Owned, Used
<1>3. At(hlist, hd[v]).nfd \in {<<>>} \cup (User \X Nat)
  <2>1. At(hlist, hd[v]) \in Elem
    BY <1>1, <1>2, ElementAt
  <2>. QED  BY <2>1 DEF Elem
<1>4. e \in Elem /\ e.id = Zero
  BY <1>3, Elements
<1> HIDE DEF e
<1>5. hlist' = Put(hlist, hd[v], e) /\ hd' = [hd EXCEPT ![v] = Nowhere]
  BY DEF RemoveHandle, e
<1>6. /\ Chained(hlist') /\ Owned(hlist', hd')
      /\ Used(hlist') = Used(hlist) \ {hd[v]}
      /\ \A w \in User : w # v /\ hd[w] # Nowhere => At(hlist', hd[w]) = At(hlist, hd[w])
  <2> DEFINE n == Put(hlist, hd[v], e)
             rest == [hd EXCEPT ![v] = Nowhere]
  <2>1. /\ Chained(n) /\ Owned(n, rest) /\ Used(n) = Used(hlist) \ {hd[v]}
        /\ \A w \in User : w # v /\ hd[w] # Nowhere => At(n, hd[w]) = At(hlist, hd[w])
    <3>1. /\ rest \in [User -> Nat \X Nat] /\ rest[v] = Nowhere
          /\ \A w \in User : w # v => rest[w] = hd[w]
      BY <1>1 DEF Nowhere
    <3> HIDE DEF rest
    <3>. QED  BY <1>1, <1>4, <3>1, FreeOwned
  <2> HIDE DEF n, rest
  <2>2. hlist' = n /\ hd' = rest
    BY <1>5 DEF n, rest
  <2>. QED  BY <2>1, <2>2
<1>7. hd'[v] = Nowhere /\ \A w \in User : w # v => hd'[w] = hd[w]
  BY <1>1, <1>5
<1>8. \A place \in Used(hlist') : \E w \in User : hd'[w] = place
  BY <1>6, <1>7 DEF Handles
<1>9. Handles'
  BY <1>6, <1>8 DEF Handles
<1>. QED  BY <1>5, <1>6, <1>7, <1>9 DEF HandleOf

LEMMA HandleTaken ==
  ASSUME TypeOK, Handles, NEW v \in User, hd[v] = Nowhere, NEW at, Free(hlist, at),
         NEW e \in Elem, e.id # Zero,
         hlist' = Taken(hlist, at, e), hd' = [hd EXCEPT ![v] = Place(hlist, at)]
  PROVE  /\ Handles' /\ hd' \in [User -> Nat \X Nat]
         /\ hd'[v] # Nowhere /\ HandleOf(v)' = e
         /\ \A w \in User : w # v => hd'[w] = hd[w]
         /\ \A w \in User : hd[w] # Nowhere => HandleOf(w)' = HandleOf(w)
<1>1. Chained(hlist) /\ hd \in [User -> Nat \X Nat] /\ Owned(hlist, hd)
  BY DEF TypeOK, Handles
<1>2. /\ Chained(hlist') /\ Owned(hlist', hd')
      /\ Used(hlist') = Used(hlist) \cup {Place(hlist, at)}
      /\ At(hlist', Place(hlist, at)) = e
      /\ Place(hlist, at) # Nowhere /\ Place(hlist, at) \in Nat \X Nat
      /\ \A w \in User : hd[w] # Nowhere => At(hlist', hd[w]) = At(hlist, hd[w])
  <2> DEFINE n == Taken(hlist, at, e)
             p == Place(hlist, at)
             more == [hd EXCEPT ![v] = p]
  <2>1. /\ Chained(n) /\ Owned(n, more) /\ Used(n) = Used(hlist) \cup {p}
        /\ At(n, p) = e /\ p # Nowhere /\ p \in Nat \X Nat
        /\ \A w \in User : hd[w] # Nowhere => At(n, hd[w]) = At(hlist, hd[w])
    <3>1. more[v] = p /\ \A w \in User : w # v => more[w] = hd[w]
      BY <1>1
    <3> HIDE DEF more
    <3>. QED  BY <1>1, <3>1, TakeOwned
  <2> HIDE DEF n, more
  <2>2. hlist' = n /\ hd' = more
    BY DEF n, more
  <2>. QED  BY <2>1, <2>2
<1>3. hd'[v] = Place(hlist, at) /\ \A w \in User : w # v => hd'[w] = hd[w]
  BY <1>1
<1>4. hd' \in [User -> Nat \X Nat]
  BY <1>1, <1>2
<1>5. \A place \in Used(hlist') : \E w \in User : hd'[w] = place
  <2>1. ASSUME NEW place \in Used(hlist) PROVE \E w \in User : hd'[w] = place
    <3>1. PICK w \in User : hd[w] = place
      BY DEF Handles
    <3>2. place # Nowhere
      BY <1>1, ElementAt DEF Used
    <3>. QED  BY <1>3, <3>1, <3>2
  <2>. QED  BY <1>2, <1>3, <2>1
<1>6. Handles'
  BY <1>2, <1>5 DEF Handles
<1>7. \A w \in User : hd[w] # Nowhere => HandleOf(w)' = HandleOf(w)
  BY <1>2, <1>3 DEF HandleOf
<1>. QED  BY <1>2, <1>3, <1>4, <1>6, <1>7 DEF HandleOf

-----------------------------------------------------------------------------
(* A step of the main thread in a creation, other than those that take an  *)
(* element, leaves the other users alone.                                  *)
OthersKept == /\ svc' = svc /\ conns' = conns
              /\ ilist' = ilist /\ data' = data /\ found' = found
              /\ \A w \in User : w # My =>
                   hd'[w] = hd[w] /\ (hd[w] # Nowhere => HandleOf(w)' = HandleOf(w))
              /\ \A k \in Service : k # svc => ret'[k] = ret[k] /\ SocketsOf(k)' = SocketsOf(k)
              /\ \A s \in open : s[1] # My => s \in open'

(* What the invariant says of the service under creation *)
MineReturned == /\ ret[svc] = "ok" => hd[My] # Nowhere /\ Mode # "udp"
                /\ pc[0] # "idle" => \/ ret[svc] = "none"
                                     \/ Mode = "mc" /\ pc[0] \in {"joined", "findData", "post"}
MineHas == /\ pc[0] \in Having => hd[My] # Nowhere
           /\ pc[0] \in {"joined", "findData"} => Handle.id = My
MineSockets ==
  /\ pc[0] = "idle" => SocketsOf(svc) = IF ret[svc] = "ok" THEN {Handle.nfd} ELSE {}
  /\ pc[0] \in {"resolve", "bind"} => SocketsOf(svc) = {}
  /\ pc[0] = "resolve" => Handle.nfd = <<>>
  /\ pc[0] \in Bound => SocketsOf(svc) = {Handle.nfd}

LEMMA MainSteps ==
  ASSUME IInv, pc[0] \in Having, OthersKept,
         NEW to, to \in {"idle"} \cup (Having \ {"accept", "post"}),
         pc' = [pc EXCEPT ![0] = to],
         TypeOK', Handles', ModeOf', MineReturned', MineHas', MineSockets'
  PROVE  IInv'
<1>0. /\ TypeOK /\ Handles /\ Data /\ OneAppends /\ ModeOf /\ Returned /\ WhoHas
      /\ Finding /\ Attached /\ Sockets /\ Receives
  BY DEF IInv
<1>1. /\ svc \in Service /\ My \in User /\ \A k \in Service : pc[k] = "idle"
      /\ Me(0) = My
  BY <1>0, MainHas
<1>2. /\ svc' = svc /\ conns' = conns /\ My' = My
      /\ ilist' = ilist /\ data' = data /\ found' = found
  BY DEF OthersKept, My
<1>3. \A k \in Service : k # svc => <<k, 0>> # My /\ <<k, 0>> \in User
  BY Services, ServiceAssumption DEF My
<1>4. pc'[0] = to /\ \A k \in Service : pc'[k] = "idle"
  BY <1>0, <1>1, Services DEF TypeOK
<1>5. \A k \in Service : k # svc =>
        /\ ret'[k] = ret[k] /\ SocketsOf(k)' = SocketsOf(k)
        /\ hd'[<<k, 0>>] = hd[<<k, 0>>]
        /\ hd[<<k, 0>>] # Nowhere => At(hlist', hd'[<<k, 0>>]) = At(hlist, hd[<<k, 0>>])
  BY <1>3 DEF OthersKept, HandleOf
<1>6. Data'
  BY <1>0, <1>2 DEF Data
<1>7. OneAppends'
  <2>1. to # "idle" => to \in Taking \cup (Having \ {"accept"})
    OBVIOUS
  <2>. QED  BY <1>1, <1>2, <1>4, <2>1 DEF OneAppends
<1>8. Returned'
  <2>1. ASSUME NEW k \in Service, k > svc PROVE ret'[k] = "none"
    <3>1. k # svc
      BY <1>1, <2>1, Services
    <3>. QED  BY <1>0, <1>5, <2>1, <3>1 DEF Returned
  <2>2. ASSUME NEW k \in Service, ret'[k] = "ok" PROVE hd'[<<k, 0>>] # Nowhere
    <3>1. CASE k # svc
      BY <1>0, <1>5, <2>2, <3>1 DEF Returned
    <3>2. CASE k = svc
      BY <1>2, <2>2, <3>2 DEF MineReturned, My
    <3>. QED  BY <3>1, <3>2
  <2>. QED  BY <1>2, <2>1, <2>2 DEF Returned, MineReturned
<1>9. WhoHas'
  <2>1. ASSUME NEW k \in Service, k > svc PROVE hd'[<<k, 0>>] = Nowhere
    <3>1. k # svc
      BY <1>1, <2>1, Services
    <3>. QED  BY <1>0, <1>5, <2>1, <3>1 DEF WhoHas
  <2>2. ASSUME NEW k \in Service, NEW n \in 1 .. MaxAccepts, n > conns[k]
        PROVE  hd'[<<k, n>>] = Nowhere
    <3>1. <<k, n>> # My /\ <<k, n>> \in User
      BY Services, ServiceAssumption DEF My
    <3>2. hd[<<k, n>>] = Nowhere
      BY <1>0, <2>2 DEF WhoHas
    <3>. QED  BY <3>1, <3>2 DEF OthersKept
  <2>3. Me(0)' = My'
    BY DEF Me, My
  <2>4. to \notin Taking
    BY DEF Taking, Having, Bound, Modes
  <2>5. \A k \in Service : pc'[k] \notin Taking /\ pc'[k] \notin Having
    BY <1>4 DEF Taking, Having, Bound, Modes
  <2>6. \A p \in Thread : p = 0 \/ p \in Service
    BY DEF Thread
  <2>. QED  BY <1>2, <1>4, <2>1, <2>2, <2>3, <2>4, <2>5, <2>6 DEF WhoHas, MineHas
<1>10. Finding'
  <2>1. \A p \in Thread : pc'[p] # "takeHandle" /\ pc'[p] # "post"
    BY <1>4 DEF Thread, Having, Bound, Modes
  <2>. QED  BY <2>1 DEF Finding
<1>11. Attached'
  <2>1. \A p \in Thread : pc'[p] \in {"joined", "findData", "post"} =>
          p = 0 /\ pc'[0] \in {"joined", "findData"}
    BY <1>4 DEF Thread
  <2>2. Me(0)' = My' /\ HandleOf(Me(0))' = Handle'
    BY DEF Me, My, HandleOf, Handle
  <2>. QED  BY <2>1, <2>2 DEF Attached, MineHas
<1>12. SocketsClosed'
  <2>1. \A k \in Service : k # svc =>
          SocketsOf(k)' = IF ret'[k] = "ok" THEN {At(hlist', hd'[<<k, 0>>]).nfd} ELSE {}
    BY <1>0, <1>5 DEF Sockets, SocketsClosed, Returned
  <2>2. pc'[0] = "idle" =>
          SocketsOf(svc)' = IF ret'[svc] = "ok" THEN {At(hlist', hd'[<<svc, 0>>]).nfd} ELSE {}
    BY <1>2 DEF MineSockets, My, Handle, SocketsOf
  <2>. QED  BY <1>2, <2>1, <2>2 DEF SocketsClosed
<1>13. Sockets'
  <2>1. pc'[0] \notin Taking
    BY <1>4 DEF Taking, Having, Bound, Modes
  <2>. QED  BY <1>12, <2>1 DEF Sockets, MineSockets
<1>14. Receives'
  <2>1. data[My] = Nowhere
    BY <1>0, <1>1, Services DEF Receives
  <2>2. ASSUME NEW k \in Service, ret'[k] = "ok", Program[k] = "udp"
        PROVE  data[<<k, 0>>] # Nowhere
    <3>1. k # svc
      BY <1>2, <2>2 DEF MineReturned, Mode
    <3>. QED  BY <1>0, <1>5, <2>2, <3>1 DEF Receives
  <2>3. ASSUME NEW w \in User, data[w] # Nowhere
        PROVE  /\ At(ilist, data[w]).id = w /\ hd'[w] # Nowhere
               /\ HandleOf(w)'.id = w /\ HasSocket(w)'
    <3>1. w # My
      BY <2>1, <2>3
    <3>2. At(ilist, data[w]).id = w /\ hd[w] # Nowhere /\ HandleOf(w).id = w /\ HasSocket(w)
      BY <1>0, <2>3 DEF Receives
    <3>3. hd'[w] = hd[w] /\ HandleOf(w)' = HandleOf(w)
      BY <3>1, <3>2 DEF OthersKept
    <3>4. HasSocket(w)'
      BY <3>1, <3>2, <3>3 DEF OthersKept, HasSocket
    <3>. QED  BY <3>2, <3>3, <3>4
  <2>4. Me(0)' = My
    BY <1>2 DEF Me, My
  <2>5. \A p \in Thread : p = 0 \/ pc'[p] \notin Having \cup {"findData", "post"}
    BY <1>4 DEF Thread, Having, Bound, Modes
  <2>6. \A p \in Service : p # 0
    BY Services
  <2>. QED  BY <1>2, <2>1, <2>2, <2>3, <2>4, <2>5, <2>6 DEF Receives, Thread
<1>. QED  BY <1>6, <1>7, <1>8, <1>9, <1>10, <1>11, <1>13, <1>14 DEF IInv

-----------------------------------------------------------------------------
(* The steps of a creation *)

LEMMA HandleSame ==
  ASSUME Handles, hlist' = hlist, hd' = hd
  PROVE  Handles' /\ \A w \in User : hd'[w] = hd[w] /\ HandleOf(w)' = HandleOf(w)
<1>1. Handles'
  BY DEF Handles
<1>. QED  BY <1>1 DEF HandleOf

LEMMA MineWritten ==
  ASSUME IInv, pc[0] \in Having, NEW e \in Elem, e.id # Zero, Write(e),
         hd' = hd, svc' = svc
  PROVE  /\ Handles' /\ Handle' = e
         /\ \A w \in User : w # My =>
              hd'[w] = hd[w] /\ (hd[w] # Nowhere => HandleOf(w)' = HandleOf(w))
<1>1. TypeOK /\ Handles /\ My \in User /\ hd[My] # Nowhere
  BY MainHas DEF IInv
<1>2. PICK v \in User : v = My
  BY <1>1
<1>3. hlist' = Put(hlist, hd[v], e) /\ hd[v] # Nowhere
  BY <1>1, <1>2 DEF Write
<1>4. /\ Handles' /\ HandleOf(v)' = e
      /\ \A w \in User : w # v /\ hd[w] # Nowhere => HandleOf(w)' = HandleOf(w)
  BY <1>1, <1>3, HandleWritten
<1>5. Handle' = HandleOf(v)'
  BY <1>2 DEF Handle, HandleOf, My
<1>. QED  BY <1>2, <1>4, <1>5

LEMMA SocketsSame ==
  ASSUME open' = open
  PROVE  \A k \in Service : SocketsOf(k)' = SocketsOf(k)
  BY DEF SocketsOf

(* Closing the socket at hand leaves the creation without one. *)
LEMMA SocketsClosing ==
  ASSUME IInv, pc[0] \in Bound \cup {"resolve"}, open' = open \ {Handle.nfd}
  PROVE  /\ open' \in SUBSET (User \X Nat)
         /\ \A k \in Service : k # svc => SocketsOf(k)' = SocketsOf(k)
         /\ SocketsOf(svc)' = {} \/ svc' # svc
         /\ \A s \in open : s[1] # My => s \in open'
<1>0. TypeOK /\ Sockets /\ svc \in Service
  BY MainHas DEF IInv, Having
<1>1. open' \in SUBSET (User \X Nat)
  BY <1>0 DEF TypeOK
<1>2. CASE pc[0] \in Bound
  <2>1. SocketsOf(svc) = {Handle.nfd}
    BY <1>0, <1>2 DEF Sockets
  <2>2. Handle.nfd[1] = <<svc, 0>>
    BY <2>1 DEF SocketsOf
  <2>3. \A k \in Service : k # svc => <<k, 0>> # <<svc, 0>>
    OBVIOUS
  <2>4. \A s \in open : s[1] # My => s \in open'
    BY <2>2 DEF My
  <2>. QED  BY <1>1, <2>1, <2>2, <2>3, <2>4 DEF SocketsOf
<1>3. CASE pc[0] = "resolve"
  <2>1. SocketsOf(svc) = {} /\ Handle.nfd = <<>>
    BY <1>0, <1>3 DEF Sockets
  <2>2. <<>> \notin open
    BY <1>0, NoSocketIsEmpty DEF TypeOK
  <2>3. open' = open
    BY <2>1, <2>2
  <2>. QED  BY <1>1, <2>1, <2>3 DEF SocketsOf
<1>. QED  BY <1>2, <1>3

LEMMA AbortSteps ==
  ASSUME IInv, NEW from \in {"resolve", "udp", "joined", "client", "connect"},
         Abort(from), svc' = svc, conns' = conns,
         left' \in 0 .. Addrs, rleft' \in 0 .. Addrs
  PROVE  IInv'
<1> DEFINE to == "idle"
<1>0. TypeOK /\ Handles /\ OneAppends /\ WhoHas
  BY DEF IInv
<1>1. /\ pc[0] = from /\ pc' = [pc EXCEPT ![0] = to]
      /\ ret' = [ret EXCEPT ![svc] = "failed"]
      /\ RemoveHandle(My) /\ open' = open \ {Handle.nfd}
      /\ ilist' = ilist /\ data' = data /\ found' = found
  BY DEF Abort, Return, Goto
<1>2. pc[0] \in Having /\ pc[0] \in Bound \cup {"resolve"}
  BY <1>1 DEF Having, Bound, Modes
<1>3. /\ svc \in Service /\ My \in User /\ hd[My] # Nowhere
      /\ My' = My
  BY <1>0, <1>2, MainHas DEF My
<1>4. /\ Handles' /\ hd' = [hd EXCEPT ![My] = Nowhere]
      /\ \A w \in User : w # My => hd'[w] = hd[w]
      /\ \A w \in User : w # My /\ hd[w] # Nowhere => HandleOf(w)' = HandleOf(w)
  BY <1>0, <1>1, <1>3, HandleRemoved
<1>5. /\ open' \in SUBSET (User \X Nat)
      /\ \A k \in Service : k # svc => SocketsOf(k)' = SocketsOf(k)
      /\ SocketsOf(svc)' = {}
      /\ \A s \in open : s[1] # My => s \in open'
  BY <1>1, <1>2, SocketsClosing
<1>6. ret'[svc] = "failed" /\ \A k \in Service : k # svc => ret'[k] = ret[k]
  BY <1>0, <1>1, <1>3 DEF TypeOK
<1>7. pc'[0] = "idle"
  BY <1>0, <1>1, Services DEF TypeOK
<1>8. TypeOK'
  <2>1. hd' \in [User -> Nat \X Nat]
    BY <1>0, <1>4 DEF TypeOK, Nowhere
  <2>2. pc' \in [Thread -> {"idle", "accepting", "ended"} \cup Taking \cup Having]
    BY <1>0, <1>1 DEF TypeOK
  <2>3. ret' \in [Service -> {"none", "ok", "failed", "noaddress"}]
    BY <1>0, <1>1 DEF TypeOK
  <2>. QED  BY <1>0, <1>1, <1>5, <2>1, <2>2, <2>3 DEF TypeOK
<1>9. OthersKept
  BY <1>1, <1>4, <1>5, <1>6 DEF OthersKept
<1>10. ModeOf'
  BY <1>7 DEF ModeOf, Modes
<1>11. MineReturned' /\ MineHas' /\ MineSockets'
  <2>1. pc'[0] \notin Having /\ pc'[0] \notin Bound /\ pc'[0] \notin {"joined", "findData"}
    BY <1>7 DEF Having, Bound, Modes
  <2>. QED  BY <1>5, <1>6, <1>7, <2>1 DEF MineReturned, MineHas, MineSockets
<1>. QED  BY <1>1, <1>2, <1>4, <1>8, <1>9, <1>10, <1>11, MainSteps

(* Where the main thread goes *)
LEMMA MainGoes ==
  ASSUME TypeOK, NEW from, NEW to, Goto(0, from, to),
         to \in {"idle", "accepting", "ended"} \cup Taking \cup Having
  PROVE  /\ pc[0] = from /\ pc'[0] = to /\ pc' = [pc EXCEPT ![0] = to]
         /\ pc' \in [Thread -> {"idle", "accepting", "ended"} \cup Taking \cup Having]
  BY Services DEF Goto, TypeOK

LEMMA WhereMainIs ==
  /\ Modes \subseteq Bound /\ Bound \subseteq Having /\ "accept" \notin Bound
  /\ {"resolve", "bind"} \subseteq Having
  /\ {"connect", "joined", "findData", "post"} \subseteq Bound
  /\ "idle" \notin Having /\ "resolve" \notin Bound /\ "bind" \notin Bound
  /\ "idle" \notin Bound
  /\ \A m \in Modes : m \notin {"resolve", "bind", "connect", "joined", "findData", "post", "idle"}
  BY DEF Having, Bound, Modes

LEMMA AttachSteps ==
  ASSUME IInv, NEW from \in {"udp", "connect"}, Attach(from), Same
  PROVE  IInv'
<1> DEFINE to == "findData"
           e == Element(My, Handle.nfd)
<1>0. /\ TypeOK /\ Handles /\ OneAppends /\ WhoHas /\ Returned /\ Sockets
  BY DEF IInv
<1>1. /\ Goto(0, from, to) /\ Write(e)
      /\ ilist' = ilist /\ hd' = hd /\ data' = data /\ found' = found
      /\ open' = open /\ ret' = ret
      /\ svc' = svc /\ left' = left /\ rleft' = rleft /\ conns' = conns
  BY DEF Attach, Same
<1>2. /\ pc[0] = from /\ pc'[0] = to /\ pc' = [pc EXCEPT ![0] = to]
      /\ pc' \in [Thread -> {"idle", "accepting", "ended"} \cup Taking \cup Having]
  <2>1. to \in Having
    BY WhereMainIs
  <2>. QED  BY <1>0, <1>1, <2>1, MainGoes
<1>3. pc[0] \in Having /\ pc[0] \in Bound /\ pc[0] # "idle"
  BY <1>2, WhereMainIs DEF Modes
<1>4. /\ svc \in Service /\ My \in User /\ hd[My] # Nowhere /\ Handle \in Elem
      /\ My' = My
  BY <1>0, <1>1, <1>3, MainHas DEF My
<1>5. e \in Elem /\ e.id = My /\ e.nfd = Handle.nfd /\ e.id # Zero
  <2>1. Handle.nfd \in {<<>>} \cup (User \X Nat)
    BY <1>4 DEF Elem
  <2>. QED  BY <1>4, <2>1, Elements, NotInvalid
<1> HIDE DEF e
<1>6. /\ Handles' /\ Handle' = e
      /\ \A w \in User : w # My =>
           hd'[w] = hd[w] /\ (hd[w] # Nowhere => HandleOf(w)' = HandleOf(w))
  BY <1>1, <1>3, <1>5, MineWritten
<1>7. \A k \in Service : SocketsOf(k)' = SocketsOf(k)
  BY <1>1, SocketsSame
<1>8. TypeOK'
  BY <1>0, <1>1, <1>2 DEF TypeOK
<1>9. OthersKept
  BY <1>1, <1>6, <1>7 DEF OthersKept
<1>10. ModeOf'
  BY <1>2, WhereMainIs DEF ModeOf, Modes
<1>11. MineReturned'
  BY <1>0, <1>1, <1>2, <1>3 DEF MineReturned, Returned
<1>12. MineHas'
  BY <1>1, <1>4, <1>5, <1>6 DEF MineHas
<1>13. MineSockets'
  <2>1. SocketsOf(svc)' = {Handle.nfd}'
    BY <1>0, <1>1, <1>3, <1>4, <1>5, <1>6, <1>7 DEF Sockets, SocketsOf
  <2>. QED  BY <1>2, <2>1 DEF MineSockets
<1>14. to \in {"idle"} \cup (Having \ {"accept", "post"})
  BY WhereMainIs
<1>. QED
  BY <1>2, <1>3, <1>6, <1>8, <1>9, <1>10, <1>11, <1>12, <1>13, <1>14, MainSteps

(* Steps that touch neither handles nor sockets *)
LEMMA QuietSteps ==
  ASSUME IInv, pc[0] \in Having, NEW from, NEW to, Goto(0, from, to),
         to \in {"idle"} \cup (Having \ {"accept", "post"}),
         UNCHANGED <<lists, open, svc, conns>>,
         left' \in 0 .. Addrs, rleft' \in 0 .. Addrs,
         ret' \in [Service -> {"none", "ok", "failed", "noaddress"}],
         \A k \in Service : k # svc => ret'[k] = ret[k],
         ModeOf', MineReturned', to = "findData" => pc[0] = "joined", to # "joined",
         to = "idle" => SocketsOf(svc) = IF ret'[svc] = "ok" THEN {Handle.nfd} ELSE {},
         to = "bind" => pc[0] = "resolve", to # "resolve",
         to \in Bound => pc[0] \in Bound
  PROVE  IInv'
<1>0. /\ TypeOK /\ Handles /\ OneAppends /\ WhoHas /\ Attached /\ Sockets
  BY DEF IInv
<1>1. /\ pc[0] = from /\ pc'[0] = to /\ pc' = [pc EXCEPT ![0] = to]
      /\ pc' \in [Thread -> {"idle", "accepting", "ended"} \cup Taking \cup Having]
  BY <1>0, MainGoes
<1>2. /\ hlist' = hlist /\ hd' = hd /\ ilist' = ilist /\ data' = data /\ found' = found
      /\ open' = open /\ svc' = svc /\ conns' = conns /\ My' = My /\ Handle' = Handle
  BY DEF lists, My, Handle
<1>3. svc \in Service /\ My \in User /\ hd[My] # Nowhere /\ Me(0) = My
  BY <1>0, MainHas
<1>4. Handles' /\ \A w \in User : hd'[w] = hd[w] /\ HandleOf(w)' = HandleOf(w)
  BY <1>0, <1>2, HandleSame
<1>5. \A k \in Service : SocketsOf(k)' = SocketsOf(k)
  BY <1>2, SocketsSame
<1>6. TypeOK'
  BY <1>0, <1>1, <1>2 DEF TypeOK
<1>7. OthersKept
  BY <1>2, <1>4, <1>5 DEF OthersKept
<1>8. MineHas'
  <2>1. pc[0] = "joined" => Handle.id = My
    BY <1>0, <1>3, Services DEF Attached, Handle, HandleOf
  <2>. QED  BY <1>1, <1>2, <1>3, <2>1 DEF MineHas
<1>9. MineSockets'
  <2>1. SocketsOf(svc)' = SocketsOf(svc)
    BY <1>2 DEF SocketsOf
  <2>2. to = "bind" => SocketsOf(svc) = {}
    BY <1>0 DEF Sockets
  <2>3. to \in Bound => SocketsOf(svc) = {Handle.nfd}
    BY <1>0 DEF Sockets
  <2>. QED  BY <1>1, <1>2, <2>1, <2>2, <2>3 DEF MineSockets
<1>. QED  BY <1>1, <1>4, <1>6, <1>7, <1>8, <1>9, MainSteps

LEMMA ResolveSteps ==
  ASSUME IInv, Resolve
  PROVE  IInv'
<1> DEFINE from == "resolve"
           to == "bind"
<1>0. TypeOK /\ Returned /\ svc' = svc /\ conns' = conns /\ rleft' = rleft
  BY DEF Resolve, IInv
<1>1. CASE Abort(from) /\ UNCHANGED left
  BY <1>0, <1>1, AbortSteps DEF TypeOK
<1>2. CASE Goto(0, from, to) /\ left' = Addrs /\ UNCHANGED <<lists, open, ret>>
  <2>1. pc[0] = from /\ pc'[0] = to
    BY <1>0, <1>2, MainGoes, WhereMainIs
  <2>2. UNCHANGED <<lists, open, svc, conns>> /\ ret' = ret
    BY <1>0, <1>2 DEF lists
  <2>3. ModeOf'
    BY <2>1, WhereMainIs DEF ModeOf
  <2>4. MineReturned'
    BY <1>0, <2>1, <2>2 DEF MineReturned, Returned
  <2>5. left' \in 0 .. Addrs /\ rleft' \in 0 .. Addrs
    BY <1>0, <1>2, ServiceAssumption DEF TypeOK
  <2>. QED
    BY <1>0, <1>2, <2>1, <2>2, <2>3, <2>4, <2>5, QuietSteps, WhereMainIs DEF TypeOK
<1>. QED  BY <1>1, <1>2 DEF Resolve

LEMMA NoAddressSteps ==
  ASSUME IInv, NoAddress
  PROVE  IInv'
<1> DEFINE from == "bind"
           to == "idle"
<1>0. TypeOK /\ Returned /\ Sockets /\ OneAppends
  BY DEF IInv
<1>1. /\ Goto(0, from, to) /\ ret' = [ret EXCEPT ![svc] = "noaddress"]
      /\ UNCHANGED <<lists, open, svc, conns>> /\ left' = left /\ rleft' = rleft
  BY DEF NoAddress, Return, lists
<1>2. pc[0] = from /\ pc'[0] = to
  BY <1>0, <1>1, MainGoes
<1>3. svc \in Service /\ svc' = svc
  BY <1>0, <1>1, <1>2 DEF OneAppends
<1>4. /\ ret' \in [Service -> {"none", "ok", "failed", "noaddress"}]
      /\ ret'[svc] = "noaddress" /\ \A k \in Service : k # svc => ret'[k] = ret[k]
  BY <1>0, <1>1, <1>3 DEF TypeOK
<1>5. ModeOf'
  BY <1>2, WhereMainIs DEF ModeOf
<1>6. MineReturned'
  BY <1>2, <1>3, <1>4 DEF MineReturned
<1>7. SocketsOf(svc) = {}
  BY <1>0, <1>2 DEF Sockets
<1>8. left' \in 0 .. Addrs /\ rleft' \in 0 .. Addrs
  BY <1>0, <1>1 DEF TypeOK
<1>. QED
  BY <1>0, <1>1, <1>2, <1>3, <1>4, <1>5, <1>6, <1>7, <1>8, QuietSteps, WhereMainIs

LEMMA BindHandleCpSteps ==
  ASSUME IInv, BindHandleCp
  PROVE  IInv'
<1> DEFINE from == "joined"
<1>0. /\ TypeOK /\ Returned /\ Sockets /\ ModeOf /\ OneAppends
      /\ svc' = svc /\ conns' = conns /\ rleft' = rleft /\ left' = left
  BY DEF BindHandleCp, Same, IInv
<1>1. CASE Abort(from)
  BY <1>0, <1>1, AbortSteps DEF TypeOK
<1>2. ASSUME NEW to \in {"findData", "idle"}, Goto(0, from, to),
             UNCHANGED <<lists, open, ret>>
      PROVE  IInv'
  <2>1. pc[0] = from /\ pc'[0] = to
    BY <1>0, <1>2, MainGoes, WhereMainIs
  <2>2. UNCHANGED <<lists, open, svc, conns>> /\ ret' = ret
    BY <1>0, <1>2 DEF lists
  <2>3. ModeOf'
    BY <2>1, WhereMainIs DEF ModeOf
  <2>4. Mode = "mc" /\ ret[svc] = "ok" /\ svc \in Service
    BY <1>0, <2>1 DEF ModeOf, OneAppends
  <2>5. MineReturned'
    <3>1. hd[My] # Nowhere
      BY <1>0, <2>4 DEF Returned, My
    <3>2. hd'[My'] # Nowhere /\ Mode' = "mc"
      BY <1>0, <2>2, <2>4, <3>1 DEF Mode, lists, My
    <3>. QED  BY <1>0, <2>1, <2>4, <3>2, <1>2 DEF MineReturned
  <2>6. SocketsOf(svc) = {Handle.nfd}
    BY <1>0, <2>1, WhereMainIs DEF Sockets
  <2>7. left' \in 0 .. Addrs /\ rleft' \in 0 .. Addrs
    BY <1>0 DEF TypeOK
  <2>. QED
    BY <1>0, <1>2, <2>1, <2>2, <2>3, <2>4, <2>5, <2>6, <2>7, QuietSteps, WhereMainIs DEF TypeOK
<1>. QED  BY <1>1, <1>2 DEF BindHandleCp

LEMMA UdpSteps ==
  ASSUME IInv, Udp
  PROVE  IInv'
<1> DEFINE from == "udp"
<1>1. CASE Abort(from)
  BY <1>1, AbortSteps DEF Udp, Same, IInv, TypeOK
<1>2. CASE Attach(from)
  BY <1>2, AttachSteps DEF Udp
<1>. QED  BY <1>1, <1>2 DEF Udp

LEMMA ResolveRemoteSteps ==
  ASSUME IInv, ResolveRemote
  PROVE  IInv'
<1> DEFINE from == "client"
           to == "connect"
<1>0. /\ TypeOK /\ Returned /\ ModeOf
      /\ svc' = svc /\ conns' = conns /\ left' = left
  BY DEF ResolveRemote, IInv
<1>1. CASE Abort(from) /\ UNCHANGED rleft
  BY <1>0, <1>1, AbortSteps DEF TypeOK
<1>2. CASE Goto(0, from, to) /\ rleft' = Addrs /\ UNCHANGED <<lists, open, ret>>
  <2>1. pc[0] = from /\ pc'[0] = to
    BY <1>0, <1>2, MainGoes, WhereMainIs
  <2>2. UNCHANGED <<lists, open, svc, conns>> /\ ret' = ret /\ Mode' = Mode
    BY <1>0, <1>2 DEF lists, Mode
  <2>3. Mode = "client"
    BY <1>0, <2>1 DEF ModeOf, Modes
  <2>4. ModeOf'
    BY <2>1, <2>2, <2>3, WhereMainIs DEF ModeOf
  <2>5. MineReturned'
    BY <1>0, <2>1, <2>2, <2>3 DEF MineReturned, Returned
  <2>6. left' \in 0 .. Addrs /\ rleft' \in 0 .. Addrs
    BY <1>0, <1>2, ServiceAssumption DEF TypeOK
  <2>7. pc[0] \in Bound /\ pc[0] \in Having
    BY <2>1, WhereMainIs DEF Modes
  <2>. QED
    BY <1>0, <1>2, <2>1, <2>2, <2>4, <2>5, <2>6, <2>7, QuietSteps, WhereMainIs DEF TypeOK
<1>. QED  BY <1>1, <1>2 DEF ResolveRemote

LEMMA ConnectSteps ==
  ASSUME IInv, Connect
  PROVE  IInv'
<1> DEFINE from == "connect"
<1>0. /\ TypeOK /\ Returned /\ ModeOf
      /\ svc' = svc /\ conns' = conns /\ left' = left /\ rleft > 0
  BY DEF Connect, IInv
<1>1. CASE Abort(from) /\ UNCHANGED rleft
  BY <1>0, <1>1, AbortSteps DEF TypeOK
<1>2. CASE Attach(from) /\ UNCHANGED rleft
  BY <1>0, <1>2, AttachSteps DEF Same
<1>3. CASE Goto(0, from, from) /\ rleft' = rleft - 1 /\ UNCHANGED <<lists, open, ret>>
  <2>1. pc[0] = from /\ pc'[0] = from
    BY <1>0, <1>3, MainGoes, WhereMainIs
  <2>2. UNCHANGED <<lists, open, svc, conns>> /\ ret' = ret /\ Mode' = Mode
    BY <1>0, <1>3 DEF lists, Mode
  <2>3. Mode = "client"
    BY <1>0, <2>1 DEF ModeOf
  <2>4. ModeOf'
    BY <2>1, <2>2, <2>3, WhereMainIs DEF ModeOf
  <2>5. MineReturned'
    BY <1>0, <2>1, <2>2, <2>3 DEF MineReturned, Returned
  <2>6. left' \in 0 .. Addrs /\ rleft' \in 0 .. Addrs
    BY <1>0, <1>3, ServiceAssumption DEF TypeOK
  <2>. QED
    BY <1>0, <1>3, <2>1, <2>2, <2>4, <2>5, <2>6, QuietSteps, WhereMainIs DEF TypeOK
<1>. QED  BY <1>1, <1>2, <1>3 DEF Connect

LEMMA UnconnectedSteps ==
  ASSUME IInv, Unconnected
  PROVE  IInv'
<1> DEFINE from == "connect"
           to == "idle"
<1>0. /\ TypeOK /\ Handles /\ OneAppends /\ WhoHas /\ Sockets /\ ModeOf
  BY DEF IInv
<1>1. /\ Goto(0, from, to) /\ ret' = [ret EXCEPT ![svc] = "ok"]
      /\ UNCHANGED <<lists, open, svc, conns>> /\ left' = left /\ rleft' = rleft
  BY DEF Unconnected, Same, Return, lists
<1>2. pc[0] = from /\ pc'[0] = to
  BY <1>0, <1>1, MainGoes
<1>3. svc \in Service /\ svc' = svc /\ hd[My] # Nowhere /\ Mode = "client"
  BY <1>0, <1>1, <1>2, MainHas, WhereMainIs DEF ModeOf
<1>4. /\ ret' \in [Service -> {"none", "ok", "failed", "noaddress"}]
      /\ ret'[svc] = "ok" /\ \A k \in Service : k # svc => ret'[k] = ret[k]
  BY <1>0, <1>1, <1>3 DEF TypeOK
<1>5. ModeOf'
  BY <1>2, WhereMainIs DEF ModeOf
<1>6. MineReturned'
  <2>1. hd' = hd /\ My' = My /\ Mode' = Mode
    BY <1>1 DEF lists, My, Mode
  <2>. QED  BY <1>2, <1>3, <2>1 DEF MineReturned
<1>7. SocketsOf(svc) = {Handle.nfd}
  BY <1>0, <1>2, WhereMainIs DEF Sockets
<1>8. left' \in 0 .. Addrs /\ rleft' \in 0 .. Addrs
  BY <1>0, <1>1 DEF TypeOK
<1>. QED
  BY <1>0, <1>1, <1>2, <1>3, <1>4, <1>5, <1>6, <1>7, <1>8, QuietSteps, WhereMainIs

LEMMA NextAddressSteps ==
  ASSUME IInv, NEW from \in {"mc", "server"}, NextAddress(from), Same
  PROVE  IInv'
<1> DEFINE to == "bind"
<1>0. /\ TypeOK /\ Handles /\ OneAppends /\ WhoHas /\ Returned
  BY DEF IInv
<1>1. /\ Goto(0, from, to) /\ open' = open \ {Handle.nfd}
      /\ hlist' = hlist /\ hd' = hd /\ ilist' = ilist /\ data' = data /\ found' = found
      /\ ret' = ret /\ svc' = svc /\ left' = left /\ rleft' = rleft /\ conns' = conns
  BY DEF NextAddress, Same, lists
<1>2. /\ pc[0] = from /\ pc'[0] = to /\ pc' = [pc EXCEPT ![0] = to]
      /\ pc' \in [Thread -> {"idle", "accepting", "ended"} \cup Taking \cup Having]
  BY <1>0, <1>1, MainGoes, WhereMainIs
<1>3. pc[0] \in Having /\ pc[0] \in Bound /\ pc[0] # "idle"
  BY <1>2, WhereMainIs DEF Modes
<1>4. svc \in Service /\ hd[My] # Nowhere /\ My' = My
  BY <1>0, <1>1, <1>3, MainHas DEF My
<1>5. Handles' /\ \A w \in User : hd'[w] = hd[w] /\ HandleOf(w)' = HandleOf(w)
  BY <1>0, <1>1, HandleSame
<1>6. /\ open' \in SUBSET (User \X Nat)
      /\ \A k \in Service : k # svc => SocketsOf(k)' = SocketsOf(k)
      /\ SocketsOf(svc)' = {}
      /\ \A s \in open : s[1] # My => s \in open'
  BY <1>1, <1>3, SocketsClosing
<1>7. TypeOK'
  BY <1>0, <1>1, <1>2, <1>6 DEF TypeOK
<1>8. OthersKept
  BY <1>1, <1>5, <1>6 DEF OthersKept
<1>9. ModeOf'
  BY <1>2, WhereMainIs DEF ModeOf
<1>10. MineReturned'
  BY <1>0, <1>1, <1>2, <1>3 DEF MineReturned, Returned
<1>11. MineHas'
  BY <1>1, <1>2, <1>4 DEF MineHas
<1>12. MineSockets'
  BY <1>2, <1>6, WhereMainIs DEF MineSockets
<1>. QED
  BY <1>2, <1>3, <1>5, <1>7, <1>8, <1>9, <1>10, <1>11, <1>12, MainSteps, WhereMainIs

LEMMA JoinSteps ==
  ASSUME IInv, Join
  PROVE  IInv'
<1> DEFINE from == "mc"
           to == "joined"
           e == Element(My, Handle.nfd)
<1>0. /\ TypeOK /\ Handles /\ OneAppends /\ WhoHas /\ Returned /\ Sockets /\ ModeOf
  BY DEF IInv
<1>1. CASE NextAddress(from)
  BY <1>1, NextAddressSteps DEF Join
<1>2. CASE /\ Goto(0, from, to) /\ ret' = [ret EXCEPT ![svc] = "ok"]
           /\ Write(e) /\ UNCHANGED <<ilist, hd, data, found, open>>
  <2>1. /\ ilist' = ilist /\ hd' = hd /\ data' = data /\ found' = found /\ open' = open
        /\ svc' = svc /\ left' = left /\ rleft' = rleft /\ conns' = conns
    BY <1>2 DEF Join, Same
  <2>2. /\ pc[0] = from /\ pc'[0] = to /\ pc' = [pc EXCEPT ![0] = to]
        /\ pc' \in [Thread -> {"idle", "accepting", "ended"} \cup Taking \cup Having]
    BY <1>0, <1>2, MainGoes, WhereMainIs
  <2>3. pc[0] \in Having /\ pc[0] \in Bound /\ Mode = "mc"
    BY <1>0, <2>2, WhereMainIs DEF Modes, ModeOf
  <2>4. /\ svc \in Service /\ My \in User /\ hd[My] # Nowhere /\ Handle \in Elem
        /\ My' = My /\ Mode' = Mode
    BY <1>0, <2>1, <2>3, MainHas DEF My, Mode
  <2>5. e \in Elem /\ e.id = My /\ e.nfd = Handle.nfd /\ e.id # Zero
    <3>1. Handle.nfd \in {<<>>} \cup (User \X Nat)
      BY <2>4 DEF Elem
    <3>. QED  BY <2>4, <3>1, Elements, NotInvalid
  <2> HIDE DEF e
  <2>6. /\ Handles' /\ Handle' = e
        /\ \A w \in User : w # My =>
             hd'[w] = hd[w] /\ (hd[w] # Nowhere => HandleOf(w)' = HandleOf(w))
    BY <1>2, <2>1, <2>3, <2>5, MineWritten
  <2>7. \A k \in Service : SocketsOf(k)' = SocketsOf(k)
    BY <2>1, SocketsSame
  <2>8. /\ ret' \in [Service -> {"none", "ok", "failed", "noaddress"}]
        /\ ret'[svc] = "ok" /\ \A k \in Service : k # svc => ret'[k] = ret[k]
    BY <1>0, <1>2, <2>4 DEF TypeOK
  <2>9. TypeOK'
    BY <1>0, <2>1, <2>2, <2>8 DEF TypeOK
  <2>10. OthersKept
    BY <2>1, <2>6, <2>7, <2>8 DEF OthersKept
  <2>11. ModeOf'
    BY <2>1, <2>2, <2>3, <2>4, <2>8, WhereMainIs DEF ModeOf
  <2>12. MineReturned'
    BY <2>1, <2>2, <2>3, <2>4, <2>8 DEF MineReturned
  <2>13. MineHas'
    BY <2>1, <2>4, <2>5, <2>6 DEF MineHas
  <2>14. MineSockets'
    <3>1. SocketsOf(svc)' = {Handle.nfd}'
      BY <1>0, <2>1, <2>3, <2>4, <2>5, <2>6, <2>7 DEF Sockets, SocketsOf
    <3>. QED  BY <2>2, <3>1 DEF MineSockets
  <2>. QED
    BY <2>2, <2>3, <2>6, <2>9, <2>10, <2>11, <2>12, <2>13, <2>14, MainSteps, WhereMainIs
<1>. QED  BY <1>1, <1>2 DEF Join

(* One address tried: the handle gets what came of it. *)
LEMMA BindWrites ==
  ASSUME IInv, NEW to \in {"bind"} \cup Modes, Goto(0, "bind", to),
         NEW nfd \in {<<>>} \cup (User \X Nat), Write(Element(Handle.id, nfd)),
         UNCHANGED <<ilist, hd, data, found, svc, rleft, ret, conns>>,
         left' \in 0 .. Addrs, open' \in SUBSET (User \X Nat), open \subseteq open',
         \A k \in Service : k # svc => SocketsOf(k)' = SocketsOf(k),
         to = "bind" => SocketsOf(svc)' = {},
         to # "bind" => to = Mode /\ SocketsOf(svc)' = {nfd}
  PROVE  IInv'
<1> DEFINE e == Element(Handle.id, nfd)
<1>0. /\ TypeOK /\ Handles /\ OneAppends /\ WhoHas /\ Returned /\ ModeOf
      /\ svc' = svc /\ conns' = conns /\ ret' = ret /\ rleft' = rleft
      /\ ilist' = ilist /\ hd' = hd /\ data' = data /\ found' = found
  BY DEF IInv
<1>1. to \in Having /\ to \notin {"accept", "post", "joined", "findData", "connect", "resolve", "idle"}
  BY WhereMainIs DEF Modes
<1>2. /\ pc[0] = "bind" /\ pc'[0] = to /\ pc' = [pc EXCEPT ![0] = to]
      /\ pc' \in [Thread -> {"idle", "accepting", "ended"} \cup Taking \cup Having]
  <2> DEFINE from == "bind"
  <2>1. Goto(0, from, to)
    OBVIOUS
  <2> HIDE DEF from
  <2>2. pc[0] = from /\ pc'[0] = to /\ pc' = [pc EXCEPT ![0] = to]
        /\ pc' \in [Thread -> {"idle", "accepting", "ended"} \cup Taking \cup Having]
    BY <1>0, <1>1, <2>1, MainGoes
  <2>. QED  BY <2>2 DEF from
<1>3. pc[0] \in Having /\ pc[0] # "idle"
  BY <1>2, WhereMainIs
<1>4. /\ svc \in Service /\ My \in User /\ hd[My] # Nowhere /\ Handle \in Elem
      /\ Handle.id # Zero /\ My' = My /\ Mode' = Mode
  BY <1>0, <1>3, MainHas DEF My, Mode
<1>5. e \in Elem /\ e.nfd = nfd /\ e.id # Zero
  <2>1. Handle.id \in {Zero, Invalid} \cup User
    BY <1>4 DEF Elem
  <2>. QED  BY <1>4, <2>1, Elements
<1> HIDE DEF e
<1>6. Write(e)
  BY DEF e
<1>7. /\ Handles' /\ Handle' = e
      /\ \A w \in User : w # My =>
           hd'[w] = hd[w] /\ (hd[w] # Nowhere => HandleOf(w)' = HandleOf(w))
  BY <1>0, <1>3, <1>5, <1>6, MineWritten
<1>8. TypeOK'
  BY <1>0, <1>2 DEF TypeOK
<1>9. OthersKept
  BY <1>0, <1>7 DEF OthersKept
<1>10. ModeOf'
  BY <1>1, <1>2, <1>4 DEF ModeOf, Modes
<1>11. MineReturned'
  BY <1>0, <1>2, <1>3 DEF MineReturned, Returned
<1>12. MineHas'
  BY <1>0, <1>1, <1>2, <1>4 DEF MineHas
<1>13. MineSockets'
  BY <1>1, <1>2, <1>5, <1>7, WhereMainIs DEF MineSockets
<1>. QED
  BY <1>1, <1>2, <1>3, <1>7, <1>8, <1>9, <1>10, <1>11, <1>12, <1>13, MainSteps

LEMMA BindSteps ==
  ASSUME IInv, Bind
  PROVE  IInv'
<1> DEFINE s == <<My, left>>
           none == <<>>
           again == "bind"
<1>0. /\ TypeOK /\ OneAppends /\ Sockets /\ Handles /\ WhoHas
      /\ UNCHANGED <<ilist, hd, data, found, svc, rleft, ret, conns>>
      /\ left > 0 /\ left' = left - 1 /\ pc[0] = "bind" /\ svc' = svc
  BY DEF IInv, Bind, BindOr, Goto
<1>1. left' \in 0 .. Addrs /\ left \in Nat
  BY <1>0, ServiceAssumption DEF TypeOK
<1>2. svc \in Service /\ My \in User /\ SocketsOf(svc) = {} /\ Mode \in Modes
  <2>1. svc \in Service /\ My \in User
    BY <1>0, MainHas, WhereMainIs
  <2>2. SocketsOf(svc) = {}
    BY <1>0 DEF Sockets
  <2>. QED  BY <2>1, <2>2, Services DEF Mode
<1>3. s \in User \X Nat /\ s[1] = <<svc, 0>>
  BY <1>1, <1>2 DEF My
<1>4. open \in SUBSET (User \X Nat)
  BY <1>0 DEF TypeOK
<1>5. \A k \in Service : k # svc => <<k, 0>> # <<svc, 0>>
  OBVIOUS
<1> HIDE DEF s
<1>6. ASSUME NEW nfd, nfd = none \/ nfd = s,
             Goto(0, again, again), Write(Element(Handle.id, nfd)), UNCHANGED open
      PROVE  IInv'
  <2>1. nfd \in {<<>>} \cup (User \X Nat)
    BY <1>3, <1>6
  <2>2. open' \in SUBSET (User \X Nat) /\ \A k \in Service : SocketsOf(k)' = SocketsOf(k)
    BY <1>4, <1>6, SocketsSame
  <2>3. SocketsOf(svc)' = {} /\ open \subseteq open'
    BY <1>0, <1>2, <1>6, <2>2 DEF SocketsOf
  <2>. QED  BY <1>0, <1>1, <1>6, <2>1, <2>2, <2>3, BindWrites
<1>7. CASE Goto(0, again, Mode) /\ Write(Element(Handle.id, s)) /\ open' = open \cup {s}
  <2>1. open' \in SUBSET (User \X Nat) /\ open \subseteq open'
    BY <1>3, <1>4, <1>7
  <2>2. \A k \in Service : k # svc => SocketsOf(k)' = SocketsOf(k)
    BY <1>3, <1>5, <1>7 DEF SocketsOf
  <2>3. SocketsOf(svc)' = {s}
    BY <1>0, <1>2, <1>3, <1>7 DEF SocketsOf
  <2>4. PICK m \in Modes : m = Mode
    BY <1>2
  <2>5. PICK nfd \in User \X Nat : nfd = s
    BY <1>3
  <2>6. Goto(0, again, m) /\ Write(Element(Handle.id, nfd)) /\ m # "bind"
    BY <1>7, <2>4, <2>5 DEF Modes
  <2>. QED  BY <1>0, <1>1, <2>1, <2>2, <2>3, <2>4, <2>5, <2>6, BindWrites
<1>8. /\ Goto(0, again, again) /\ Write(Element(Handle.id, none)) /\ UNCHANGED open
         => IInv'
  BY <1>6
<1>9. Goto(0, again, again) /\ Write(Element(Handle.id, s)) /\ UNCHANGED open => IInv'
  <2>1. SUFFICES ASSUME Goto(0, again, again), Write(Element(Handle.id, s)), UNCHANGED open
                 PROVE  IInv'
    OBVIOUS
  <2>2. PICK nfd \in User \X Nat : nfd = s
    BY <1>3
  <2>3. Write(Element(Handle.id, nfd))
    BY <2>1, <2>2
  <2>. QED  BY <1>6, <2>1, <2>2, <2>3
<1>10. \/ Goto(0, again, again) /\ Write(Element(Handle.id, none)) /\ UNCHANGED open
       \/ Goto(0, again, again) /\ Write(Element(Handle.id, s)) /\ UNCHANGED open
       \/ Goto(0, again, Mode) /\ Write(Element(Handle.id, s)) /\ open' = open \cup {s}
  BY DEF Bind, BindOr, s
<1>. QED  BY <1>7, <1>8, <1>9, <1>10

-----------------------------------------------------------------------------
(* A creation begins, and a server listens. *)

LEMMA CreateSteps ==
  ASSUME IInv, Create
  PROVE  IInv'
<1> DEFINE from == "idle"
           to == "findHandle"
<1>0. /\ TypeOK /\ Handles /\ Data /\ OneAppends /\ ModeOf /\ Returned /\ WhoHas
      /\ Finding /\ Attached /\ Sockets /\ Receives
  BY DEF IInv
<1>1. /\ svc < Len(Program) /\ svc' = svc + 1 /\ Goto(0, from, to)
      /\ hlist' = hlist /\ hd' = hd /\ ilist' = ilist /\ data' = data /\ found' = found
      /\ open' = open /\ ret' = ret /\ left' = left /\ rleft' = rleft /\ conns' = conns
  BY DEF Create, lists
<1>2. /\ pc[0] = "idle" /\ pc'[0] = to /\ pc' = [pc EXCEPT ![0] = to]
      /\ pc' \in [Thread -> {"idle", "accepting", "ended"} \cup Taking \cup Having]
  <2>1. to \in Taking
    BY DEF Taking
  <2>. QED  BY <1>0, <1>1, <2>1, MainGoes
<1>3. svc \in Nat /\ svc' \in Service /\ svc' # 0
  BY <1>0, <1>1, Services DEF TypeOK
<1>4. \A k \in Service : pc[k] = "idle"
  BY <1>0, <1>1, <1>3, Services DEF OneAppends
<1>5. \A k \in Service : pc'[k] = "idle"
  BY <1>0, <1>2, <1>4, Services DEF TypeOK
<1>6. TypeOK'
  BY <1>0, <1>1, <1>2, <1>3 DEF TypeOK
<1>7. Handles' /\ Data'
  BY <1>0, <1>1 DEF Handles, Data
<1>8. OneAppends'
  BY <1>2, <1>3, <1>5 DEF OneAppends, Taking
<1>9. ModeOf'
  BY <1>2 DEF ModeOf, Modes
<1>10. \A k \in Service : k > svc' => k > svc
  BY <1>1, <1>3, Services
<1>11. Returned'
  <2>1. ret[svc'] = "none"
    BY <1>0, <1>1, <1>3 DEF Returned
  <2>. QED  BY <1>0, <1>1, <1>10, <2>1 DEF Returned
<1>12. WhoHas'
  <2>1. hd[<<svc', 0>>] = Nowhere
    BY <1>0, <1>1, <1>3 DEF WhoHas
  <2>2. ASSUME NEW p \in Thread
        PROVE  /\ pc'[p] \in Taking => hd[Me(p)'] = Nowhere
               /\ pc'[p] \in Having => hd[Me(p)'] # Nowhere
    BY <1>2, <1>5, <2>1 DEF Thread, Taking, Having, Bound, Modes, Me
  <2>. QED  BY <1>0, <1>1, <1>10, <2>2 DEF WhoHas
<1>13. \A p \in Thread : pc'[p] \notin {"takeHandle", "post", "findData", "joined"}
  BY <1>2, <1>5 DEF Thread
<1>14. Finding' /\ Attached'
  BY <1>13 DEF Finding, Attached
<1>15. Sockets'
  <2>1. \A k \in Service : SocketsOf(k)' = SocketsOf(k)
    BY <1>1, SocketsSame
  <2>2. SocketsClosed'
    BY <1>0, <1>1, <1>2, <2>1 DEF SocketsClosed, Sockets
  <2>3. SocketsOf(svc)' = {}
    <3>1. PICK k \in Service : k = svc'
      BY <1>3
    <3>2. SocketsOf(k) = {}
      <4>1. k > svc
        BY <1>1, <1>3, <3>1
      <4>2. ret[k] = "none"
        BY <1>0, <4>1 DEF Returned
      <4>3. k # svc
        BY <1>3, <3>1, <4>1, Services
      <4>. QED  BY <1>0, <4>2, <4>3 DEF Sockets, SocketsClosed
    <3>3. SocketsOf(svc)' = SocketsOf(k)
      BY <1>1, <3>1 DEF SocketsOf
    <3>. QED  BY <3>2, <3>3
  <2>. QED  BY <1>2, <2>2, <2>3 DEF Sockets, Taking, Bound, Modes
<1>16. Receives'
  <2>1. \A p \in Thread : pc'[p] \notin Having \cup {"findData", "post"}
    BY <1>2, <1>5 DEF Thread, Having, Bound, Modes
  <2>2. \A p \in Service : p \in Thread
    BY DEF Thread
  <2>. QED  BY <1>0, <1>1, <2>1, <2>2 DEF Receives, HasSocket, HandleOf
<1>. QED
  BY <1>6, <1>7, <1>8, <1>9, <1>11, <1>12, <1>14, <1>15, <1>16 DEF IInv

LEMMA ListenSteps ==
  ASSUME ServerOnlyLast, IInv, Listen
  PROVE  IInv'
<1> DEFINE from == "server"
<1>0. /\ TypeOK /\ Handles /\ Data /\ OneAppends /\ ModeOf /\ Returned /\ WhoHas
      /\ Finding /\ Attached /\ Sockets /\ Receives
      /\ svc' = svc /\ left' = left /\ rleft' = rleft /\ conns' = conns
  BY DEF IInv, Listen, Same
<1>1. CASE NextAddress(from)
  BY <1>1, NextAddressSteps DEF Listen
<1>2. ASSUME pc[0] = "server", NEW started \in {"accepting", "idle"},
             pc' = [pc EXCEPT ![0] = "idle", ![svc] = started],
             ret' = [ret EXCEPT ![svc] = "ok"], UNCHANGED <<lists, open>>
      PROVE  IInv'
  <2>1. /\ hlist' = hlist /\ hd' = hd /\ ilist' = ilist /\ data' = data /\ found' = found
        /\ open' = open
    BY <1>2 DEF lists
  <2>2. pc[0] \in Having /\ pc[0] \in Bound /\ Mode = "server"
    BY <1>0, <1>2, WhereMainIs DEF ModeOf, Modes
  <2>3. /\ svc \in Service /\ My \in User /\ hd[My] # Nowhere
        /\ \A k \in Service : pc[k] = "idle"
    BY <1>0, <2>2, MainHas
  <2>4. svc = Len(Program) /\ svc # 0 /\ svc \in Nat
    BY <2>2, <2>3, Services DEF ServerOnlyLast, Mode
  <2>5. /\ pc'[0] = "idle" /\ pc'[svc] = started
        /\ \A k \in Service : k # svc => pc'[k] = "idle"
        /\ pc' \in [Thread -> {"idle", "accepting", "ended"} \cup Taking \cup Having]
    BY <1>0, <1>2, <2>3, <2>4, Services DEF TypeOK
  <2>6. /\ ret' \in [Service -> {"none", "ok", "failed", "noaddress"}]
        /\ ret'[svc] = "ok" /\ \A k \in Service : k # svc => ret'[k] = ret[k]
    BY <1>0, <1>2, <2>3 DEF TypeOK
  <2>7. TypeOK'
    BY <1>0, <2>1, <2>5, <2>6 DEF TypeOK
  <2>8. Handles' /\ Data'
    BY <1>0, <2>1 DEF Handles, Data
  <2>9. OneAppends'
    BY <1>0, <2>4, <2>5 DEF OneAppends, Serving, Taking
  <2>10. ModeOf'
    BY <2>5, WhereMainIs DEF ModeOf
  <2>11. Returned'
    <3>1. \A k \in Service : k > svc => k # svc
      BY <2>4, Services
    <3>. QED  BY <1>0, <2>1, <2>3, <2>5, <2>6, <3>1 DEF Returned, My
  <2>12. \A p \in Thread : pc'[p] \notin Taking \cup Having \cup {"post"}
    BY <1>2, <2>5 DEF Thread, Taking, Having, Bound, Modes
  <2>13. WhoHas'
    BY <1>0, <2>1, <2>12 DEF WhoHas
  <2>14. Finding' /\ Attached'
    BY <2>12, WhereMainIs DEF Finding, Attached, Taking
  <2>15. Sockets'
    <3>1. \A k \in Service : SocketsOf(k)' = SocketsOf(k)
      BY <2>1, SocketsSame
    <3>2. SocketsOf(svc) = {At(hlist, hd[<<svc, 0>>]).nfd}
      BY <1>0, <2>2 DEF Sockets, Handle, My
    <3>3. SocketsClosed'
      BY <1>0, <2>1, <2>3, <2>5, <2>6, <3>1, <3>2 DEF SocketsClosed, Sockets
    <3>. QED  BY <2>5, <3>3, WhereMainIs DEF Sockets, Taking
  <2>16. Receives'
    <3>1. Program[svc] # "udp"
      BY <2>2 DEF Mode
    <3>2. \A p \in Service : p \in Thread /\ pc'[p] \notin {"findData", "post"}
      BY <2>12, WhereMainIs DEF Thread
    <3>. QED
      BY <1>0, <2>1, <2>6, <2>12, <3>1, <3>2 DEF Receives, HasSocket, HandleOf
  <2>. QED
    BY <2>7, <2>8, <2>9, <2>10, <2>11, <2>13, <2>14, <2>15, <2>16 DEF IInv
<1>. QED  BY <1>1, <1>2 DEF Listen

-----------------------------------------------------------------------------
(* Elements found and taken, by whichever thread *)

LEMMA FindSteps ==
  ASSUME IInv, NEW p \in Thread, FindHandle(p) \/ FindData(p)
  PROVE  IInv'
<1>0. /\ TypeOK /\ Handles /\ Data /\ OneAppends /\ ModeOf /\ Returned /\ WhoHas
      /\ Finding /\ Attached /\ Sockets /\ Receives
  BY DEF IInv
<1>1. PICK from, to :
        /\ \/ from = "findHandle" /\ to = "takeHandle" /\ found' = [found EXCEPT ![p] = Look(hlist)]
           \/ from = "findData" /\ to = "post" /\ found' = [found EXCEPT ![p] = Look(ilist)]
        /\ pc[p] = from /\ pc' = [pc EXCEPT ![p] = to]
        /\ hlist' = hlist /\ hd' = hd /\ ilist' = ilist /\ data' = data
        /\ open' = open /\ svc' = svc /\ left' = left /\ rleft' = rleft
        /\ ret' = ret /\ conns' = conns
  BY DEF FindHandle, FindData, Find, Goto
<1>2. Free(hlist, Look(hlist)) /\ Free(ilist, Look(ilist))
  BY <1>0, LookFinds DEF Handles, Data
<1>3. \A l, at : Chained(l) /\ Free(l, at) => at \in Nat \X Nat
  BY ElementAt, ChainFields DEF Free
<1>4. Look(hlist) \in Nat \X Nat /\ Look(ilist) \in Nat \X Nat
  BY <1>0, <1>2, <1>3 DEF Handles, Data
<1>5. found' \in [Thread -> Nat \X Nat] /\ \A q \in Thread : q # p => found'[q] = found[q]
  BY <1>0, <1>1, <1>4 DEF TypeOK
<1>6. pc'[p] = to /\ \A q \in Thread : q # p => pc'[q] = pc[q]
  BY <1>0, <1>1 DEF TypeOK
<1>7. /\ from \in Taking <=> to \in Taking
      /\ from \in Bound <=> to \in Bound
      /\ from \in Having <=> to \in Having
      /\ from \in Serving /\ to \in Serving
      /\ to \in Taking \cup (Having \ {"accept"})
      /\ from # "idle" /\ from # "accepting" /\ from # "ended"
  BY <1>1 DEF Taking, Having, Bound, Modes, Serving
<1>8. TypeOK'
  <2>1. pc' \in [Thread -> {"idle", "accepting", "ended"} \cup Taking \cup Having]
    BY <1>0, <1>1, <1>7 DEF TypeOK
  <2>. QED  BY <1>0, <1>1, <1>5, <2>1 DEF TypeOK
<1>9. Handles' /\ Data'
  BY <1>0, <1>1 DEF Handles, Data
<1>10. OneAppends'
  <2>1. p = 0 \/ p \in Service
    BY DEF Thread
  <2>2. CASE p = 0
    <3>1. \A k \in Service : pc'[k] = pc[k]
      BY <1>6, <2>2, Services
    <3>2. svc \in Service /\ \A k \in Service : pc[k] = "idle"
      BY <1>0, <1>1, <1>7, <2>2 DEF OneAppends
    <3>. QED  BY <1>1, <1>6, <1>7, <2>2, <3>1, <3>2 DEF OneAppends
  <2>3. CASE p \in Service
    <3>1. /\ pc[0] = "idle" /\ svc = p /\ p = Len(Program)
          /\ conns[p] >= 1
          /\ \A k \in Service : k # p => pc[k] = "idle"
      <4>1. pc[p] # "idle" /\ pc[p] \in Serving
        BY <1>1, <1>7
      <4>. QED  BY <1>0, <2>3, <4>1 DEF OneAppends
    <3>2. pc'[0] = "idle" /\ \A k \in Service : k # p => pc'[k] = "idle"
      BY <1>6, <2>3, <3>1, Services
    <3>. QED  BY <1>1, <1>6, <1>7, <2>3, <3>1, <3>2 DEF OneAppends
  <2>. QED  BY <2>1, <2>2, <2>3
<1>11. ModeOf'
  <2>1. to \notin Modes /\ to # "connect" /\ to # "joined"
    BY <1>1 DEF Modes
  <2>. QED  BY <1>0, <1>1, <1>6, <2>1, Services DEF ModeOf, Mode
<1>12. \A q \in Thread : Me(q)' = Me(q)
  BY <1>1 DEF Me
<1>13. Returned'
  BY <1>0, <1>1, <1>6, <1>7, Services DEF Returned, Mode
<1>14. WhoHas'
  BY <1>0, <1>1, <1>6, <1>7, <1>12 DEF WhoHas
<1>15. Finding'
  <2>1. ASSUME NEW q \in Thread, q # p
        PROVE  /\ pc'[q] = "takeHandle" => Free(hlist', found'[q])
               /\ pc'[q] = "post" => Free(ilist', found'[q])
    BY <1>0, <1>1, <1>5, <1>6, <2>1 DEF Finding
  <2>2. /\ to = "takeHandle" => Free(hlist', found'[p])
        /\ to = "post" => Free(ilist', found'[p])
    BY <1>0, <1>1, <1>2 DEF TypeOK
  <2>. QED  BY <1>6, <2>1, <2>2 DEF Finding
<1>16. Attached'
  <2>1. to # "joined" /\ (to \in {"findData", "post"} => from \in {"findData", "post"})
    BY <1>1
  <2>. QED  BY <1>0, <1>1, <1>6, <1>12, <2>1 DEF Attached, HandleOf
<1>17. Sockets'
  <2>1. \A k \in Service : SocketsOf(k)' = SocketsOf(k)
    BY <1>1, SocketsSame
  <2>2. to \notin {"resolve", "bind", "idle"} /\ from \notin {"resolve", "bind", "idle"}
    BY <1>1
  <2>3. SocketsClosed'
    BY <1>0, <1>1, <1>6, <2>1, <2>2, Services DEF SocketsClosed, Sockets
  <2>4. SocketsOf(svc)' = SocketsOf(svc) /\ Handle' = Handle
    BY <1>1 DEF SocketsOf, Handle, My
  <2>. QED  BY <1>0, <1>1, <1>6, <1>7, <2>2, <2>3, <2>4, Services DEF Sockets
<1>18. Receives'
  <2>1. to \in {"findData", "post"} => from \in {"findData", "post"}
    BY <1>1
  <2>2. \A q \in Service : q \in Thread
    BY DEF Thread
  <2>. QED
    BY <1>0, <1>1, <1>6, <1>7, <1>12, <2>1, <2>2 DEF Receives, HasSocket, HandleOf
<1>. QED
  BY <1>8, <1>9, <1>10, <1>11, <1>13, <1>14, <1>15, <1>16, <1>17, <1>18 DEF IInv

LEMMA TakeMainSteps ==
  ASSUME IInv, TakeHandle(0)
  PROVE  IInv'
<1> DEFINE e == Element(Invalid, <<>>)
           to == "resolve"
           from == "takeHandle"
<1>0. /\ TypeOK /\ Handles /\ Data /\ OneAppends /\ ModeOf /\ Returned /\ WhoHas
      /\ Finding /\ Attached /\ Sockets /\ Receives
  BY DEF IInv
<1>1. /\ Goto(0, from, to) /\ hlist' = Taken(hlist, found[0], e)
      /\ hd' = [hd EXCEPT ![Me(0)] = Place(hlist, found[0])]
      /\ ilist' = ilist /\ data' = data /\ found' = found /\ open' = open /\ svc' = svc
      /\ left' = left /\ rleft' = rleft /\ ret' = ret /\ conns' = conns
  BY DEF TakeHandle
<1>2. /\ pc[0] = from /\ pc'[0] = to /\ pc' = [pc EXCEPT ![0] = to]
      /\ pc' \in [Thread -> {"idle", "accepting", "ended"} \cup Taking \cup Having]
  BY <1>0, <1>1, MainGoes, WhereMainIs
<1>3. /\ svc \in Service /\ Me(0) = My /\ My \in User
      /\ \A k \in Service : pc[k] = "idle"
  <2>1. svc \in Service /\ \A k \in Service : pc[k] = "idle"
    BY <1>0, <1>2 DEF OneAppends
  <2>. QED  BY <2>1, Services, ServiceAssumption DEF Me, My
<1>4. hd[My] = Nowhere /\ Free(hlist, found[0])
  BY <1>0, <1>2, <1>3, Services DEF WhoHas, Finding, Taking
<1>5. PICK v \in User : v = My
  BY <1>3
<1>6. e \in Elem /\ e.id # Zero /\ e.nfd = <<>>
  BY Elements, NotInvalid
<1> HIDE DEF e
<1>7. /\ Handles' /\ hd' \in [User -> Nat \X Nat]
      /\ hd'[v] # Nowhere /\ HandleOf(v)' = e
      /\ \A w \in User : w # v => hd'[w] = hd[w]
      /\ \A w \in User : hd[w] # Nowhere => HandleOf(w)' = HandleOf(w)
  <2>1. hd[v] = Nowhere /\ hd' = [hd EXCEPT ![v] = Place(hlist, found[0])]
    BY <1>1, <1>3, <1>4, <1>5
  <2>. QED  BY <1>0, <1>1, <1>4, <1>6, <2>1, HandleTaken
<1>8. My' = My /\ Handle' = e /\ v = <<svc, 0>>
  <2>1. My' = My /\ v = <<svc, 0>>
    BY <1>1, <1>5 DEF My
  <2>2. Handle' = At(hlist', hd'[v])
    BY <1>5, <2>1 DEF Handle
  <2>. QED  BY <1>7, <2>1, <2>2 DEF HandleOf
<1>9. \A k \in Service : pc'[k] = "idle"
  BY <1>0, <1>2, <1>3, Services DEF TypeOK
<1>10. TypeOK'
  BY <1>0, <1>1, <1>2, <1>7 DEF TypeOK
<1>11. Data'
  BY <1>0, <1>1 DEF Data
<1>12. OneAppends'
  BY <1>1, <1>2, <1>3, <1>9, WhereMainIs DEF OneAppends
<1>13. ModeOf'
  BY <1>2, WhereMainIs DEF ModeOf
<1>14. Returned'
  <2>1. \A k \in Service : ret[k] = "ok" => hd'[<<k, 0>>] # Nowhere
    <3>1. \A k \in Service : <<k, 0>> \in User
      BY Services, ServiceAssumption
    <3>. QED  BY <1>0, <1>7, <3>1 DEF Returned
  <2>. QED  BY <1>0, <1>1, <1>2, <2>1 DEF Returned
<1>15. WhoHas'
  <2>1. ASSUME NEW k \in Service, k > svc PROVE hd'[<<k, 0>>] = Nowhere
    <3>1. k # svc /\ <<k, 0>> \in User
      BY <1>3, <2>1, Services, ServiceAssumption
    <3>2. <<k, 0>> # v
      BY <1>8, <3>1
    <3>. QED  BY <1>0, <1>7, <2>1, <3>1, <3>2 DEF WhoHas
  <2>2. ASSUME NEW k \in Service, NEW n \in 1 .. MaxAccepts, n > conns[k]
        PROVE  hd'[<<k, n>>] = Nowhere
    <3>1. <<k, n>> \in User /\ <<k, n>> # v
      BY <1>8, Services, ServiceAssumption
    <3>. QED  BY <1>0, <1>7, <2>2, <3>1 DEF WhoHas
  <2>3. Me(0)' = v
    BY <1>1, <1>8 DEF Me
  <2>4. \A p \in Thread : p = 0 \/ pc'[p] \notin Taking \cup Having
    BY <1>9 DEF Thread, Taking, Having, Bound, Modes
  <2>. QED  BY <1>1, <1>2, <1>7, <2>1, <2>2, <2>3, <2>4, Services DEF WhoHas, Taking
<1>16. \A p \in Thread : pc'[p] \notin {"takeHandle", "post", "findData", "joined"}
  BY <1>2, <1>9 DEF Thread
<1>17. Finding' /\ Attached'
  BY <1>16 DEF Finding, Attached
<1>18. Sockets'
  <2>1. \A k \in Service : SocketsOf(k)' = SocketsOf(k)
    BY <1>1, SocketsSame
  <2>2. SocketsOf(svc)' = {}
    <3>1. SocketsOf(svc) = {}
      BY <1>0, <1>2 DEF Sockets, Taking
    <3>. QED  BY <1>1, <3>1 DEF SocketsOf
  <2>3. ASSUME NEW k \in Service, k # svc
        PROVE  SocketsOf(k)' = IF ret'[k] = "ok" THEN {At(hlist', hd'[<<k, 0>>]).nfd} ELSE {}
    <3>1. <<k, 0>> \in User /\ <<k, 0>> # v
      BY <1>8, <2>3, Services, ServiceAssumption
    <3>2. ret[k] = "ok" => At(hlist', hd'[<<k, 0>>]) = At(hlist, hd[<<k, 0>>])
      BY <1>0, <1>7, <3>1 DEF Returned, HandleOf
    <3>. QED  BY <1>0, <1>1, <2>1, <2>3, <3>2 DEF Sockets, SocketsClosed
  <2>4. SocketsClosed'
    BY <1>1, <1>2, <2>3 DEF SocketsClosed
  <2>. QED  BY <1>2, <1>6, <1>8, <2>2, <2>4, WhereMainIs DEF Sockets
<1>19. Receives'
  <2>1. data[v] = Nowhere
    BY <1>0, <1>4, <1>5 DEF Receives
  <2>2. ASSUME NEW w \in User, data[w] # Nowhere
        PROVE  /\ At(ilist, data[w]).id = w /\ hd'[w] # Nowhere
               /\ HandleOf(w)'.id = w /\ HasSocket(w)'
    <3>1. At(ilist, data[w]).id = w /\ hd[w] # Nowhere /\ HandleOf(w).id = w /\ HasSocket(w)
      BY <1>0, <2>2 DEF Receives
    <3>2. hd'[w] = hd[w] /\ HandleOf(w)' = HandleOf(w)
      BY <1>7, <2>1, <2>2, <3>1
    <3>3. HasSocket(w)'
      BY <1>1, <3>1, <3>2 DEF HasSocket
    <3>. QED  BY <3>1, <3>2, <3>3
  <2>3. Me(0)' = v
    BY <1>1, <1>8 DEF Me
  <2>4. \A p \in Thread : p = 0 \/ pc'[p] \notin Having \cup {"findData", "post"}
    BY <1>9 DEF Thread, Having, Bound, Modes
  <2>5. \A p \in Service : p # 0 /\ p \in Thread
    BY Services DEF Thread
  <2>6. \A k \in Service : ret'[k] = "ok" /\ Program[k] = "udp" => data'[<<k, 0>>] # Nowhere
    BY <1>0, <1>1 DEF Receives
  <2>. QED  BY <1>1, <2>1, <2>2, <2>3, <2>4, <2>5, <2>6 DEF Receives
<1>. QED
  BY <1>7, <1>10, <1>11, <1>12, <1>13, <1>14, <1>15, <1>17, <1>18, <1>19 DEF IInv

(* A step of the accept thread of p, which serves its connection u: the    *)
(* services and the other connections keep what they have.                 *)
LEMMA ServerSteps ==
  ASSUME IInv, NEW p \in Service, NEW u \in User,
         pc[p] \in Serving \cup {"accepting"},
         NEW to, to \in {"ended"} \cup (Serving \ {"takeHandle", "post"}),
         pc' = [pc EXCEPT ![p] = to], svc' = svc, ret' = ret,
         ilist' = ilist, data' = data,
         conns'[p] \in 1 .. MaxAccepts, u = <<p, conns'[p]>>, conns[p] <= conns'[p],
         \A k \in Service : k # p => conns'[k] = conns[k],
         \A w \in User : w # u =>
           hd'[w] = hd[w] /\ (hd[w] # Nowhere => HandleOf(w)' = HandleOf(w)),
         to \in Taking => hd'[u] = Nowhere, to \in Having => hd'[u] # Nowhere,
         to = "findData" => HandleOf(u)'.id = u /\ HasSocket(u)',
         data[u] = Nowhere, open \subseteq open',
         \A k \in Service : SocketsOf(k)' = SocketsOf(k),
         TypeOK', Handles'
  PROVE  IInv'
<1>0. /\ TypeOK /\ Handles /\ Data /\ OneAppends /\ ModeOf /\ Returned /\ WhoHas
      /\ Finding /\ Attached /\ Sockets /\ Receives
  BY DEF IInv
<1>1. /\ pc[0] = "idle" /\ svc = p /\ p = Len(Program)
      /\ \A j \in Service : j # p => pc[j] = "idle"
  BY <1>0, ServerServes
<1>2. /\ pc'[0] = "idle" /\ pc'[p] = to
      /\ \A j \in Service : j # p => pc'[j] = "idle"
  BY <1>0, <1>1, Services DEF TypeOK
<1>3. conns[p] \in Nat /\ MaxAccepts \in Nat /\ conns'[p] \in Nat /\ conns'[p] >= 1
  BY <1>0, ServiceAssumption DEF TypeOK
<1>4. ASSUME NEW k \in Service
      PROVE  /\ hd'[<<k, 0>>] = hd[<<k, 0>>]
             /\ hd[<<k, 0>>] # Nowhere => At(hlist', hd'[<<k, 0>>]) = At(hlist, hd[<<k, 0>>])
  <2>1. <<k, 0>> \in User /\ <<k, 0>> # u
    BY <1>3, Services, ServiceAssumption
  <2>. QED  BY <2>1 DEF HandleOf
<1>5. Data'
  BY <1>0 DEF Data
<1>6. OneAppends'
  BY <1>1, <1>2, <1>3 DEF OneAppends
<1>7. ModeOf'
  BY <1>2, WhereMainIs DEF ModeOf
<1>8. Returned'
  BY <1>0, <1>2, <1>4 DEF Returned
<1>9. Me(p)' = u
  BY Services DEF Me
<1>10. WhoHas'
  <2>1. \A k \in Service : k > svc => hd'[<<k, 0>>] = Nowhere
    BY <1>0, <1>4 DEF WhoHas
  <2>2. ASSUME NEW k \in Service, NEW n \in 1 .. MaxAccepts, n > conns'[k]
        PROVE  hd'[<<k, n>>] = Nowhere
    <3>1. <<k, n>> # u /\ <<k, n>> \in User
      BY <1>3, <2>2, Services, ServiceAssumption
    <3>2. n > conns[k]
      <4>1. CASE k = p
        BY <1>3, <2>2, <4>1
      <4>2. CASE k # p
        BY <2>2, <4>2
      <4>. QED  BY <4>1, <4>2
    <3>. QED  BY <1>0, <3>1, <3>2 DEF WhoHas
  <2>3. \A q \in Thread : q = p \/ pc'[q] \notin Taking \cup Having
    BY <1>2 DEF Thread, Taking, Having, Bound, Modes
  <2>. QED  BY <1>2, <1>9, <2>1, <2>2, <2>3 DEF WhoHas
<1>11. Finding'
  BY <1>2 DEF Finding, Thread
<1>12. Attached'
  <2>1. \A q \in Thread : pc'[q] \in {"joined", "findData", "post"} => q = p /\ to = "findData"
    BY <1>2 DEF Thread, Serving, Taking
  <2>2. HandleOf(Me(p))' = HandleOf(u)'
    BY <1>9 DEF HandleOf
  <2>. QED  BY <1>9, <2>1, <2>2 DEF Attached
<1>13. Sockets'
  <2>1. ASSUME NEW k \in Service
        PROVE  SocketsOf(k)' = IF ret'[k] = "ok" THEN {At(hlist', hd'[<<k, 0>>]).nfd} ELSE {}
    BY <1>0, <1>1, <1>4 DEF Sockets, SocketsClosed, Returned
  <2>. QED  BY <1>2, <2>1, WhereMainIs DEF Sockets, SocketsClosed, Taking
<1>14. Receives'
  <2>1. ASSUME NEW w \in User, data[w] # Nowhere
        PROVE  /\ At(ilist, data[w]).id = w /\ hd'[w] # Nowhere
               /\ HandleOf(w)'.id = w /\ HasSocket(w)'
    <3>1. At(ilist, data[w]).id = w /\ hd[w] # Nowhere /\ HandleOf(w).id = w /\ HasSocket(w)
      BY <1>0, <2>1 DEF Receives
    <3>2. hd'[w] = hd[w] /\ HandleOf(w)' = HandleOf(w)
      BY <2>1, <3>1
    <3>3. HasSocket(w)'
      BY <3>1, <3>2 DEF HasSocket
    <3>. QED  BY <3>1, <3>2, <3>3
  <2>2. \A q \in Thread : q = p \/ pc'[q] \notin Having \cup {"findData", "post"}
    BY <1>2 DEF Thread, Having, Bound, Modes
  <2>3. to = "findData" => HasSocket(Me(p))'
    BY <1>9 DEF HasSocket, HandleOf
  <2>4. \A q \in Service : q \in Thread
    BY DEF Thread
  <2>5. \A k \in Service : ret'[k] = "ok" /\ Program[k] = "udp" => data'[<<k, 0>>] # Nowhere
    BY <1>0 DEF Receives
  <2>6. to # "post"
    BY DEF Serving
  <2>. QED  BY <1>2, <1>9, <2>1, <2>2, <2>3, <2>4, <2>5, <2>6 DEF Receives
<1>. QED
  BY <1>5, <1>6, <1>7, <1>8, <1>10, <1>11, <1>12, <1>13, <1>14 DEF IInv

LEMMA TakeServerSteps ==
  ASSUME IInv, NEW p \in Service, TakeHandle(p)
  PROVE  IInv'
<1> DEFINE e == Element(Invalid, <<>>)
           to == "accept"
<1>0. /\ TypeOK /\ Handles /\ OneAppends /\ WhoHas /\ Finding /\ p \in Thread /\ p # 0
  BY Services DEF IInv
<1>1. /\ pc[p] = "takeHandle" /\ pc' = [pc EXCEPT ![p] = to]
      /\ hlist' = Taken(hlist, found[p], e)
      /\ hd' = [hd EXCEPT ![Me(p)] = Place(hlist, found[p])]
      /\ ilist' = ilist /\ data' = data /\ found' = found /\ open' = open /\ svc' = svc
      /\ left' = left /\ rleft' = rleft /\ ret' = ret /\ conns' = conns
  BY <1>0 DEF TakeHandle, Goto
<1>2. Me(p) = <<p, conns[p]>> /\ Me(p) \in User /\ conns[p] \in 1 .. MaxAccepts
  BY <1>0, <1>1, ServerServes DEF Serving, Taking
<1>3. hd[Me(p)] = Nowhere /\ Free(hlist, found[p])
  BY <1>0, <1>1 DEF WhoHas, Finding, Taking
<1>4. PICK u \in User : u = Me(p)
  BY <1>2
<1>5. e \in Elem /\ e.id # Zero
  BY Elements, NotInvalid
<1> HIDE DEF e
<1>6. /\ Handles' /\ hd' \in [User -> Nat \X Nat]
      /\ hd'[u] # Nowhere
      /\ \A w \in User : w # u => hd'[w] = hd[w]
      /\ \A w \in User : hd[w] # Nowhere => HandleOf(w)' = HandleOf(w)
  <2>1. hd[u] = Nowhere /\ hd' = [hd EXCEPT ![u] = Place(hlist, found[p])]
    BY <1>1, <1>3, <1>4
  <2>. QED  BY <1>0, <1>1, <1>3, <1>5, <2>1, HandleTaken
<1>7. TypeOK'
  <2>1. pc' \in [Thread -> {"idle", "accepting", "ended"} \cup Taking \cup Having]
    BY <1>0, <1>1 DEF TypeOK, Having
  <2>. QED  BY <1>0, <1>1, <1>6, <2>1 DEF TypeOK
<1>8. \A k \in Service : SocketsOf(k)' = SocketsOf(k)
  BY <1>1, SocketsSame
<1>9. /\ pc[p] \in Serving /\ to \in Serving \ {"takeHandle", "post"} /\ to \notin Taking
      /\ to # "findData"
  BY <1>1 DEF Serving, Taking
<1>10. conns'[p] = conns[p] /\ conns[p] <= conns[p] /\ u = <<p, conns'[p]>>
  BY <1>1, <1>2, <1>4
<1>11. data[u] = Nowhere /\ open \subseteq open'
  BY <1>1, <1>3, <1>4 DEF IInv, Receives
<1>. QED  BY <1>0, <1>1, <1>2, <1>6, <1>7, <1>8, <1>9, <1>10, <1>11, ServerSteps

LEMMA AcceptNextSteps ==
  ASSUME IInv, NEW p \in Service, AcceptNext(p)
  PROVE  IInv'
<1> DEFINE to == "findHandle"
<1>0. TypeOK /\ Handles /\ OneAppends /\ WhoHas /\ p \in Thread /\ p # 0
  BY Services DEF IInv
<1>1. /\ pc[p] = "accepting" /\ pc' = [pc EXCEPT ![p] = to]
      /\ conns[p] < MaxAccepts /\ conns' = [conns EXCEPT ![p] = conns[p] + 1]
      /\ hlist' = hlist /\ hd' = hd /\ ilist' = ilist /\ data' = data /\ found' = found
      /\ open' = open /\ svc' = svc /\ left' = left /\ rleft' = rleft /\ ret' = ret
  BY DEF AcceptNext, Goto, lists
<1>2. /\ conns'[p] = conns[p] + 1 /\ conns[p] \in Nat /\ conns'[p] \in 1 .. MaxAccepts
      /\ \A k \in Service : k # p => conns'[k] = conns[k]
      /\ conns' \in [Service -> 0 .. MaxAccepts]
  BY <1>0, <1>1, ServiceAssumption DEF TypeOK
<1>3. PICK u \in User : u = <<p, conns'[p]>>
  BY <1>2, Services
<1>4. hd[u] = Nowhere
  BY <1>0, <1>2, <1>3 DEF WhoHas
<1>5. Handles' /\ \A w \in User : hd'[w] = hd[w] /\ HandleOf(w)' = HandleOf(w)
  BY <1>0, <1>1, HandleSame
<1>6. TypeOK'
  <2>1. pc' \in [Thread -> {"idle", "accepting", "ended"} \cup Taking \cup Having]
    BY <1>0, <1>1 DEF TypeOK, Taking
  <2>. QED  BY <1>0, <1>1, <1>2, <2>1 DEF TypeOK
<1>7. \A k \in Service : SocketsOf(k)' = SocketsOf(k)
  BY <1>1, SocketsSame
<1>8. to \in Serving \ {"takeHandle", "post"} /\ to \notin Having /\ to # "findData"
  BY DEF Serving, Taking, Having, Bound, Modes
<1>9. conns[p] <= conns'[p] /\ hd'[u] = Nowhere
  BY <1>1, <1>2, <1>4
<1>10. data[u] = Nowhere /\ open \subseteq open'
  BY <1>1, <1>4 DEF IInv, Receives
<1>. QED  BY <1>1, <1>2, <1>3, <1>5, <1>6, <1>7, <1>8, <1>9, <1>10, ServerSteps

LEMMA AcceptSteps ==
  ASSUME IInv, NEW p \in Service, Accept(p)
  PROVE  IInv'
<1>0. TypeOK /\ Handles /\ OneAppends /\ WhoHas /\ p \in Thread /\ p # 0
  BY Services DEF IInv
<1>1. /\ pc[p] = "accept"
      /\ ilist' = ilist /\ data' = data /\ found' = found /\ svc' = svc
      /\ left' = left /\ rleft' = rleft /\ ret' = ret /\ conns' = conns
  BY DEF Accept, Goto
<1>2. Me(p) = <<p, conns[p]>> /\ Me(p) \in User /\ conns[p] \in 1 .. MaxAccepts
  BY <1>0, <1>1, ServerServes DEF Serving
<1>3. PICK u \in User : u = Me(p)
  BY <1>2
<1>4. hd[u] # Nowhere
  BY <1>0, <1>1, <1>3 DEF WhoHas, Having
<1>5. /\ conns'[p] = conns[p] /\ conns[p] <= conns[p] /\ u = <<p, conns'[p]>>
      /\ pc[p] \in Serving
  BY <1>1, <1>2, <1>3 DEF Serving
<1>6. ASSUME open' = open \/ open' = open \cup {<<u, 0>>}
      PROVE  /\ open' \in SUBSET (User \X Nat)
             /\ \A k \in Service : SocketsOf(k)' = SocketsOf(k)
  <2>1. <<u, 0>> \in User \X Nat
    OBVIOUS
  <2>2. \A k \in Service : u # <<k, 0>>
    BY <1>2, <1>3
  <2>3. \A k \in Service : <<u, 0>>[1] # <<k, 0>>
    BY <2>2
  <2>. QED  BY <1>0, <1>6, <2>1, <2>3 DEF SocketsOf, TypeOK
<1>7. data[u] = Nowhere
  BY <1>0, <1>1, <1>3 DEF IInv, Receives, Having
<1>8. CASE /\ pc' = [pc EXCEPT ![p] = "findData"] /\ Accepted(p) /\ hd' = hd
           /\ hlist' = Put(hlist, hd[Me(p)], Element(Me(p), <<Me(p), 0>>))
  <2> DEFINE s == <<u, 0>>
             e == Element(u, s)
             to == "findData"
  <2>1. s \in User \X Nat
    OBVIOUS
  <2>2. hlist' = Put(hlist, hd[u], e)
    BY <1>3, <1>8
  <2>3. open' = open \cup {<<u, 0>>}
    BY <1>3, <1>8 DEF Accepted
  <2>4. s \in open' /\ s[1] = u /\ open \subseteq open'
    BY <2>3
  <2> HIDE DEF s
  <2>5. e \in Elem /\ e.id = u /\ e.id # Zero /\ e.nfd = s
    BY <2>1, Elements, NotInvalid
  <2> HIDE DEF e
  <2>6. /\ Handles' /\ HandleOf(u)' = e
        /\ \A w \in User : w # u /\ hd[w] # Nowhere => HandleOf(w)' = HandleOf(w)
    BY <1>0, <1>4, <1>8, <2>2, <2>5, HandleWritten
  <2>7. HasSocket(u)'
    BY <2>4, <2>5, <2>6 DEF HasSocket
  <2>8. open' \in SUBSET (User \X Nat) /\ \A k \in Service : SocketsOf(k)' = SocketsOf(k)
    BY <1>6, <2>3
  <2>9. TypeOK'
    <3>1. pc' \in [Thread -> {"idle", "accepting", "ended"} \cup Taking \cup Having]
      BY <1>0, <1>8, WhereMainIs DEF TypeOK
    <3>. QED  BY <1>0, <1>1, <1>8, <2>8, <3>1 DEF TypeOK
  <2>10. to \in Serving \ {"takeHandle", "post"} /\ to \notin Taking
    BY DEF Serving, Taking
  <2>. QED
    BY <1>1, <1>2, <1>4, <1>5, <1>7, <1>8, <2>4, <2>5, <2>6, <2>7, <2>8, <2>9, <2>10, ServerSteps
<1>9. CASE /\ pc' = [pc EXCEPT ![p] = "ended"]
           /\ Accepted(p) \/ UNCHANGED open
           /\ RemoveHandle(Me(p))
  <2> DEFINE to == "ended"
  <2>0. pc' = [pc EXCEPT ![p] = to]
    BY <1>9
  <2>1. RemoveHandle(u) /\ (open' = open \/ open' = open \cup {<<u, 0>>})
    BY <1>3, <1>9 DEF Accepted
  <2>2. /\ Handles' /\ hd' = [hd EXCEPT ![u] = Nowhere]
        /\ \A w \in User : w # u => hd'[w] = hd[w]
        /\ \A w \in User : w # u /\ hd[w] # Nowhere => HandleOf(w)' = HandleOf(w)
    BY <1>0, <1>4, <2>1, HandleRemoved
  <2>3. /\ open' \in SUBSET (User \X Nat) /\ \A k \in Service : SocketsOf(k)' = SocketsOf(k)
        /\ open \subseteq open'
    BY <1>6, <2>1
  <2>4. TypeOK'
    <3>1. pc' \in [Thread -> {"idle", "accepting", "ended"} \cup Taking \cup Having]
      BY <1>0, <2>0 DEF TypeOK
    <3>2. hd' \in [User -> Nat \X Nat]
      BY <1>0, <2>2 DEF TypeOK, Nowhere
    <3>. QED  BY <1>0, <1>1, <2>3, <3>1, <3>2 DEF TypeOK
  <2>5. to \notin Taking /\ to \notin Having /\ to # "findData"
    BY DEF Taking, Having, Bound, Modes
  <2>. QED
    BY <1>1, <1>2, <1>5, <1>7, <2>0, <2>2, <2>3, <2>4, <2>5, ServerSteps
<1>. QED  BY <1>8, <1>9 DEF Accept, Goto

LEMMA PostSteps ==
  ASSUME IInv, NEW p \in Thread, Post(p)
  PROVE  IInv'
<1> DEFINE to == IF p = 0 THEN "idle" ELSE "accepting"
           e == Element(At(hlist, hd[Me(p)]).id, <<>>)
<1>0. /\ TypeOK /\ Handles /\ Data /\ OneAppends /\ ModeOf /\ Returned /\ WhoHas
      /\ Finding /\ Attached /\ Sockets /\ Receives
  BY DEF IInv
<1>1. /\ pc[p] = "post" /\ pc' = [pc EXCEPT ![p] = to]
      /\ ilist' = Taken(ilist, found[p], e)
      /\ data' = [data EXCEPT ![Me(p)] = Place(ilist, found[p])]
      /\ ret' = IF p = 0 THEN [ret EXCEPT ![svc] = "ok"] ELSE ret
      /\ hlist' = hlist /\ hd' = hd /\ found' = found /\ open' = open /\ svc' = svc
      /\ left' = left /\ rleft' = rleft /\ conns' = conns
  BY DEF Post, Goto
<1>2. /\ svc \in Service /\ Me(p) \in User /\ (p = 0 => Me(p) = <<svc, 0>>)
      /\ \A k \in Service : k # p => pc[k] = "idle" /\ k # 0
      /\ p # 0 => /\ p \in Service /\ pc[0] = "idle" /\ svc = p /\ p = Len(Program)
                  /\ Me(p) = <<p, conns[p]>> /\ conns[p] >= 1
  <2>1. CASE p = 0
    <3>1. svc \in Service /\ \A k \in Service : pc[k] = "idle"
      BY <1>0, <1>1, <2>1 DEF OneAppends
    <3>. QED  BY <2>1, <3>1, Services, ServiceAssumption DEF Me
  <2>2. CASE p # 0
    <3>1. p \in Service /\ pc[p] \in Serving
      BY <1>1, <2>2 DEF Thread, Serving
    <3>. QED  BY <1>0, <2>2, <3>1, ServerServes, Services
  <2>. QED  BY <2>1, <2>2
<1>3. HandleOf(Me(p)).id = Me(p) /\ Free(ilist, found[p])
  BY <1>0, <1>1 DEF Attached, Finding
<1>4. PICK u \in User : u = Me(p)
  BY <1>2
<1>5. e \in Elem /\ e.id = u /\ e.id # Zero
  <2>1. e = Element(u, <<>>)
    BY <1>3, <1>4 DEF HandleOf
  <2>. QED  BY <2>1, Elements, NotInvalid
<1> HIDE DEF e
<1>6. /\ data' \in [User -> Nat \X Nat] /\ Chained(ilist') /\ Owned(ilist', data')
      /\ data'[u] # Nowhere /\ At(ilist', data'[u]) = e
      /\ \A w \in User : w # u /\ data[w] # Nowhere =>
           data'[w] = data[w] /\ At(ilist', data'[w]) = At(ilist, data[w])
  <2> DEFINE n == Taken(ilist, found[p], e)
             place == Place(ilist, found[p])
  <2>0. Chained(ilist) /\ Owned(ilist, data) /\ data \in [User -> Nat \X Nat]
    BY <1>0 DEF Data, TypeOK
  <2>1. data'[u] = place /\ \A w \in User : w # u => data'[w] = data[w]
    BY <1>1, <1>4, <2>0
  <2>2. PICK more : more = data'
    OBVIOUS
  <2>3. /\ Chained(n) /\ Owned(n, more) /\ At(n, place) = e
        /\ place # Nowhere /\ place \in Nat \X Nat
        /\ \A w \in User : data[w] # Nowhere => At(n, data[w]) = At(ilist, data[w])
    <3>1. more[u] = place /\ \A w \in User : w # u => more[w] = data[w]
      BY <2>1, <2>2
    <3> HIDE DEF n
    <3>. QED  BY <1>3, <1>5, <2>0, <3>1, TakeOwned DEF n
  <2> HIDE DEF n, place
  <2>4. ilist' = n /\ data' = [data EXCEPT ![u] = place]
    BY <1>1, <1>4 DEF n, place
  <2>. QED  BY <2>0, <2>1, <2>2, <2>3, <2>4
<1>7. Data'
  BY <1>6 DEF Data
<1>8. /\ ret' \in [Service -> {"none", "ok", "failed", "noaddress"}]
      /\ \A k \in Service : k # svc \/ p # 0 => ret'[k] = ret[k]
      /\ p = 0 => ret'[svc] = "ok"
  BY <1>0, <1>1, <1>2 DEF TypeOK
<1>9. pc'[p] = to /\ \A q \in Thread : q # p => pc'[q] = pc[q]
  BY <1>0, <1>1 DEF TypeOK
<1>10. TypeOK'
  <2>1. pc' \in [Thread -> {"idle", "accepting", "ended"} \cup Taking \cup Having]
    BY <1>0, <1>1 DEF TypeOK
  <2>. QED  BY <1>0, <1>1, <1>6, <1>8, <2>1 DEF TypeOK
<1>11. Handles'
  BY <1>0, <1>1 DEF Handles
<1>12. pc'[0] = "idle" /\ \A k \in Service : k # p => pc'[k] = "idle"
  BY <1>2, <1>9, Services
<1>13. OneAppends'
  <2>1. "accepting" \notin Serving
    BY DEF Serving, Taking
  <2>. QED  BY <1>1, <1>2, <1>9, <1>12, <2>1 DEF OneAppends
<1>14. ModeOf'
  BY <1>12, WhereMainIs DEF ModeOf
<1>15. hd[u] # Nowhere
  BY <1>0, <1>1, <1>4, WhereMainIs DEF WhoHas
<1>16. Returned'
  <2>1. ASSUME NEW k \in Service, k > svc PROVE ret'[k] = "none"
    <3>1. k # svc
      BY <1>2, <2>1, Services
    <3>. QED  BY <1>0, <1>8, <2>1, <3>1 DEF Returned
  <2>2. ASSUME NEW k \in Service, ret'[k] = "ok" PROVE hd[<<k, 0>>] # Nowhere
    <3>1. CASE p = 0 /\ k = svc
      BY <1>2, <1>4, <1>15, <3>1
    <3>2. CASE ~(p = 0 /\ k = svc)
      BY <1>0, <1>8, <2>2, <3>2 DEF Returned
    <3>. QED  BY <3>1, <3>2
  <2>. QED  BY <1>1, <1>12, <2>1, <2>2 DEF Returned
<1>17. \A q \in Thread : pc'[q] \notin Taking \cup Having \cup {"post"}
  BY <1>9, <1>12 DEF Thread, Taking, Having, Bound, Modes
<1>18. WhoHas'
  BY <1>0, <1>1, <1>17 DEF WhoHas
<1>19. Finding' /\ Attached'
  BY <1>17, WhereMainIs DEF Finding, Attached, Taking
<1>20. Sockets'
  <2>1. \A k \in Service : SocketsOf(k)' = SocketsOf(k)
    BY <1>1, SocketsSame
  <2>2. p = 0 => SocketsOf(svc) = {At(hlist, hd[<<svc, 0>>]).nfd}
    BY <1>0, <1>1, WhereMainIs DEF Sockets, Handle, My
  <2>3. ASSUME NEW k \in Service
        PROVE  SocketsOf(k)' = IF ret'[k] = "ok" THEN {At(hlist', hd'[<<k, 0>>]).nfd} ELSE {}
    <3>1. CASE p = 0 /\ k = svc
      BY <1>1, <1>8, <2>1, <2>2, <3>1
    <3>2. CASE ~(p = 0 /\ k = svc)
      <4>1. k # svc \/ pc[0] = "idle"
        BY <1>2, <3>2
      <4>. QED  BY <1>0, <1>1, <1>8, <2>1, <3>2, <4>1 DEF Sockets, SocketsClosed
    <3>. QED  BY <3>1, <3>2
  <2>. QED  BY <1>12, <2>3, WhereMainIs DEF Sockets, SocketsClosed, Taking
<1>21. Receives'
  <2>1. HasSocket(u)
    <3>1. CASE p = 0
      <4>1. SocketsOf(svc) = {Handle.nfd} /\ u = <<svc, 0>>
        BY <1>0, <1>1, <1>2, <1>4, <3>1, WhereMainIs DEF Sockets
      <4>2. Handle.nfd \in open /\ Handle.nfd[1] = u
        BY <4>1 DEF SocketsOf
      <4>3. Handle = HandleOf(u)
        BY <4>1 DEF Handle, HandleOf, My
      <4>. QED  BY <4>2, <4>3 DEF HasSocket
    <3>2. CASE p # 0
      BY <1>0, <1>1, <1>2, <1>4, <3>2 DEF Receives
    <3>. QED  BY <3>1, <3>2
  <2>2. HandleOf(u)' = HandleOf(u) /\ \A w \in User : HandleOf(w)' = HandleOf(w)
    BY <1>1 DEF HandleOf
  <2>3. \A w \in User : HasSocket(w)' <=> HasSocket(w)
    BY <1>1, <2>2 DEF HasSocket
  <2>4. ASSUME NEW w \in User, data'[w] # Nowhere
        PROVE  /\ At(ilist', data'[w]).id = w /\ hd[w] # Nowhere
               /\ HandleOf(w)'.id = w /\ HasSocket(w)'
    <3>1. CASE w = u
      BY <1>3, <1>4, <1>5, <1>6, <1>15, <2>1, <2>2, <2>3, <3>1
    <3>2. CASE w # u
      <4>1. data[w] # Nowhere
        BY <1>1, <1>4, <2>4, <3>2, <1>0 DEF TypeOK
      <4>2. /\ At(ilist, data[w]).id = w /\ hd[w] # Nowhere
            /\ HandleOf(w).id = w /\ HasSocket(w)
        BY <1>0, <4>1 DEF Receives
      <4>. QED  BY <1>6, <2>2, <2>3, <3>2, <4>1, <4>2
    <3>. QED  BY <3>1, <3>2
  <2>5. ASSUME NEW k \in Service, ret'[k] = "ok", Program[k] = "udp"
        PROVE  data'[<<k, 0>>] # Nowhere
    <3>1. CASE p = 0 /\ k = svc
      BY <1>2, <1>4, <1>6, <3>1
    <3>2. CASE ~(p = 0 /\ k = svc)
      <4>1. <<k, 0>> # u /\ <<k, 0>> \in User
        BY <1>2, <1>4, <3>2, Services, ServiceAssumption
      <4>2. ret[k] = "ok"
        BY <1>8, <2>5, <3>2
      <4>. QED  BY <1>0, <1>6, <2>5, <4>1, <4>2 DEF Receives
    <3>. QED  BY <3>1, <3>2
  <2>6. \A q \in Service : q \in Thread /\ pc'[q] \notin {"findData", "post"}
    BY <1>17, WhereMainIs DEF Thread
  <2>. QED  BY <1>1, <1>17, <2>4, <2>5, <2>6 DEF Receives
<1>. QED
  BY <1>7, <1>10, <1>11, <1>13, <1>14, <1>16, <1>18, <1>19, <1>20, <1>21 DEF IInv

-----------------------------------------------------------------------------
(* The invariant *)

LEMMA InitHolds ==
  ASSUME Init
  PROVE  IInv
<1>1. /\ hlist = NewList /\ ilist = NewList /\ open = {}
      /\ \A u \in User : hd[u] = Nowhere /\ data[u] = Nowhere
      /\ svc = 0 /\ \A p \in Thread : pc[p] = "idle"
      /\ \A k \in Service : ret[k] = "none"
  BY DEF Init
<1>2. pc[0] = "idle" /\ \A k \in Service : pc[k] = "idle"
  BY <1>1, Services
<1>3. TypeOK
  BY ServiceAssumption DEF Init, TypeOK, Nowhere
<1>4. Chained(NewList) /\ Used(NewList) = {}
  <2> DEFINE c == <<1>>
             s == <<EmptySlab>>
  <2>1. Fresh \in Elem /\ Fresh.id = Zero
    BY DEF Fresh, Element, Elem
  <2>2. EmptySlab \in Slab /\ \A i \in 1 .. SlabLen : EmptySlab[i].id = Zero
    BY <2>1 DEF EmptySlab, Slab
  <2>3. c \in Seq(Nat) /\ Len(c) = 1 /\ c[1] = 1
    OBVIOUS
  <2>4. s \in Seq(Slab) /\ Len(s) = 1 /\ s[1] = EmptySlab
    BY <2>2
  <2>5. /\ NewList \in [chain : Seq(Nat), slabs : Seq(Slab)]
        /\ NewList.chain = c /\ NewList.slabs = s
    <3>1. NewList = [chain |-> c, slabs |-> s]
      BY DEF NewList
    <3> HIDE DEF c, s
    <3>. QED  BY <2>3, <2>4, <3>1
  <2> HIDE DEF c, s
  <2>6. Chained(NewList)
    <3>0. Len(NewList.slabs) = 1 /\ Len(NewList.chain) = 1
      BY <2>3, <2>4, <2>5, Zenon
    <3>1. Len(NewList.slabs) > 0 /\ Len(NewList.chain) = Len(NewList.slabs)
      BY <3>0
    <3>2. \A j \in 1 .. Len(NewList.slabs) : NewList.chain[j] = j
      BY <2>3, <2>4, <2>5
    <3>. QED  BY <2>5, <3>1, <3>2, Zenon DEF Chained
  <2>7. Used(NewList) = {}
    BY <2>2, <2>4, <2>5 DEF Used, Places, At
  <2>. QED  BY <2>6, <2>7
<1>5. Handles /\ Data
  BY <1>1, <1>4 DEF Handles, Data, Owned, Distinct
<1>6. OneAppends /\ ModeOf /\ Returned
  BY <1>1, <1>2, WhereMainIs DEF OneAppends, ModeOf, Returned
<1>7. \A p \in Thread : pc[p] \notin Taking \cup Having \cup {"post", "joined"}
  BY <1>1 DEF Taking, Having, Bound, Modes
<1>8. WhoHas
  <2>1. \A k \in Service, n \in 0 .. MaxAccepts : hd[<<k, n>>] = Nowhere
    BY <1>1, Services
  <2>. QED  BY <1>7, <2>1, ServiceAssumption DEF WhoHas
<1>9. Finding /\ Attached
  BY <1>7, WhereMainIs DEF Finding, Attached, Taking
<1>10. Sockets
  <2>1. \A k \in Service : SocketsOf(k) = {}
    BY <1>1 DEF SocketsOf
  <2>. QED  BY <1>1, <1>2, <2>1, WhereMainIs DEF Sockets, SocketsClosed, Taking
<1>11. Receives
  <2>1. \A k \in Service : k \in Thread /\ ret[k] # "ok" /\ pc[k] \notin {"findData", "post"}
    BY <1>1 DEF Thread
  <2>. QED  BY <1>1, <1>7, <2>1 DEF Receives
<1>. QED  BY <1>3, <1>5, <1>6, <1>8, <1>9, <1>10, <1>11 DEF IInv

LEMMA StutterHolds ==
  ASSUME IInv, UNCHANGED vars
  PROVE  IInv'
<1>0. /\ TypeOK /\ Handles /\ Data /\ OneAppends /\ ModeOf /\ Returned /\ WhoHas
      /\ Finding /\ Attached /\ Sockets /\ Receives
  BY DEF IInv
<1>1. /\ hlist' = hlist /\ hd' = hd /\ ilist' = ilist /\ data' = data /\ found' = found
      /\ open' = open /\ pc' = pc /\ svc' = svc /\ left' = left /\ rleft' = rleft
      /\ ret' = ret /\ conns' = conns
  BY DEF vars
<1>2. TypeOK' /\ Handles' /\ Data' /\ OneAppends'
  BY <1>0, <1>1 DEF TypeOK, Handles, Data, OneAppends
<1>3. ModeOf' /\ Returned'
  BY <1>0, <1>1 DEF ModeOf, Returned, Mode
<1>4. WhoHas' /\ Finding' /\ Attached'
  BY <1>0, <1>1 DEF WhoHas, Finding, Attached, HandleOf, Me
<1>5. Sockets'
  BY <1>0, <1>1 DEF Sockets, SocketsClosed, SocketsOf, Handle, My
<1>6. Receives'
  BY <1>0, <1>1 DEF Receives, HasSocket, HandleOf, Me
<1>. QED  BY <1>2, <1>3, <1>4, <1>5, <1>6 DEF IInv

LEMMA StepHolds ==
  ASSUME ServerOnlyLast, IInv, [Next]_vars
  PROVE  IInv'
<1>1. CASE Create
  BY <1>1, CreateSteps
<1>2. CASE Resolve
  BY <1>2, ResolveSteps
<1>3. CASE Bind
  BY <1>3, BindSteps
<1>4. CASE NoAddress
  BY <1>4, NoAddressSteps
<1>5. CASE Udp
  BY <1>5, UdpSteps
<1>6. CASE Join
  BY <1>6, JoinSteps
<1>7. CASE BindHandleCp
  BY <1>7, BindHandleCpSteps
<1>8. CASE ResolveRemote
  BY <1>8, ResolveRemoteSteps
<1>9. CASE Connect
  BY <1>9, ConnectSteps
<1>10. CASE Unconnected
  BY <1>10, UnconnectedSteps
<1>11. CASE Listen
  BY <1>11, ListenSteps
<1>12. ASSUME NEW p \in Thread, FindHandle(p) \/ FindData(p) PROVE IInv'
  BY <1>12, FindSteps
<1>13. ASSUME NEW p \in Thread, TakeHandle(p) PROVE IInv'
  <2>1. CASE p = 0
    <3>1. TakeHandle(0)
      BY <1>13, <2>1
    <3>. QED  BY <3>1, TakeMainSteps
  <2>2. CASE p \in Service
    BY <1>13, <2>2, TakeServerSteps
  <2>. QED  BY <2>1, <2>2 DEF Thread
<1>14. ASSUME NEW p \in Thread, Post(p) PROVE IInv'
  BY <1>14, PostSteps
<1>15. ASSUME NEW p \in Service, AcceptNext(p) PROVE IInv'
  BY <1>15, AcceptNextSteps
<1>16. ASSUME NEW p \in Service, Accept(p) PROVE IInv'
  BY <1>16, AcceptSteps
<1>17. CASE UNCHANGED vars
  BY <1>17, StutterHolds
<1>. QED
  BY <1>1, <1>2, <1>3, <1>4, <1>5, <1>6, <1>7, <1>8, <1>9, <1>10, <1>11, <1>12, <1>13,
     <1>14, <1>15, <1>16, <1>17 DEF Next, Step

(* The invariant, for any services of which only the last may be a tcp     *)
(* server.                                                                 *)
THEOREM Invariant ==
  ASSUME ServerOnlyLast
  PROVE  Spec => []IInv
<1>1. Init => IInv
  BY InitHolds
<1>2. IInv /\ [Next]_vars => IInv'
  BY StepHolds
<1>. QED  BY <1>1, <1>2, PTL DEF Spec

(* No two services or connections share a handle, and no two receives      *)
(* share their data.                                                       *)
THEOREM OneUserEachAlways ==
  ASSUME ServerOnlyLast
  PROVE  Spec => []OneUserEach
<1>1. IInv => OneUserEach
  BY DEF IInv, Handles, Data, Owned, OneUserEach
<1>. QED  BY <1>1, Invariant, PTL

(* The handles marked in use are those of services and connections.        *)
THEOREM HandlesAccountedForAlways ==
  ASSUME ServerOnlyLast
  PROVE  Spec => []HandlesAccountedFor
<1>1. ASSUME IInv PROVE HandlesAccountedFor
  <2>1. Handles
    BY <1>1 DEF IInv
  <2>2. (DOMAIN hlist.slabs) \X (1 .. SlabLen) = Places(hlist)
    BY <2>1, ChainFields DEF Handles, Places
  <2>3. {place \in (DOMAIN hlist.slabs) \X (1 .. SlabLen) : At(hlist, place).id # Zero}
          = Used(hlist)
    BY <2>2 DEF Used
  <2>4. Nowhere \notin Used(hlist)
    BY <2>1, ElementAt DEF Handles, Used
  <2>5. Used(hlist) = {hd[u] : u \in User} \ {Nowhere}
    BY <2>1, <2>4 DEF Handles, Owned
  <2>. QED  BY <2>3, <2>5 DEF HandlesAccountedFor
<1>. QED  BY <1>1, Invariant, PTL

(* A creation that reports a failure leaves no socket open, one that       *)
(* reports success leaves that of its handle.                              *)
THEOREM SocketsClosedAlways ==
  ASSUME ServerOnlyLast
  PROVE  Spec => []SocketsClosed
<1>1. IInv => SocketsClosed
  BY DEF IInv, Sockets
<1>. QED  BY <1>1, Invariant, PTL

(* Only the step that posts a receive touches the data of users.           *)
LEMMA DataKept ==
  ASSUME Step
  PROVE  data' = data
<1>1. CASE Create \/ NoAddress \/ Unconnected \/ Listen
  BY <1>1 DEF Create, NoAddress, Unconnected, Listen, NextAddress, lists
<1>2. CASE Resolve \/ Bind
  BY <1>2 DEF Resolve, Bind, BindOr, Abort, lists
<1>3. CASE Udp \/ Join \/ BindHandleCp
  BY <1>3 DEF Udp, Join, BindHandleCp, Attach, Abort, NextAddress, lists
<1>4. CASE ResolveRemote \/ Connect
  BY <1>4 DEF ResolveRemote, Connect, Attach, Abort, lists
<1>5. CASE \E p \in Thread : FindHandle(p) \/ TakeHandle(p) \/ FindData(p)
  BY <1>5 DEF FindHandle, TakeHandle, FindData, Find
<1>6. CASE \E p \in Service : AcceptNext(p) \/ Accept(p)
  BY <1>6 DEF AcceptNext, Accept, lists
<1>. QED  BY <1>1, <1>2, <1>3, <1>4, <1>5, <1>6 DEF Step

(* A udp service reported as created has asked for a receive, and every    *)
(* receive that was posted, of a service or of a connection, is in data    *)
(* under its user's id, whose handle is in use and whose socket is open.   *)
THEOREM ReceivesReachTheirUserAlways ==
  ASSUME ServerOnlyLast
  PROVE  Spec => []ReceivesReachTheirUser
<1> DEFINE Posted == \A u \in receiving : u \in User /\ data[u] # Nowhere
<1>1. Init => Posted
  BY DEF Init
<1>2. ASSUME IInv, IInv', Posted, [Next]_vars PROVE Posted'
  <2>1. CASE UNCHANGED vars
    BY <1>2, <2>1 DEF vars
  <2>2. CASE Step /\ UNCHANGED receiving
    BY <1>2, <2>2, DataKept
  <2>3. ASSUME NEW p \in Thread, Post(p) PROVE Posted'
    <3>1. /\ data' = [data EXCEPT ![Me(p)] = Place(ilist, found[p])]
          /\ receiving' \in {receiving, receiving \cup {Me(p)}} /\ pc[p] = "post"
      BY <2>3 DEF Post, Goto
    <3>2. TypeOK /\ Chained(ilist) /\ Free(ilist, found[p])
      BY <1>2, <3>1 DEF IInv, Data, Finding
    <3>3. Me(p) \in User
      <4>1. CASE p = 0
        <5>1. svc \in Service
          BY <1>2, <3>1, <4>1 DEF IInv, OneAppends
        <5>. QED  BY <4>1, <5>1, Services, ServiceAssumption DEF Me
      <4>2. CASE p \in Service
        BY <3>2, <4>2, Services, ServiceAssumption DEF Me, TypeOK
      <4>. QED  BY <4>1, <4>2 DEF Thread
    <3>4. Place(ilist, found[p]) # Nowhere
      <4>1. Fresh \in Elem
        BY DEF Fresh, Element, Elem
      <4>2. Place(ilist, found[p]) \in Places(Taken(ilist, found[p], Fresh))
        BY <3>2, <4>1, TakenIn
      <4>3. Chained(Taken(ilist, found[p], Fresh))
        BY <3>2, <4>1, TakenIn
      <4>. QED  BY <4>2, <4>3, ElementAt
    <3>5. \A u \in User : data'[u] = IF u = Me(p) THEN Place(ilist, found[p]) ELSE data[u]
      BY <3>1, <3>2 DEF TypeOK
    <3>. QED  BY <1>2, <3>1, <3>3, <3>4, <3>5
  <2>. QED  BY <1>2, <2>1, <2>2, <2>3 DEF Next
<1>3. ASSUME IInv, Posted PROVE ReceivesReachTheirUser
  BY <1>3 DEF IInv, Receives, HasSocket, HandleOf, ReceivesReachTheirUser
<1> HIDE DEF Posted
<1>4. IInv /\ IInv' /\ Posted /\ [Next]_vars => Posted'
  BY <1>2
<1>5. IInv /\ Posted => ReceivesReachTheirUser
  BY <1>3
<1>. QED  BY <1>1, <1>4, <1>5, Invariant, PTL DEF Spec
=============================================================================
