--------------------------- MODULE RoutingProofs ---------------------------
(***************************************************************************)
(* Proofs about Routing for every network, every ttl and every number of   *)
(* packets: the tables and links are well formed, and, until the ttl of an *)
(* announcement wraps, routes lead closer to the owner of their address;   *)
(* with them in place, a packet for a host with one device arrives once.   *)
(***************************************************************************)
EXTENDS Routing, FiniteSetTheorems, TLAPS

LEMMA OwnerOfDevice ==
  ASSUME NEW d \in Device
  PROVE  Owner[d] \in Host /\ d \in Devices[Owner[d]]
<1>1. \E h \in Host : Owns(h, d)
  BY RoutingAssumption DEF RoutingAssumption
<1>2. Owner[d] \in Host /\ Owns(Owner[d], d)
  BY <1>1 DEF Owner
<1> QED
  BY <1>2 DEF Devices

\* A device is one host's.
LEMMA OneOwner ==
  ASSUME NEW h \in Host, NEW d \in Devices[h]
  PROVE  d \in Device /\ Owner[d] = h
<1>1. d \in Device
  BY DEF Devices
<1>2. Owner[d] \in Host /\ d \in Devices[Owner[d]]
  BY <1>1, OwnerOfDevice
<1>3. \A g \in Host : g # h => Devices[g] \cap Devices[h] = {}
  BY RoutingAssumption DEF RoutingAssumption
<1> QED
  BY <1>1, <1>2, <1>3

LEMMA ModInRange ==
  ASSUME NEW n \in Nat \ {0}, NEW k \in Int
  PROVE  k % n \in 0 .. (n - 1)
  OBVIOUS

\* Below Width a ttl is kept, and -1 becomes the largest one.
LEMMA ModOfTtl ==
  ASSUME NEW n \in Nat \ {0}
  PROVE  /\ \A k \in 0 .. (n - 1) : k % n = k
         /\ (-1) % n = n - 1
  OBVIOUS

LEMMA PacketType ==
  ASSUME NEW proto \in {"myarp", "ip"}, NEW src \in Device,
         NEW dst \in Device \cup {Broadcast}, NEW ttl \in Int, NEW routed \in BOOLEAN
  PROVE  ConstructIPPacket(proto, src, dst, ttl, routed) \in Frame
<1>1. ttl % Width \in Ttl
  <2>1. Width \in Nat \ {0}
    BY RoutingAssumption DEF RoutingAssumption, Ttl
  <2> QED
    BY <2>1, ModInRange DEF Ttl
<1> QED
  BY <1>1 DEF ConstructIPPacket, Frame

LEMMA TakenType ==
  ASSUME TypeOK, NEW d \in Device, link[d] # <<>>
  PROVE  /\ Taken(d) \in [Device -> Seq(Frame)]
         /\ Head(link[d]) \in Frame
  BY DEF TypeOK, Taken

LEMMA SendType ==
  ASSUME NEW h \in Host, NEW f \in Frame,
         NEW links \in [Device -> Seq(Frame)], SendIPPacket(h, f, links)
  PROVE  link' \in [Device -> Seq(Frame)]
  BY DEF SendIPPacket

LEMMA SendMyArpType ==
  ASSUME NEW h \in Host, NEW a \in Device, NEW ttl \in Int,
         NEW links \in [Device -> Seq(Frame)], SendMyArp(h, a, ttl, links)
  PROVE  link' \in [Device -> Seq(Frame)]
<1> DEFINE f == ConstructIPPacket("myarp", a, Broadcast, ttl, FALSE)
<1>1. f \in Frame
  BY PacketType, Zenon
<1>2. CASE f.ttl \in Followed
  <2>1. SendIPPacket(h, f, links)
    BY <1>2, Zenon DEF SendMyArp
  <2> HIDE DEF f
  <2> QED
    BY <1>1, <2>1, SendType
<1>3. CASE f.ttl \notin Followed
  BY <1>3 DEF SendMyArp
<1> QED
  BY <1>2, <1>3, Zenon
-----------------------------------------------------------------------------
(* Type correctness. *)

LEMMA InitType ==
  ASSUME Init
  PROVE  TypeOK
<1>1. \A h \in Host, a \in Device :
        /\ table[h][a] \in Route \cup {NoRoute}
        /\ table[h][a] # NoRoute => table[h][a].out \in Devices[h]
  <2> TAKE h \in Host, a \in Device
  <2>1. CASE \E d \in Device : <<h, a, d>> \in Static
    <3> DEFINE d == CHOOSE d \in Device : <<h, a, d>> \in Static
    <3>1. d \in Device /\ <<h, a, d>> \in Static
      BY <2>1
    <3>2. d \in Devices[h]
      BY <3>1, RoutingAssumption, Zenon DEF RoutingAssumption
    <3>3. table[h][a] = [out |-> d, ttl |-> StaticTtl]
      BY <2>1, Zenon DEF Init
    <3> HIDE DEF d
    <3> QED
      BY <3>1, <3>2, <3>3 DEF Route
  <2>2. CASE ~ \E d \in Device : <<h, a, d>> \in Static
    BY <2>2 DEF Init
  <2> QED
    BY <2>1, <2>2
<1>2. table \in [Host -> [Device -> Route \cup {NoRoute}]]
  <2>1. table = [h \in Host |-> [a \in Device |-> table[h][a]]]
    BY DEF Init
  <2> QED
    BY <1>1, <2>1
<1>3. \A h \in Host : 0 <= Rounds * Len(currDevice[h])
  <2> TAKE h \in Host
  <2>1. Rounds \in Nat /\ Len(currDevice[h]) \in Nat
    BY RoutingAssumption DEF RoutingAssumption
  <2> QED
    BY <2>1
<1>4. \A h \in Host : announced[h] <= Rounds * Len(currDevice[h])
  BY <1>3 DEF Init
<1>5. /\ link \in [Device -> Seq(Frame)] /\ announced \in [Host -> Nat]
      /\ sent \in Seq(Frame) /\ delivered \in Seq(Frame)
  BY DEF Init
<1>6. \A h \in Host, a \in Device :
        table[h][a] # NoRoute => table[h][a].out \in Devices[h]
  BY <1>1
<1> QED
  BY <1>2, <1>4, <1>5, <1>6 DEF TypeOK

LEMMA SendArpType ==
  ASSUME TypeOK, NEW h \in Host, SendArp(h)
  PROVE  TypeOK'
<1> DEFINE n == Len(currDevice[h])
           a == currDevice[h][(announced[h] % n) + 1]
<1>1. n \in Nat \ {0} /\ currDevice[h] \in Seq(Device)
  BY RoutingAssumption DEF RoutingAssumption
<1>2. announced[h] % n \in 0 .. (n - 1)
  <2>1. announced[h] \in Int
    BY DEF TypeOK
  <2> QED
    BY <1>1, <2>1, ModInRange, Zenon
<1>3. a \in Device
  BY <1>1, <1>2
<1>4. ArpTtl \in Int
  BY RoutingAssumption DEF RoutingAssumption, Ttl
<1>5. SendMyArp(h, a, ArpTtl, link)
  BY DEF SendArp
<1>6. link' \in [Device -> Seq(Frame)]
  <2> HIDE DEF a
  <2> QED
    BY <1>3, <1>4, <1>5, SendMyArpType DEF TypeOK
<1>7. /\ announced' \in [Host -> Nat]
      /\ \A g \in Host : announced'[g] <= Rounds * Len(currDevice[g])
  <2>1. Rounds * n \in Nat
    BY <1>1, RoutingAssumption DEF RoutingAssumption
  <2> QED
    BY <2>1, SMTT(40) DEF SendArp, TypeOK
<1> QED
  BY <1>6, <1>7, Zenon DEF SendArp, TypeOK

LEMMA SendPacketType ==
  ASSUME TypeOK, NEW h \in Host, NEW a \in Targets, Send(h, a)
  PROVE  TypeOK'
<1> DEFINE f == ConstructIPPacket("ip", Head(currDevice[h]), a, PacketTtl, Routed(a))
<1>1. f \in Frame
  <2>1. Head(currDevice[h]) \in Device /\ a \in Device /\ PacketTtl \in Int
    BY RoutingAssumption DEF RoutingAssumption, Ttl
  <2>2. Routed(a) \in BOOLEAN
    BY DEF Routed
  <2> QED
    BY <2>1, <2>2, PacketType
<1>2. SendIPPacket(h, f, link) /\ sent' = Append(sent, f)
  BY DEF Send
<1> HIDE DEF f
<1>3. link' \in [Device -> Seq(Frame)]
  BY <1>1, <1>2, SendType DEF TypeOK
<1> QED
  BY <1>1, <1>2, <1>3 DEF Send, TypeOK

LEMMA RecvArpType ==
  ASSUME TypeOK, NEW d \in Device, RecvArp(d)
  PROVE  TypeOK'
<1> DEFINE h == Owner[d]
           f == Head(link[d])
<1>1. h \in Host /\ d \in Devices[h]
  BY OwnerOfDevice
<1>2. Taken(d) \in [Device -> Seq(Frame)] /\ f \in Frame
  BY TakenType DEF RecvArp
<1>3. f.src \in Device /\ f.ttl \in Ttl /\ HopTtl(f.ttl) \in Int
  BY <1>2 DEF Frame, HopTtl, Ttl
<1>4. SendMyArp(h, f.src, HopTtl(f.ttl), Taken(d))
  BY DEF RecvArp
<1>5. \/ table' = [table EXCEPT ![h][f.src] = RouteBack(d, f)]
      \/ table' = table
  BY DEF RecvArp
<1>6. RouteBack(d, f) \in Route /\ RouteBack(d, f).out = d
  BY <1>3 DEF RouteBack, Route
<1> HIDE DEF h, f
<1>7. link' \in [Device -> Seq(Frame)]
  BY <1>1, <1>2, <1>3, <1>4, SendMyArpType
<1>8. /\ table' \in [Host -> [Device -> Route \cup {NoRoute}]]
      /\ \A g \in Host, a \in Device :
           table'[g][a] # NoRoute => table'[g][a].out \in Devices[g]
  <2>1. CASE table' = table
    BY <2>1 DEF TypeOK
  <2>2. CASE table' = [table EXCEPT ![h][f.src] = RouteBack(d, f)]
    <3> DEFINE r == RouteBack(d, f)
               b == f.src
    <3>1. b \in Device /\ r \in Route /\ r.out \in Devices[h]
      BY <1>1, <1>3, <1>6
    <3>2. table' = [table EXCEPT ![h][b] = r]
      BY <2>2
    <3> HIDE DEF r, b
    <3> QED
      BY <1>1, <3>1, <3>2 DEF TypeOK
  <2> QED
    BY <1>5, <2>1, <2>2
<1> QED
  BY <1>7, <1>8, Zenon DEF RecvArp, TypeOK

LEMMA ForwardType ==
  ASSUME TypeOK, NEW d \in Device, Forward(d)
  PROVE  TypeOK'
<1> DEFINE f == Head(link[d])
           g == ConstructIPPacket("ip", f.src, f.dst, f.ttl - 1, f.routed)
<1>1. Taken(d) \in [Device -> Seq(Frame)] /\ f \in Frame
  BY TakenType DEF Forward
<1>2. g \in Frame
  <2>1. /\ f.src \in Device /\ f.dst \in Device \cup {Broadcast}
        /\ f.ttl - 1 \in Int /\ f.routed \in BOOLEAN
    BY <1>1 DEF Frame, Ttl
  <2> HIDE DEF f
  <2> QED
    BY <2>1, PacketType
<1>3. link' = Taken(d) \/ SendIPPacket(Owner[d], g, Taken(d))
  BY DEF Forward
<1> HIDE DEF g
<1>4. link' \in [Device -> Seq(Frame)]
  BY <1>1, <1>2, <1>3, OwnerOfDevice, SendType
<1> QED
  BY <1>4 DEF Forward, TypeOK

LEMMA StepType == TypeOK /\ [Next]_vars => TypeOK'
<1> SUFFICES ASSUME TypeOK, [Next]_vars
             PROVE  TypeOK'
  OBVIOUS
<1>1. CASE \E h \in Host : SendArp(h)
  BY <1>1, SendArpType
<1>2. CASE \E h \in Host, a \in Targets : Send(h, a)
  BY <1>2, SendPacketType
<1>3. ASSUME NEW d \in Device, ReceiveHere(d)
      PROVE  TypeOK'
  BY <1>3, TakenType DEF ReceiveHere, TypeOK
<1>4. ASSUME NEW d \in Device, RecvOwnArp(d)
      PROVE  TypeOK'
  BY <1>4, TakenType DEF RecvOwnArp, TypeOK
<1>5. CASE \E d \in Device : RecvArp(d)
  BY <1>5, RecvArpType
<1>6. CASE \E d \in Device : Forward(d)
  BY <1>6, ForwardType
<1>7. CASE UNCHANGED vars
  BY <1>7 DEF vars, TypeOK
<1> QED
  BY <1>1, <1>2, <1>3, <1>4, <1>5, <1>6, <1>7 DEF Next, RecvFrame

\* Tables, links and histories are well formed in every network: a route
\* leaves through a device of its host, and a ttl fits the header.
THEOREM RoutingTypeCorrect == Spec => []TypeOK
<1>1. Init => TypeOK
  BY InitType
<1>2. TypeOK /\ [Next]_vars => TypeOK'
  BY StepType
<1> QED
  BY <1>1, <1>2, PTL DEF Spec
-----------------------------------------------------------------------------
(* Routes lead closer, as long as no announcement is followed whose ttl has *)
(* wrapped.  RoutesLeadCloser alone is not inductive: a route is taken from *)
(* an announcement, so the announcements on their way must be right too,    *)
(* and stay right while the tables of their senders change.                 *)

NoWrap == Followed \subseteq 0 .. ArpTtl /\ ArpTtl + 1 < Width

\* By table tab host h owns a, or has a route to it with more than ttl.
Closer(tab, h, a, ttl) ==
  Owns(h, a) \/ (tab[h][a] # NoRoute /\ tab[h][a].ttl > ttl)

\* Each announcement was sent by a host that is closer than it says.
Honest(tab, links) ==
  \A d \in Device : \A i \in DOMAIN links[d] :
    links[d][i].proto = "myarp" =>
      Closer(tab, Owner[Peer[d]], links[d][i].src, links[d][i].ttl)

IInv == TypeOK /\ RoutesLeadCloser /\ Honest(table, link)

\* Every route is kept or replaced by a better one.
Improves == \A h \in Host, a \in Device :
  table[h][a] # NoRoute =>
    table'[h][a] # NoRoute /\ table'[h][a].ttl >= table[h][a].ttl

LEMMA PeerOwner ==
  ASSUME NEW d \in Device
  PROVE  Peer[d] \in Device /\ Owner[Peer[d]] \in Host
  BY OwnerOfDevice, RoutingAssumption DEF RoutingAssumption

LEMMA RouteTtl ==
  ASSUME TypeOK, NEW h \in Host, NEW a \in Device, table[h][a] # NoRoute
  PROVE  table[h][a].ttl \in Nat /\ table[h][a].out \in Device
<1>1. table[h][a] \in Route
  BY DEF TypeOK
<1> QED
  BY <1>1, RoutingAssumption, SMTT(40) DEF RoutingAssumption, Route, Ttl

\* What was closer stays closer.
LEMMA StaysCloser ==
  ASSUME TypeOK, TypeOK', Improves, NEW h \in Host, NEW a \in Device,
         NEW ttl \in Nat, Closer(table, h, a, ttl)
  PROVE  Closer(table', h, a, ttl)
<1>1. CASE Owns(h, a)
  BY <1>1 DEF Closer
<1>2. CASE ~Owns(h, a)
  <2>1. table[h][a] # NoRoute /\ table[h][a].ttl > ttl
    BY <1>2 DEF Closer
  <2>2. table'[h][a] # NoRoute /\ table'[h][a].ttl >= table[h][a].ttl
    BY <2>1 DEF Improves
  <2>3. table[h][a].ttl \in Nat
    BY <2>1, RouteTtl
  <2>4. table'[h][a].ttl \in Nat
    <3>1. table'[h][a] \in Route
      BY <2>2 DEF TypeOK
    <3> QED
      BY <3>1, RoutingAssumption, SMTT(40) DEF RoutingAssumption, Route, Ttl
  <2>5. table'[h][a].ttl > ttl
    BY <2>1, <2>2, <2>3, <2>4
  <2> QED
    BY <2>2, <2>5 DEF Closer
<1> QED
  BY <1>1, <1>2

LEMMA LinksStayHonest ==
  ASSUME TypeOK, TypeOK', Improves, Honest(table, link)
  PROVE  Honest(table', link)
<1> SUFFICES ASSUME NEW d \in Device, NEW i \in DOMAIN link[d],
                    link[d][i].proto = "myarp"
             PROVE  Closer(table', Owner[Peer[d]], link[d][i].src, link[d][i].ttl)
  BY DEF Honest
<1> DEFINE f == link[d][i]
<1>1. f \in Frame
  BY DEF TypeOK
<1>2. f.src \in Device /\ f.ttl \in Nat
  BY <1>1 DEF Frame, Ttl
<1>3. Closer(table, Owner[Peer[d]], f.src, f.ttl)
  BY DEF Honest
<1> HIDE DEF f
<1>4. Closer(table', Owner[Peer[d]], f.src, f.ttl)
  BY <1>2, <1>3, PeerOwner, StaysCloser
<1> QED
  BY <1>4 DEF f

\* Taking a frame leaves the others.
LEMMA TakenHonest ==
  ASSUME TypeOK, NEW tab, Honest(tab, link), NEW d \in Device, link[d] # <<>>
  PROVE  Honest(tab, Taken(d))
<1> SUFFICES ASSUME NEW e \in Device, NEW i \in DOMAIN Taken(d)[e],
                    Taken(d)[e][i].proto = "myarp"
             PROVE  Closer(tab, Owner[Peer[e]], Taken(d)[e][i].src, Taken(d)[e][i].ttl)
  BY DEF Honest
<1>1. link[d] \in Seq(Frame) /\ link[e] \in Seq(Frame)
  BY DEF TypeOK
<1>2. \E j \in DOMAIN link[e] : Taken(d)[e][i] = link[e][j]
  <2>1. CASE e = d
    <3>1. Taken(d)[e] = Tail(link[d])
      BY <2>1 DEF Taken, TypeOK
    <3>2. i \in 1 .. (Len(link[d]) - 1) /\ Tail(link[d])[i] = link[d][i + 1]
      BY <1>1, <3>1
    <3>3. i + 1 \in DOMAIN link[d]
      BY <1>1, <3>2
    <3> QED
      BY <2>1, <3>1, <3>2, <3>3
  <2>2. CASE e # d
    <3>1. Taken(d)[e] = link[e]
      BY <2>2 DEF Taken, TypeOK
    <3> QED
      BY <3>1
  <2> QED
    BY <2>1, <2>2
<1> QED
  BY <1>2 DEF Honest

\* A host that is closer than its announcement says keeps the links honest.
LEMMA SendHonest ==
  ASSUME TypeOK, NEW tab, NEW h \in Host, NEW f \in Frame,
         NEW links \in [Device -> Seq(Frame)],
         Honest(tab, links), SendIPPacket(h, f, links),
         f.proto = "myarp" => Closer(tab, h, f.src, f.ttl)
  PROVE  Honest(tab, link')
<1> SUFFICES ASSUME NEW d \in Device, NEW i \in DOMAIN link'[d],
                    link'[d][i].proto = "myarp"
             PROVE  Closer(tab, Owner[Peer[d]], link'[d][i].src, link'[d][i].ttl)
  BY DEF Honest
<1> DEFINE outs == LookForRoute(h, f.dst)
<1>1. link'[d] = IF Peer[d] \in outs THEN Append(links[d], f) ELSE links[d]
  BY DEF SendIPPacket
<1>2. CASE i \in DOMAIN links[d]
  <2>1. link'[d][i] = links[d][i]
    BY <1>1, <1>2
  <2> QED
    BY <1>2, <2>1 DEF Honest
<1>3. CASE i \notin DOMAIN links[d]
  <2>1. Peer[d] \in outs /\ link'[d] = Append(links[d], f)
    BY <1>1, <1>3
  <2>2. link'[d][i] = f
    BY <1>3, <2>1
  <2>3. outs \subseteq Devices[h]
    BY DEF LookForRoute, Frame, TypeOK
  <2>4. Owner[Peer[d]] = h
    BY <2>1, <2>3, OneOwner
  <2> QED
    BY <2>2, <2>4
<1> QED
  BY <1>2, <1>3

LEMMA SendMyArpHonest ==
  ASSUME NoWrap, TypeOK, NEW tab, NEW h \in Host, NEW a \in Device,
         NEW ttl \in -1 .. (Width - 1),
         NEW links \in [Device -> Seq(Frame)], Honest(tab, links),
         SendMyArp(h, a, ttl, links), ttl >= 0 => Closer(tab, h, a, ttl)
  PROVE  Honest(tab, link')
<1> DEFINE f == ConstructIPPacket("myarp", a, Broadcast, ttl, FALSE)
<1>1. Width \in Nat \ {0} /\ ArpTtl \in Nat /\ ArpTtl + 1 < Width
  BY RoutingAssumption DEF RoutingAssumption, NoWrap, Ttl
<1>2. f \in Frame
  <2>1. ttl \in Int
    BY <1>1
  <2> QED
    BY <2>1, PacketType, Zenon
<1>3. f.proto = "myarp" /\ f.src = a /\ f.ttl = ttl % Width
  BY DEF ConstructIPPacket
<1>4. CASE f.ttl \in Followed
  <2>1. ttl % Width \in 0 .. ArpTtl
    BY <1>3, <1>4, Zenon DEF NoWrap
  <2>2. ttl >= 0 /\ ttl % Width = ttl
    <3>1. CASE ttl = -1
      <4>1. ttl % Width = Width - 1
        BY <1>1, <3>1, ModOfTtl, Zenon
      <4> QED
        BY <1>1, <2>1, <4>1
    <3>2. CASE ttl # -1
      <4>1. ttl \in 0 .. (Width - 1)
        BY <1>1, <3>2
      <4>2. ttl % Width = ttl
        BY <1>1, <4>1, ModOfTtl, Zenon
      <4> QED
        BY <4>1, <4>2
    <3> QED
      BY <3>1, <3>2
  <2>3. SendIPPacket(h, f, links)
    BY <1>4, Zenon DEF SendMyArp
  <2> HIDE DEF f
  <2> QED
    BY <1>2, <1>3, <2>2, <2>3, SendHonest
<1>5. CASE f.ttl \notin Followed
  <2>1. link' = links
    BY <1>5 DEF SendMyArp
  <2> QED
    BY <2>1
<1> QED
  BY <1>4, <1>5, Zenon

\* Better routes elsewhere do not make a route that stays worse.
LEMMA RoutesStayCloser ==
  ASSUME TypeOK, TypeOK', Improves, RoutesLeadCloser,
         NEW h \in Host, NEW a \in Device,
         table[h][a] # NoRoute, table[h][a].ttl # StaticTtl,
         table'[h][a] = table[h][a]
  PROVE  Closer(table', Owner[Peer[table'[h][a].out]], a, table'[h][a].ttl)
<1> DEFINE n == Owner[Peer[table[h][a].out]]
           ttl == table[h][a].ttl
<1>1. ttl \in Nat /\ n \in Host
  BY RouteTtl, PeerOwner, SMTT(40)
<1>2. Closer(table, n, a, ttl)
  BY Zenon DEF RoutesLeadCloser, NextHop, Closer
<1> HIDE DEF n, ttl
<1>3. Closer(table', n, a, ttl)
  BY <1>1, <1>2, StaysCloser
<1> QED
  BY <1>3 DEF n, ttl

LEMMA SameTable ==
  ASSUME IInv, TypeOK', table' = table
  PROVE  /\ Improves
         /\ RoutesLeadCloser'
<1>1. Improves
  BY RouteTtl, SMTT(40) DEF Improves, IInv
<1>2. RoutesLeadCloser'
  BY Zenon DEF IInv, RoutesLeadCloser, NextHop
<1> QED
  BY <1>1, <1>2

\* A step that leaves the table alone and the links honest keeps IInv.
LEMMA LinkStep ==
  ASSUME IInv, TypeOK', table' = table, Honest(table, link')
  PROVE  IInv'
  BY SameTable DEF IInv

LEMMA SendArpStep ==
  ASSUME NoWrap, IInv, TypeOK', NEW h \in Host, SendArp(h)
  PROVE  IInv'
<1> DEFINE n == Len(currDevice[h])
           a == currDevice[h][(announced[h] % n) + 1]
<1>1. n \in Nat \ {0} /\ currDevice[h] \in Seq(Device)
  BY RoutingAssumption DEF RoutingAssumption
<1>2. announced[h] % n \in 0 .. (n - 1)
  <2>1. announced[h] \in Int
    BY DEF IInv, TypeOK
  <2> QED
    BY <1>1, <2>1, ModInRange, Zenon
<1>3. a \in Device /\ Owns(h, a)
  <2>1. (announced[h] % n) + 1 \in DOMAIN currDevice[h]
    BY <1>1, <1>2
  <2> QED
    BY <1>1, <2>1 DEF Owns
<1>4. ArpTtl \in -1 .. (Width - 1)
  BY RoutingAssumption DEF RoutingAssumption, Ttl
<1>5. SendMyArp(h, a, ArpTtl, link) /\ table' = table
  BY DEF SendArp
<1> HIDE DEF a
<1>6. Closer(table, h, a, ArpTtl)
  BY <1>3 DEF Closer
<1>7. Honest(table, link')
  BY <1>3, <1>4, <1>5, <1>6, SendMyArpHonest DEF IInv, TypeOK
<1> QED
  BY <1>5, <1>7, LinkStep

LEMMA SendPacketStep ==
  ASSUME IInv, TypeOK', NEW h \in Host, NEW a \in Targets, Send(h, a)
  PROVE  IInv'
<1> DEFINE f == ConstructIPPacket("ip", Head(currDevice[h]), a, PacketTtl, Routed(a))
<1>1. f \in Frame /\ f.proto = "ip"
  <2>1. Head(currDevice[h]) \in Device /\ a \in Device /\ PacketTtl \in Int
    BY RoutingAssumption DEF RoutingAssumption, Ttl
  <2>2. Routed(a) \in BOOLEAN
    BY DEF Routed
  <2>3. f \in Frame
    BY <2>1, <2>2, PacketType
  <2> QED
    BY <2>3 DEF ConstructIPPacket
<1>2. SendIPPacket(h, f, link) /\ table' = table
  BY DEF Send
<1> HIDE DEF f
<1>3. Honest(table, link')
  BY <1>1, <1>2, SendHonest, Zenon DEF IInv, TypeOK
<1> QED
  BY <1>2, <1>3, LinkStep

LEMMA ForwardStep ==
  ASSUME IInv, TypeOK', NEW d \in Device, Forward(d)
  PROVE  IInv'
<1> DEFINE f == Head(link[d])
           g == ConstructIPPacket("ip", f.src, f.dst, f.ttl - 1, f.routed)
<1>1. Taken(d) \in [Device -> Seq(Frame)] /\ f \in Frame
  BY TakenType DEF Forward, IInv
<1>2. Honest(table, Taken(d))
  BY TakenHonest DEF Forward, IInv
<1>3. g \in Frame /\ g.proto = "ip"
  <2>1. /\ f.src \in Device /\ f.dst \in Device \cup {Broadcast}
        /\ f.ttl - 1 \in Int /\ f.routed \in BOOLEAN
    BY <1>1 DEF Frame, Ttl
  <2> HIDE DEF f
  <2>2. g \in Frame
    BY <2>1, PacketType
  <2> QED
    BY <2>2 DEF ConstructIPPacket
<1>4. /\ link' = Taken(d) \/ SendIPPacket(Owner[d], g, Taken(d))
      /\ table' = table
  BY DEF Forward
<1> HIDE DEF g
<1>5. Honest(table, link')
  BY <1>1, <1>2, <1>3, <1>4, OwnerOfDevice, SendHonest DEF IInv
<1> QED
  BY <1>4, <1>5, LinkStep

\* The step that takes routes: a better route is taken from a host that is
\* closer, and what is sent on is one hop less than the route now known.
LEMMA RecvArpStep ==
  ASSUME NoWrap, IInv, TypeOK', NEW d \in Device, RecvArp(d)
  PROVE  IInv'
<1> DEFINE h == Owner[d]
           n == Owner[Peer[d]]
           f == Head(link[d])
           a == f.src
           ttl == f.ttl
<1>1. h \in Host /\ n \in Host
  BY OwnerOfDevice, PeerOwner
<1>2. Taken(d) \in [Device -> Seq(Frame)] /\ f \in Frame
  BY TakenType DEF RecvArp, IInv
<1>3. a \in Device /\ ttl \in Ttl /\ ttl \in 0 .. (Width - 1)
  BY <1>2 DEF Frame, Ttl
<1>4. Closer(table, n, a, ttl)
  <2>1. link[d] # <<>> /\ link[d] \in Seq(Frame) /\ f.proto = "myarp"
    BY DEF RecvArp, IInv, TypeOK
  <2>2. 1 \in DOMAIN link[d] /\ f = link[d][1]
    BY <2>1
  <2> QED
    BY <2>1, <2>2 DEF IInv, Honest
<1>5. /\ SendMyArp(h, a, ttl - 1, Taken(d))
      /\ IF table[h][a] = NoRoute \/ table[h][a].ttl < ttl
         THEN table' = [table EXCEPT ![h][a] = [out |-> d, ttl |-> ttl]]
         ELSE table' = table
  BY DEF RecvArp, HopTtl, IsBetter, RouteBack
<1>6. Honest(table, Taken(d))
  BY TakenHonest DEF RecvArp, IInv
<1> HIDE DEF h, n, a, ttl
<1>7. table' = table
        \/ ((table[h][a] = NoRoute \/ table[h][a].ttl < ttl)
            /\ table'[h][a] = [out |-> d, ttl |-> ttl])
  BY <1>1, <1>3, <1>5 DEF IInv, TypeOK
<1>8. \A g \in Host, b \in Device :
        table'[g][b] = table[g][b] \/ (g = h /\ b = a /\ table' # table)
  BY <1>1, <1>3, <1>5, SMTT(40) DEF IInv, TypeOK
<1>9. table[h][a] # NoRoute => table[h][a].ttl \in Nat
  BY <1>1, <1>3, RouteTtl DEF IInv
<1>10. [out |-> d, ttl |-> ttl] # NoRoute
  <2>1. [out |-> d, ttl |-> ttl] \in Route
    BY <1>3 DEF Route
  <2> QED
    BY <2>1, NoRouteAssumption DEF NoRouteAssumption
<1>11. Improves
  <2> SUFFICES ASSUME NEW g \in Host, NEW b \in Device, table[g][b] # NoRoute
               PROVE  table'[g][b] # NoRoute /\ table'[g][b].ttl >= table[g][b].ttl
    BY DEF Improves
  <2>1. CASE table'[g][b] = table[g][b]
    BY <2>1, RouteTtl DEF IInv
  <2>2. CASE table'[g][b] # table[g][b]
    <3>1. g = h /\ b = a /\ table' # table
      BY <1>8, <2>2
    <3> QED
      BY <1>3, <1>7, <1>9, <1>10, <3>1
  <2> QED
    BY <2>1, <2>2
<1>12. Closer(table', h, a, ttl - 1)
  <2>1. CASE table' = table
    <3>1. table[h][a] # NoRoute /\ ~(table[h][a].ttl < ttl)
      BY <1>1, <1>3, <1>5, <1>10, <2>1, SMTT(40) DEF IInv, TypeOK
    <3> QED
      BY <1>3, <1>9, <2>1, <3>1 DEF Closer
  <2>2. CASE table' # table
    BY <1>3, <1>7, <1>10, <2>2 DEF Closer
  <2> QED
    BY <2>1, <2>2
<1>13. Honest(table', link')
  <2>1. Honest(table', link)
    BY <1>11, LinksStayHonest DEF IInv
  <2>2. Honest(table', Taken(d))
    BY <2>1, TakenHonest DEF RecvArp, IInv
  <2>3. ttl - 1 \in -1 .. (Width - 1)
    <3>1. Width \in Nat
      BY RoutingAssumption DEF RoutingAssumption
    <3> QED
      BY <1>3, <3>1
  <2> QED
    BY <1>1, <1>2, <1>3, <1>5, <1>12, <2>2, <2>3, SendMyArpHonest DEF IInv
<1>14. RoutesLeadCloser'
  <2> SUFFICES ASSUME NEW g \in Host, NEW b \in Device,
                      table'[g][b] # NoRoute, table'[g][b].ttl # StaticTtl
               PROVE  Closer(table', Owner[Peer[table'[g][b].out]], b, table'[g][b].ttl)
    BY Zenon DEF RoutesLeadCloser, NextHop, Closer
  <2>1. CASE table'[g][b] = table[g][b]
    BY <1>11, <2>1, RoutesStayCloser DEF IInv
  <2>2. CASE table'[g][b] # table[g][b]
    <3>1. g = h /\ b = a /\ table'[h][a] = [out |-> d, ttl |-> ttl]
      BY <1>7, <1>8, <2>2
    <3>2. Closer(table', n, a, ttl)
      BY <1>1, <1>3, <1>4, <1>11, StaysCloser DEF IInv
    <3> QED
      BY <3>1, <3>2 DEF n
  <2> QED
    BY <2>1, <2>2, SMTT(40)
<1> QED
  BY <1>13, <1>14 DEF IInv

LEMMA Inductive == NoWrap /\ IInv /\ [Next]_vars => IInv'
<1> SUFFICES ASSUME NoWrap, IInv, [Next]_vars
             PROVE  IInv'
  OBVIOUS
<1>1. TypeOK'
  BY StepType DEF IInv
<1>2. ASSUME NEW h \in Host, SendArp(h)
      PROVE  IInv'
  BY <1>1, <1>2, SendArpStep
<1>3. ASSUME NEW h \in Host, NEW a \in Targets, Send(h, a)
      PROVE  IInv'
  BY <1>1, <1>3, SendPacketStep
<1>4. ASSUME NEW d \in Device, ReceiveHere(d) \/ RecvOwnArp(d)
      PROVE  IInv'
  <2>1. link[d] # <<>> /\ link' = Taken(d) /\ table' = table
    BY <1>4 DEF ReceiveHere, RecvOwnArp
  <2>2. Honest(table, Taken(d))
    BY <2>1, TakenHonest DEF IInv
  <2> QED
    BY <1>1, <2>1, <2>2, LinkStep
<1>5. ASSUME NEW d \in Device, RecvArp(d)
      PROVE  IInv'
  BY <1>1, <1>5, RecvArpStep
<1>6. ASSUME NEW d \in Device, Forward(d)
      PROVE  IInv'
  BY <1>1, <1>6, ForwardStep
<1>7. CASE UNCHANGED vars
  BY <1>1, <1>7, LinkStep DEF vars, IInv
<1> QED
  BY <1>2, <1>3, <1>4, <1>5, <1>6, <1>7 DEF Next, RecvFrame

LEMMA InitCloser ==
  ASSUME Init
  PROVE  IInv
<1>1. Honest(table, link)
  BY DEF Init, Honest
<1>2. \A h \in Host, a \in Device :
        table[h][a] # NoRoute => table[h][a].ttl = StaticTtl
  BY Zenon DEF Init
<1> QED
  BY <1>1, <1>2, InitType DEF IInv, RoutesLeadCloser

\* In every network, whatever is announced and in whatever order the frames
\* are taken: as long as the announcements followed have not wrapped, each
\* route learned by recvArp leads to a host with a better one, so that the
\* learned routes form no loop.
THEOREM RoutesFormNoLoop ==
  ASSUME NoWrap
  PROVE  Spec => []RoutesLeadCloser
<1>1. Init => IInv
  BY InitCloser
<1>2. IInv /\ [Next]_vars => IInv'
  BY Inductive
<1>3. IInv => RoutesLeadCloser
  BY DEF IInv
<1> QED
  BY <1>1, <1>2, <1>3, PTL DEF Spec
-----------------------------------------------------------------------------
(* Counting routed frames.                                                  *)

LEMMA InPlaces ==
  ASSUME NEW links, NEW d, NEW i
  PROVE  <<d, i>> \in Places(links)
           <=> d \in Device /\ i \in DOMAIN links[d] /\ links[d][i].routed
  BY DEF Places, RoutedIn

LEMMA PlaceIsPair ==
  ASSUME NEW links, NEW p \in Places(links)
  PROVE  p = <<p[1], p[2]>>
  BY DEF Places, RoutedIn

LEMMA RoutedFinite ==
  ASSUME NEW frames \in Seq(Frame)
  PROVE  IsFiniteSet(RoutedIn(frames)) /\ Cardinality(RoutedIn(frames)) \in Nat
<1>1. Len(frames) \in Nat /\ DOMAIN frames = 1 .. Len(frames)
  OBVIOUS
<1>2. IsFiniteSet(1 .. Len(frames))
  BY <1>1, FS_Interval
<1>3. RoutedIn(frames) \in SUBSET (1 .. Len(frames))
  BY <1>1 DEF RoutedIn
<1>4. IsFiniteSet(RoutedIn(frames))
  BY <1>2, <1>3, FS_Subset
<1> QED
  BY <1>4, FS_CardinalityType

LEMMA AppendRouted ==
  ASSUME NEW frames \in Seq(Frame), NEW f \in Frame
  PROVE  Cardinality(RoutedIn(Append(frames, f))) =
           Cardinality(RoutedIn(frames)) + (IF f.routed THEN 1 ELSE 0)
<1> DEFINE R == RoutedIn(frames)
           n == Len(frames) + 1
<1>1. IsFiniteSet(R) /\ Cardinality(R) \in Nat
  BY RoutedFinite
<1>2. n \in Nat /\ n \notin R
  BY DEF RoutedIn
<1>3. CASE f.routed
  <2>1. RoutedIn(Append(frames, f)) = R \cup {n}
    BY <1>3 DEF RoutedIn
  <2> HIDE DEF R, n
  <2>2. Cardinality(R \cup {n}) = Cardinality(R) + 1
    BY <1>1, <1>2, FS_AddElement, Zenon
  <2> QED
    BY <1>3, <2>1, <2>2 DEF R
<1>4. CASE ~f.routed
  <2>1. RoutedIn(Append(frames, f)) = R
    BY <1>4 DEF RoutedIn
  <2> HIDE DEF R, n
  <2>2. Cardinality(R) = Cardinality(R) + 0
    BY <1>1
  <2> QED
    BY <1>4, <2>1, <2>2 DEF R
<1> QED
  BY <1>3, <1>4

\* Taking a frame takes its place, if it is routed, and moves up the others.
LEMMA TakenPlaces ==
  ASSUME TypeOK, NEW d \in Device, link[d] # <<>>, IsFiniteSet(Places(link))
  PROVE  /\ IsFiniteSet(Places(Taken(d)))
         /\ Cardinality(Places(Taken(d))) =
              Cardinality(Places(link)) - (IF Head(link[d]).routed THEN 1 ELSE 0)
<1> DEFINE first == <<d, 1>>
           S == Places(link) \ {first}
           T == Places(Taken(d))
           moved == [p \in S |-> IF p[1] = d THEN <<d, p[2] - 1>> ELSE p]
<1>1. link[d] \in Seq(Frame) /\ Len(link[d]) \in Nat \ {0}
  BY DEF TypeOK
<1>2. /\ Taken(d)[d] = Tail(link[d])
      /\ \A e \in Device : e # d => Taken(d)[e] = link[e]
  BY DEF TypeOK, Taken
<1>3. \A i : <<d, i>> \in T <=>
        i \in 1 .. (Len(link[d]) - 1) /\ link[d][i + 1].routed
  <2> TAKE i
  <2>1. DOMAIN Tail(link[d]) = 1 .. (Len(link[d]) - 1)
    BY <1>1
  <2>2. i \in 1 .. (Len(link[d]) - 1) => Tail(link[d])[i] = link[d][i + 1]
    BY <1>1
  <2>3. <<d, i>> \in T <=> i \in DOMAIN Tail(link[d]) /\ Tail(link[d])[i].routed
    BY <1>2, InPlaces, Zenon
  <2> QED
    BY <2>1, <2>2, <2>3
<1>4. \A i : <<d, i>> \in S <=>
        i \in 2 .. Len(link[d]) /\ link[d][i].routed
  <2> TAKE i
  <2>1. <<d, i>> \in Places(link) <=> i \in 1 .. Len(link[d]) /\ link[d][i].routed
    BY <1>1, InPlaces
  <2>2. <<d, i>> # first <=> i # 1
    OBVIOUS
  <2> QED
    BY <1>1, <2>1, <2>2
<1>5. \A e, i : e # d => (<<e, i>> \in T <=> <<e, i>> \in S)
  BY <1>2, InPlaces
<1>6. /\ \A p \in S : p = <<p[1], p[2]>>
      /\ \A p \in T : p = <<p[1], p[2]>>
  BY PlaceIsPair
<1>7. moved \in [S -> T]
  <2> SUFFICES ASSUME NEW p \in S
               PROVE  (IF p[1] = d THEN <<d, p[2] - 1>> ELSE p) \in T
    OBVIOUS
  <2>1. CASE p[1] = d
    <3>1. p[2] \in 2 .. Len(link[d]) /\ link[d][p[2]].routed
      BY <1>4, <1>6, <2>1
    <3> DEFINE j == p[2] - 1
    <3>2. j \in 1 .. (Len(link[d]) - 1) /\ j + 1 = p[2]
      BY <1>1, <3>1
    <3> HIDE DEF j
    <3>3. <<d, j>> \in T
      BY <1>3, <3>1, <3>2
    <3> QED
      BY <2>1, <3>3 DEF j
  <2>2. CASE p[1] # d
    BY <1>5, <1>6, <2>2
  <2> QED
    BY <2>1, <2>2
<1>8. \A p, q \in S : moved[p] = moved[q] => p = q
  <2> SUFFICES ASSUME NEW p \in S, NEW q \in S, moved[p] = moved[q]
               PROVE  p = q
    OBVIOUS
  <2>1. p = <<p[1], p[2]>> /\ q = <<q[1], q[2]>>
    BY <1>6
  <2>2. /\ moved[p] = IF p[1] = d THEN <<d, p[2] - 1>> ELSE p
        /\ moved[q] = IF q[1] = d THEN <<d, q[2] - 1>> ELSE q
    OBVIOUS
  <2> HIDE DEF moved
  <2>3. CASE p[1] = d /\ q[1] = d
    <3>1. p[2] \in Int /\ q[2] \in Int
      BY <1>1, <1>4, <1>6, <2>3
    <3>2. <<d, p[2] - 1>> = <<d, q[2] - 1>>
      BY <2>2, <2>3, Zenon
    <3>3. p[2] - 1 = q[2] - 1
      BY <3>2
    <3> QED
      BY <2>1, <2>3, <3>1, <3>3
  <2>4. CASE p[1] # d /\ q[1] # d
    BY <2>2, <2>4, Zenon
  <2>5. CASE p[1] = d /\ q[1] # d
    <3>1. <<d, p[2] - 1>> = <<q[1], q[2]>>
      BY <2>1, <2>2, <2>5, Zenon
    <3> QED
      BY <2>5, <3>1
  <2>6. CASE p[1] # d /\ q[1] = d
    <3>1. <<p[1], p[2]>> = <<d, q[2] - 1>>
      BY <2>1, <2>2, <2>6, Zenon
    <3> QED
      BY <2>6, <3>1
  <2> QED
    BY <2>3, <2>4, <2>5, <2>6
<1>9. \A t \in T : \E p \in S : moved[p] = t
  <2> SUFFICES ASSUME NEW t \in T
               PROVE  \E p \in S : moved[p] = t
    OBVIOUS
  <2>1. t = <<t[1], t[2]>>
    BY <1>6
  <2>2. CASE t[1] = d
    <3>1. t[2] \in 1 .. (Len(link[d]) - 1) /\ link[d][t[2] + 1].routed
      BY <1>3, <2>1, <2>2
    <3> DEFINE j == t[2] + 1
               p == <<d, j>>
    <3>2. j \in 2 .. Len(link[d]) /\ j - 1 = t[2]
      BY <1>1, <3>1
    <3> HIDE DEF j
    <3>3. p \in S
      BY <1>4, <3>1, <3>2 DEF j
    <3>4. moved[p] = <<d, j - 1>>
      BY <3>3
    <3> QED
      BY <2>1, <2>2, <3>2, <3>3, <3>4
  <2>3. CASE t[1] # d
    <3>1. t \in S
      BY <1>5, <2>1, <2>3
    <3> QED
      BY <2>3, <3>1
  <2> QED
    BY <2>2, <2>3
<1>10. ExistsBijection(S, T)
  <2>1. moved \in Bijection(S, T)
    BY <1>7, <1>8, <1>9, Zenon DEF Bijection, Injection, Surjection, IsInjective
  <2> QED
    BY <2>1, Zenon DEF ExistsBijection
<1>11. first \in Places(link) <=> Head(link[d]).routed
  <2>1. 1 \in DOMAIN link[d] /\ Head(link[d]) = link[d][1]
    BY <1>1
  <2> QED
    BY <2>1, InPlaces
<1> HIDE DEF S, T, moved, first
<1>12. /\ IsFiniteSet(S)
       /\ Cardinality(S) = IF first \in Places(link) THEN Cardinality(Places(link)) - 1
                           ELSE Cardinality(Places(link))
  BY FS_RemoveElement DEF S
<1>13. IsFiniteSet(T) /\ Cardinality(T) = Cardinality(S)
  BY <1>10, <1>12, FS_Bijection
<1>14. Cardinality(Places(link)) \in Nat
  BY FS_CardinalityType
<1> QED
  BY <1>11, <1>12, <1>13, <1>14 DEF T

\* Sending leaves the places taken, and takes one more for a routed frame that
\* goes out through one device.
LEMMA SendPlaces ==
  ASSUME NEW h \in Host, NEW f \in Frame, NEW links \in [Device -> Seq(Frame)],
         SendIPPacket(h, f, links), IsFiniteSet(Places(links)),
         f.routed => \E o \in Device : LookForRoute(h, f.dst) = {o}
  PROVE  /\ IsFiniteSet(Places(link'))
         /\ Cardinality(Places(link')) =
              Cardinality(Places(links)) + (IF f.routed THEN 1 ELSE 0)
<1>1. \A d \in Device : link'[d] = IF Peer[d] \in LookForRoute(h, f.dst)
                                   THEN Append(links[d], f) ELSE links[d]
  BY DEF SendIPPacket
<1>2. /\ \A p \in Places(links) : p = <<p[1], p[2]>>
      /\ \A p \in Places(link') : p = <<p[1], p[2]>>
  BY PlaceIsPair
<1>3. Cardinality(Places(links)) \in Nat
  BY FS_CardinalityType
<1>4. CASE ~f.routed
  <2>1. \A d, i : <<d, i>> \in Places(link') <=> <<d, i>> \in Places(links)
    <3> TAKE d, i
    <3>1. CASE d \in Device
      <4>1. i \in DOMAIN link'[d] /\ link'[d][i].routed
              <=> i \in DOMAIN links[d] /\ links[d][i].routed
        <5>1. links[d] \in Seq(Frame)
          BY <3>1
        <5>2. link'[d] = Append(links[d], f) \/ link'[d] = links[d]
          BY <1>1, <3>1, Zenon
        <5>3. CASE link'[d] = Append(links[d], f)
          <6>1. DOMAIN link'[d] = DOMAIN links[d] \cup {Len(links[d]) + 1}
            BY <5>1, <5>3
          <6>2. link'[d][Len(links[d]) + 1] = f
            BY <5>1, <5>3
          <6>3. \A j \in DOMAIN links[d] : link'[d][j] = links[d][j]
            BY <5>1, <5>3
          <6>4. Len(links[d]) + 1 \notin DOMAIN links[d]
            BY <5>1
          <6> QED
            BY <1>4, <6>1, <6>2, <6>3, <6>4, Zenon
        <5> QED
          BY <5>2, <5>3
      <4> QED
        BY <3>1, <4>1, InPlaces
    <3>2. CASE d \notin Device
      BY <3>2, InPlaces
    <3> QED
      BY <3>1, <3>2
  <2>2. Places(link') = Places(links)
    BY <1>2, <2>1, SMTT(40)
  <2> QED
    BY <1>3, <1>4, <2>2
<1>5. CASE f.routed
  <2>1. PICK o \in Device : LookForRoute(h, f.dst) = {o}
    BY <1>5
  <2> DEFINE e == Peer[o]
             n == Len(links[e]) + 1
             new == <<e, n>>
  <2>2. e \in Device /\ \A d \in Device : Peer[d] = o <=> d = e
    BY RoutingAssumption, Zenon DEF RoutingAssumption
  <2>3. /\ link'[e] = Append(links[e], f)
        /\ \A d \in Device : d # e => link'[d] = links[d]
    BY <1>1, <2>1, <2>2, Zenon
  <2>4. links[e] \in Seq(Frame)
    BY <2>2
  <2> HIDE DEF e
  <2>5. \A d, i : <<d, i>> \in Places(link')
                    <=> <<d, i>> \in Places(links) \/ <<d, i>> = new
    <3> TAKE d, i
    <3>1. CASE d = e
      <4>1. i \in DOMAIN link'[e] /\ link'[e][i].routed
              <=> (i \in DOMAIN links[e] /\ links[e][i].routed) \/ i = n
        BY <1>5, <2>3, <2>4
      <4> QED
        BY <2>2, <3>1, <4>1, InPlaces
    <3>2. CASE d # e
      BY <2>3, <3>2, InPlaces, ZenonT(40)
    <3> QED
      BY <3>1, <3>2
  <2>6. Places(link') = Places(links) \cup {new}
    BY <1>2, <2>5
  <2>7. new \notin Places(links)
    <3>1. n \notin DOMAIN links[e]
      BY <2>4
    <3> QED
      BY <3>1, InPlaces
  <2> HIDE DEF new
  <2>8. /\ IsFiniteSet(Places(links) \cup {new})
        /\ Cardinality(Places(links) \cup {new}) = Cardinality(Places(links)) + 1
    BY <2>7, FS_AddElement, Zenon
  <2> QED
    BY <1>5, <2>6, <2>8
<1> QED
  BY <1>4, <1>5

LEMMA SendMyArpPlaces ==
  ASSUME NEW h \in Host, NEW a \in Device, NEW ttl \in Int,
         NEW links \in [Device -> Seq(Frame)], SendMyArp(h, a, ttl, links),
         IsFiniteSet(Places(links))
  PROVE  /\ IsFiniteSet(Places(link'))
         /\ Cardinality(Places(link')) = Cardinality(Places(links))
<1> DEFINE f == ConstructIPPacket("myarp", a, Broadcast, ttl, FALSE)
<1>1. f \in Frame
  BY PacketType, Zenon
<1>2. ~f.routed
  BY DEF ConstructIPPacket
<1>3. Cardinality(Places(links)) \in Nat
  BY FS_CardinalityType
<1>4. SendIPPacket(h, f, links) \/ link' = links
  BY Zenon DEF SendMyArp
<1> HIDE DEF f
<1>5. CASE SendIPPacket(h, f, links)
  <2>1. /\ IsFiniteSet(Places(link'))
        /\ Cardinality(Places(link')) =
             Cardinality(Places(links)) + (IF f.routed THEN 1 ELSE 0)
    BY <1>1, <1>2, <1>5, SendPlaces
  <2> QED
    BY <1>2, <1>3, <2>1
<1> QED
  BY <1>4, <1>5
-----------------------------------------------------------------------------
(* Routed packets arrive once.  The network of the theorem: packets go to   *)
(* hosts with one device, the host at its other end is their gate; a static *)
(* route leads to the gate of its address; a packet has at least the ttl of *)
(* an announcement.  A host with more devices only takes packets for the    *)
(* device they come in by, so it is not one that every packet reaches.      *)

Gate(a) == Owner[Peer[a]]
SingleHomed == \A a \in Targets : Devices[Owner[a]] = {a}
StaticToGate == \A h \in Host, a \in Targets, d \in Device :
  <<h, a, d>> \in Static => d = Peer[a] \/ Owner[Peer[d]] = Gate(a)
Delivers == NoWrap /\ SingleHomed /\ StaticToGate /\ 0 < ArpTtl /\ ArpTtl <= PacketTtl

\* The ttl that an announcement of a sent by host h has at most.
Reach(h, a) == IF h = Owner[a] THEN ArpTtl
               ELSE IF h = Gate(a) THEN ArpTtl - 1 ELSE ArpTtl - 2

\* The gate's route is the link to the owner, and no announcement is better.
GateRoute(tab, a) ==
  LET r == tab[Gate(a)][a]
  IN  r # NoRoute /\ r.out = Peer[a] /\ r.ttl >= ArpTtl

\* How close h is to a: each hop of a route gains one.
Rank(tab, h, a) == IF h = Gate(a) THEN ArpTtl
                   ELSE IF tab[h][a].ttl = StaticTtl THEN ArpTtl - 1
                   ELSE tab[h][a].ttl

Known(tab, a) == \A h \in Host : Owns(h, a) \/ tab[h][a] # NoRoute

\* An announcement f on link d: the gate hears of the owner before others do.
Announces(tab, d, f) ==
  /\ f.ttl <= Reach(Owner[Peer[d]], f.src)
  /\ (d = Peer[f.src] /\ f.ttl = ArpTtl) \/ GateRoute(tab, f.src)

\* A routed packet f on link d: it is there, or its ttl lasts to the owner.
Carries(tab, d, f) ==
  /\ f.proto = "ip" /\ f.dst \in Targets /\ Known(tab, f.dst)
  /\ d = f.dst \/ f.ttl + Rank(tab, Owner[d], f.dst) > ArpTtl

FrameOK(tab, d, f) ==
  /\ f.proto = "myarp" /\ f.src \in Targets => Announces(tab, d, f)
  /\ f.routed => Carries(tab, d, f)

FramesOK(tab, links) ==
  \A d \in Device : \A i \in DOMAIN links[d] : FrameOK(tab, d, links[d][i])

\* Host h's route to a leads to its gate, or is an announcement's.
HopOK(tab, h, a) ==
  LET n == Owner[Peer[tab[h][a].out]]
  IN  /\ h = Gate(a) => GateRoute(tab, a)
      /\ h # Gate(a) => IF tab[h][a].ttl = StaticTtl THEN n = Gate(a)
                        ELSE tab[h][a].ttl <= Reach(n, a)

HopsOK(tab) == \A h \in Host, a \in Targets :
  tab[h][a] # NoRoute /\ h # Owner[a] => HopOK(tab, h, a)

\* IInv, and that frames and routes serve the packets that are to be delivered.
DInv == IInv /\ FramesOK(table, link) /\ HopsOK(table)

\* No route is lost or gets farther from an address that packets are sent to.
Steady ==
  \A a \in Targets :
    /\ GateRoute(table, a) => GateRoute(table', a)
    /\ \A h \in Host : h # Owner[a] /\ table[h][a] # NoRoute =>
         table'[h][a] # NoRoute /\ Rank(table', h, a) >= Rank(table, h, a)

LEMMA OwnsIsOwner ==
  ASSUME NEW h \in Host, NEW a \in Device
  PROVE  Owns(h, a) <=> h = Owner[a]
<1>1. Owns(h, a) => a \in Devices[h]
  BY DEF Devices
<1>2. Owns(Owner[a], a)
  BY OwnerOfDevice, Zenon DEF Devices
<1> QED
  BY <1>1, <1>2, OneOwner

\* The owner of a target is on one link, whose other end is at the gate.
LEMMA Target ==
  ASSUME Delivers, NEW a \in Targets
  PROVE  /\ a \in Device /\ Peer[a] \in Device /\ Peer[Peer[a]] = a
         /\ Owner[a] \in Host /\ Gate(a) \in Host /\ Gate(a) # Owner[a]
         /\ \A d \in Device : Owner[d] = Owner[a] => d = a
<1>1. a \in Device
  BY RoutingAssumption DEF RoutingAssumption
<1>2. Peer[a] \in Device /\ Peer[Peer[a]] = a /\ Gate(a) # Owner[a]
  BY <1>1, RoutingAssumption DEF RoutingAssumption, Gate
<1>3. Owner[a] \in Host /\ Gate(a) \in Host
  BY <1>1, OwnerOfDevice, PeerOwner DEF Gate
<1>4. \A d \in Device : Owner[d] = Owner[a] => d = a
  <2>1. Devices[Owner[a]] = {a}
    BY DEF Delivers, SingleHomed
  <2> QED
    BY <2>1, OwnerOfDevice
<1> QED
  BY <1>1, <1>2, <1>3, <1>4

LEMMA Ttls ==
  ASSUME Delivers
  PROVE  /\ ArpTtl \in Nat \ {0} /\ PacketTtl \in Nat /\ ArpTtl <= PacketTtl
         /\ Width \in Nat /\ ArpTtl + 1 < Width /\ PacketTtl < Width
         /\ StaticTtl \in Nat /\ StaticTtl >= Width
  BY RoutingAssumption DEF Delivers, NoWrap, RoutingAssumption, Ttl

LEMMA ReachBound ==
  ASSUME Delivers, NEW h, NEW a
  PROVE  /\ Reach(h, a) \in Int /\ Reach(h, a) <= ArpTtl
         /\ h # Owner[a] => Reach(h, a) <= ArpTtl - 1
  BY Ttls DEF Reach

\* A learned route's rank is its ttl.
LEMMA RankBound ==
  ASSUME Delivers, TypeOK, HopsOK(table), NEW h \in Host, NEW a \in Targets,
         h # Owner[a], table[h][a] # NoRoute
  PROVE  Rank(table, h, a) \in 0 .. ArpTtl
<1>1. ArpTtl \in Nat \ {0}
  BY Ttls
<1>2. a \in Device
  BY Target
<1>3. table[h][a].ttl \in Nat
  BY <1>2, RouteTtl
<1>4. HopOK(table, h, a)
  BY DEF HopsOK
<1>5. CASE h = Gate(a)
  BY <1>1, <1>5 DEF Rank
<1>6. CASE h # Gate(a) /\ table[h][a].ttl = StaticTtl
  BY <1>1, <1>6 DEF Rank
<1>7. CASE h # Gate(a) /\ table[h][a].ttl # StaticTtl
  <2>1. PICK n : table[h][a].ttl <= Reach(n, a)
    BY <1>4, <1>7 DEF HopOK
  <2>2. Reach(n, a) \in Int /\ Reach(n, a) <= ArpTtl
    BY ReachBound
  <2>3. table[h][a].ttl <= ArpTtl
    BY <1>1, <1>3, <2>1, <2>2
  <2> QED
    BY <1>1, <1>3, <1>7, <2>3 DEF Rank
<1> QED
  BY <1>5, <1>6, <1>7

\* The next hop of a route is the owner's device, or a host that ranks higher.
LEMMA NextHopRank ==
  ASSUME Delivers, TypeOK, HopsOK(table), RoutesLeadCloser,
         NEW h \in Host, NEW a \in Targets,
         h # Owner[a], Known(table, a), table[h][a] # NoRoute
  PROVE  LET e == Peer[table[h][a].out]
         IN  e = a \/ Rank(table, Owner[e], a) > Rank(table, h, a)
<1> DEFINE o == table[h][a].out
           e == Peer[o]
           n == Owner[e]
<1>1. ArpTtl \in Nat \ {0} /\ StaticTtl \in Nat
  BY Ttls
<1>2. a \in Device /\ Peer[Peer[a]] = a
  BY Target
<1>3. o \in Device /\ table[h][a].ttl \in Nat
  BY <1>2, RouteTtl
<1>4. e \in Device /\ n \in Host
  BY <1>3, PeerOwner
<1>5. HopOK(table, h, a)
  BY DEF HopsOK
<1>6. n = Owner[a] => e = a
  BY <1>4, Target
<1> SUFFICES ASSUME e # a
             PROVE  Rank(table, n, a) > Rank(table, h, a)
  OBVIOUS
<1>7. h # Gate(a)
  <2> SUFFICES ASSUME h = Gate(a)
               PROVE  FALSE
    OBVIOUS
  <2>1. o = Peer[a]
    BY <1>5 DEF HopOK, GateRoute
  <2> QED
    BY <1>2, <2>1
<1>8. IF table[h][a].ttl = StaticTtl THEN n = Gate(a) ELSE table[h][a].ttl <= Reach(n, a)
  BY <1>5, <1>7 DEF HopOK
<1>9. n # Owner[a]
  BY <1>6
<1>10. CASE n = Gate(a)
  <2>1. Rank(table, n, a) = ArpTtl
    BY <1>10, SMTT(40) DEF Rank
  <2>2. CASE table[h][a].ttl = StaticTtl
    <3>1. Rank(table, h, a) = ArpTtl - 1
      BY <1>7, <2>2, Zenon DEF Rank
    <3> QED
      BY <1>1, <2>1, <3>1, SMTT(40)
  <2>3. CASE table[h][a].ttl # StaticTtl
    <3>1. Rank(table, h, a) = table[h][a].ttl
      BY <1>7, <2>3 DEF Rank
    <3>2. Reach(n, a) = ArpTtl - 1
      BY <1>9, <1>10 DEF Reach
    <3>3. table[h][a].ttl <= Reach(n, a)
      BY <1>8, <2>3, ZenonT(40)
    <3> QED
      BY <1>1, <1>3, <2>1, <3>1, <3>2, <3>3
  <2> QED
    BY <2>2, <2>3
<1>11. CASE n # Gate(a)
  <2>1. table[h][a].ttl # StaticTtl /\ table[h][a].ttl <= Reach(n, a)
    BY <1>8, <1>11
  <2>2. Rank(table, h, a) = table[h][a].ttl /\ Reach(n, a) = ArpTtl - 2
    BY <1>7, <1>9, <1>11, <2>1 DEF Rank, Reach
  <2>3. ~Owns(n, a)
    BY <1>2, <1>4, <1>9, OwnsIsOwner, SMTT(40)
  <2>4. table[n][a] # NoRoute /\ table[n][a].ttl > table[h][a].ttl
    BY <1>2, <2>1, <2>3, ZenonT(40) DEF RoutesLeadCloser, NextHop
  <2>5. table[n][a].ttl \in Nat
    BY <1>2, <1>4, <2>4, RouteTtl
  <2>6. CASE table[n][a].ttl = StaticTtl
    <3>1. Rank(table, n, a) = ArpTtl - 1
      BY <1>11, <2>6, ZenonT(40) DEF Rank
    <3> QED
      BY <1>1, <1>3, <2>1, <2>2, <3>1
  <2>7. CASE table[n][a].ttl # StaticTtl
    <3>1. Rank(table, n, a) = table[n][a].ttl
      BY <1>11, <2>7 DEF Rank
    <3> QED
      BY <2>2, <2>4, <3>1, ZenonT(40)
  <2> QED
    BY <2>6, <2>7
<1> QED
  BY <1>10, <1>11

\* Better routes keep good frames good.
LEMMA FrameStaysOK ==
  ASSUME Delivers, TypeOK, TypeOK', Steady, HopsOK(table), HopsOK(table'),
         NEW d \in Device, NEW f \in Frame, FrameOK(table, d, f)
  PROVE  FrameOK(table', d, f)
<1>1. f.proto = "myarp" /\ f.src \in Targets => Announces(table', d, f)
  BY DEF FrameOK, Announces, Steady
<1>2. ASSUME f.routed
      PROVE  Carries(table', d, f)
  <2> DEFINE a == f.dst
             h == Owner[d]
  <2>1. f.proto = "ip" /\ a \in Targets /\ Known(table, a)
    BY <1>2 DEF FrameOK, Carries
  <2>2. a \in Device
    BY <2>1, Target
  <2>3. Known(table', a)
    BY <2>1, <2>2, OwnsIsOwner DEF Known, Steady
  <2>4. CASE d = a
    BY <2>1, <2>3, <2>4 DEF Carries
  <2>5. CASE d # a
    <3>1. h \in Host /\ h # Owner[a]
      BY <2>1, <2>5, OwnerOfDevice, Target
    <3>2. table[h][a] # NoRoute
      BY <2>1, <2>2, <3>1, OwnsIsOwner DEF Known
    <3>3. f.ttl + Rank(table, h, a) > ArpTtl
      BY <1>2, <2>5 DEF FrameOK, Carries
    <3>4. table'[h][a] # NoRoute /\ Rank(table', h, a) >= Rank(table, h, a)
      BY <2>1, <3>1, <3>2 DEF Steady
    <3>5. Rank(table, h, a) \in 0 .. ArpTtl
      BY <2>1, <3>1, <3>2, RankBound
    <3>6. Rank(table', h, a) \in Int
      <4>1. table'[h][a] \in Route
        BY <2>2, <3>1, <3>4 DEF TypeOK
      <4>2. table'[h][a].ttl \in Int /\ ArpTtl \in Int
        BY <4>1, Ttls DEF Route, Ttl
      <4> QED
        BY <4>2 DEF Rank
    <3>7. f.ttl \in Int /\ ArpTtl \in Int
      BY Ttls DEF Frame, Ttl
    <3> HIDE DEF a, h
    <3>8. f.ttl + Rank(table', h, a) > ArpTtl
      BY <3>3, <3>4, <3>5, <3>6, <3>7
    <3> QED
      BY <2>1, <2>3, <3>8 DEF Carries, a, h
  <2> QED
    BY <2>4, <2>5
<1> QED
  BY <1>1, <1>2 DEF FrameOK

LEMMA FramesStayOK ==
  ASSUME Delivers, TypeOK, TypeOK', Steady, HopsOK(table), HopsOK(table'),
         FramesOK(table, link)
  PROVE  FramesOK(table', link)
<1> SUFFICES ASSUME NEW d \in Device, NEW i \in DOMAIN link[d]
             PROVE  FrameOK(table', d, link[d][i])
  BY DEF FramesOK
<1>1. link[d][i] \in Frame
  BY DEF TypeOK
<1>2. FrameOK(table, d, link[d][i])
  BY DEF FramesOK
<1> QED
  BY <1>1, <1>2, FrameStaysOK

LEMMA TakenOK ==
  ASSUME TypeOK, NEW tab, FramesOK(tab, link), NEW d \in Device, link[d] # <<>>
  PROVE  /\ FramesOK(tab, Taken(d))
         /\ FrameOK(tab, d, Head(link[d]))
<1>1. FramesOK(tab, Taken(d))
  <2> SUFFICES ASSUME NEW e \in Device, NEW i \in DOMAIN Taken(d)[e]
               PROVE  FrameOK(tab, e, Taken(d)[e][i])
    BY DEF FramesOK
  <2>1. link[d] \in Seq(Frame) /\ link[e] \in Seq(Frame)
    BY DEF TypeOK
  <2>2. \E j \in DOMAIN link[e] : Taken(d)[e][i] = link[e][j]
    <3>1. CASE e = d
      <4>1. Taken(d)[e] = Tail(link[d])
        BY <3>1 DEF Taken, TypeOK
      <4>2. i \in 1 .. (Len(link[d]) - 1) /\ Tail(link[d])[i] = link[d][i + 1]
        BY <2>1, <4>1
      <4>3. i + 1 \in DOMAIN link[d]
        BY <2>1, <4>2
      <4> QED
        BY <3>1, <4>1, <4>2, <4>3
    <3>2. CASE e # d
      <4>1. Taken(d)[e] = link[e]
        BY <3>2 DEF Taken, TypeOK
      <4> QED
        BY <4>1
    <3> QED
      BY <3>1, <3>2
  <2> QED
    BY <2>2 DEF FramesOK
<1>2. FrameOK(tab, d, Head(link[d]))
  <2>1. link[d] \in Seq(Frame)
    BY DEF TypeOK
  <2>2. 1 \in DOMAIN link[d] /\ Head(link[d]) = link[d][1]
    BY <2>1
  <2> QED
    BY <2>2 DEF FramesOK
<1> QED
  BY <1>1, <1>2

\* Only the links of the devices that f goes out through get it.
LEMMA SendOK ==
  ASSUME NEW tab, NEW h \in Host, NEW f \in Frame,
         NEW links \in [Device -> Seq(Frame)],
         FramesOK(tab, links), SendIPPacket(h, f, links),
         \A d \in Device : Peer[d] \in LookForRoute(h, f.dst) => FrameOK(tab, d, f)
  PROVE  FramesOK(tab, link')
<1> SUFFICES ASSUME NEW d \in Device, NEW i \in DOMAIN link'[d]
             PROVE  FrameOK(tab, d, link'[d][i])
  BY DEF FramesOK
<1>1. link'[d] = IF Peer[d] \in LookForRoute(h, f.dst) THEN Append(links[d], f)
                 ELSE links[d]
  BY DEF SendIPPacket
<1>2. CASE i \in DOMAIN links[d]
  <2>1. link'[d][i] = links[d][i]
    BY <1>1, <1>2
  <2> QED
    BY <1>2, <2>1 DEF FramesOK
<1>3. CASE i \notin DOMAIN links[d]
  <2>1. Peer[d] \in LookForRoute(h, f.dst) /\ link'[d] = Append(links[d], f)
    BY <1>1, <1>3
  <2>2. link'[d][i] = f
    BY <1>3, <2>1
  <2> QED
    BY <2>1, <2>2
<1> QED
  BY <1>2, <1>3

\* An announcement goes out through all devices, with a ttl that has not wrapped.
LEMMA SendMyArpOK ==
  ASSUME Delivers, NEW tab, NEW h \in Host, NEW a \in Device,
         NEW ttl \in -1 .. (Width - 1),
         NEW links \in [Device -> Seq(Frame)], FramesOK(tab, links),
         SendMyArp(h, a, ttl, links),
         a \in Targets /\ ttl >= 0 =>
           /\ ttl <= Reach(h, a)
           /\ (h = Owner[a] /\ ttl = ArpTtl) \/ GateRoute(tab, a)
  PROVE  FramesOK(tab, link')
<1> DEFINE f == ConstructIPPacket("myarp", a, Broadcast, ttl, FALSE)
<1>1. Width \in Nat \ {0} /\ ArpTtl \in Nat /\ ArpTtl + 1 < Width
  BY Ttls
<1>2. f \in Frame
  <2>1. ttl \in Int
    BY <1>1
  <2> QED
    BY <2>1, PacketType, Zenon
<1>3. f.proto = "myarp" /\ f.src = a /\ f.ttl = ttl % Width /\ ~f.routed /\ f.dst = Broadcast
  BY DEF ConstructIPPacket
<1>4. CASE f.ttl \in Followed
  <2>1. ttl % Width \in 0 .. ArpTtl
    BY <1>3, <1>4, Zenon DEF Delivers, NoWrap
  <2>2. ttl >= 0 /\ ttl % Width = ttl
    <3>1. CASE ttl = -1
      <4>1. ttl % Width = Width - 1
        BY <1>1, <3>1, ModOfTtl, Zenon
      <4> QED
        BY <1>1, <2>1, <4>1
    <3>2. CASE ttl # -1
      <4>1. ttl \in 0 .. (Width - 1)
        BY <1>1, <3>2
      <4>2. ttl % Width = ttl
        BY <1>1, <4>1, ModOfTtl, Zenon
      <4> QED
        BY <4>1, <4>2
    <3> QED
      BY <3>1, <3>2
  <2>3. SendIPPacket(h, f, links)
    BY <1>4, Zenon DEF SendMyArp
  <2> HIDE DEF f
  <2>4. ASSUME NEW d \in Device, Peer[d] \in LookForRoute(h, f.dst)
        PROVE  FrameOK(tab, d, f)
    <3>1. Peer[d] \in Devices[h]
      BY <1>3, <2>4 DEF LookForRoute
    <3>2. Owner[Peer[d]] = h
      BY <3>1, OneOwner
    <3>3. ASSUME a \in Targets
          PROVE  Announces(tab, d, f)
      <4>1. ttl <= Reach(h, a)
        BY <2>2, <3>3
      <4>2. CASE h = Owner[a] /\ ttl = ArpTtl
        <5>1. Peer[d] = a
          BY <3>2, <3>3, <4>2, PeerOwner, Target
        <5>2. d = Peer[a]
          BY <5>1, RoutingAssumption DEF RoutingAssumption
        <5> QED
          BY <1>3, <2>2, <3>2, <4>1, <4>2, <5>2 DEF Announces
      <4>3. CASE GateRoute(tab, a)
        BY <1>3, <2>2, <3>2, <4>1, <4>3 DEF Announces
      <4> QED
        BY <2>2, <3>3, <4>2, <4>3
    <3> QED
      BY <1>3, <3>3 DEF FrameOK
  <2> QED
    BY <1>2, <2>3, <2>4, SendOK
<1>5. CASE f.ttl \notin Followed
  <2>1. link' = links
    BY <1>5 DEF SendMyArp
  <2> QED
    BY <2>1
<1> QED
  BY <1>4, <1>5, Zenon

\* The step that takes routes.  The gate only takes the owner's announcement;
\* whoever else takes one of a target hears it when the gate has its route.
LEMMA RecvArpRoutes ==
  ASSUME Delivers, DInv, TypeOK', NEW d \in Device, RecvArp(d)
  PROVE  LET h == Owner[d]
             f == Head(link[d])
         IN  /\ Steady /\ HopsOK(table')
             /\ f.src \in Targets =>
                  f.ttl - 1 <= Reach(h, f.src) /\ GateRoute(table', f.src)
<1> DEFINE h == Owner[d]
           n == Owner[Peer[d]]
           f == Head(link[d])
           b == f.src
           ttl == f.ttl
<1>1. h \in Host /\ n \in Host /\ d \in Devices[h]
  BY OwnerOfDevice, PeerOwner
<1>2. TypeOK /\ HopsOK(table)
  BY DEF DInv, IInv
<1>3. f \in Frame /\ FrameOK(table, d, f) /\ f.proto = "myarp"
  BY TakenOK, TakenType DEF RecvArp, DInv, IInv
<1>4. b \in Device /\ ttl \in 0 .. (Width - 1)
  BY <1>3 DEF Frame, Ttl
<1>5. /\ ~Owns(h, b)
      /\ IF table[h][b] = NoRoute \/ table[h][b].ttl < ttl
         THEN table' = [table EXCEPT ![h][b] = [out |-> d, ttl |-> ttl]]
         ELSE table' = table
  BY DEF RecvArp, IsBetter, RouteBack
<1>6. b \in Targets => Announces(table, d, f)
  BY <1>3 DEF FrameOK
<1>7. ArpTtl \in Nat \ {0} /\ Width \in Nat /\ StaticTtl \in Nat /\ StaticTtl >= Width
  BY Ttls
<1>8. h # Owner[b]
  BY <1>1, <1>4, <1>5, OwnsIsOwner
<1>9. [out |-> d, ttl |-> ttl] # NoRoute
  <2>1. [out |-> d, ttl |-> ttl] \in Route
    BY <1>4 DEF Route, Ttl
  <2> QED
    BY <2>1, NoRouteAssumption DEF NoRouteAssumption
<1>10. table[h][b] # NoRoute => table[h][b].ttl \in Nat
  BY <1>1, <1>2, <1>4, RouteTtl
<1>11. \A g \in Host, a \in Device : g # h \/ a # b => table'[g][a] = table[g][a]
  <2>1. table \in [Host -> [Device -> Route \cup {NoRoute}]]
    BY <1>2, Zenon DEF TypeOK
  <2> QED
    BY <1>1, <1>4, <1>5, <2>1, SMTT(40)
<1>12. \/ table'[h][b] = table[h][b] /\ table[h][b] # NoRoute
       \/ /\ table[h][b] = NoRoute \/ table[h][b].ttl < ttl
          /\ table'[h][b] = [out |-> d, ttl |-> ttl]
  BY <1>1, <1>2, <1>4, <1>5, SMTT(40) DEF TypeOK
<1>13. b \in Targets => ttl <= Reach(n, b) /\ ((d = Peer[b] /\ ttl = ArpTtl) \/ GateRoute(table, b))
  BY <1>6 DEF Announces
<1>14. \A g, a : Reach(g, a) \in Int /\ Reach(g, a) <= ArpTtl
                 /\ (g # Owner[a] => Reach(g, a) <= ArpTtl - 1)
  BY ReachBound
<1> HIDE DEF h, n, f, b, ttl
<1>15. ASSUME b \in Targets, h = Gate(b)
       PROVE  GateRoute(table', b) /\ (table[h][b] # NoRoute => table'[h][b] = table[h][b])
  <2>1. ttl <= ArpTtl
    BY <1>4, <1>7, <1>13, <1>14, <1>15
  <2>2. table[h][b] # NoRoute => GateRoute(table, b)
    BY <1>1, <1>2, <1>8, <1>15 DEF HopsOK, HopOK
  <2>3. CASE table[h][b] # NoRoute
    <3>1. table[h][b].ttl >= ArpTtl
      BY <1>15, <2>2, <2>3 DEF GateRoute
    <3>2. ~(table[h][b].ttl < ttl)
      BY <1>4, <1>7, <1>10, <2>1, <2>3, <3>1
    <3>3. table'[h][b] = table[h][b]
      BY <1>12, <2>3, <3>2
    <3> QED
      BY <1>15, <2>2, <2>3, <3>3 DEF GateRoute
  <2>4. CASE table[h][b] = NoRoute
    <3>1. d = Peer[b] /\ ttl = ArpTtl
      BY <1>13, <1>15, <2>4 DEF GateRoute
    <3>2. table'[h][b] = [out |-> d, ttl |-> ttl]
      BY <1>12, <2>4
    <3> QED
      BY <1>7, <1>9, <1>15, <2>4, <3>1, <3>2 DEF GateRoute
  <2> QED
    BY <2>3, <2>4
<1>16. ASSUME b \in Targets, h # Gate(b)
       PROVE  /\ GateRoute(table, b) /\ GateRoute(table', b) /\ n # Owner[b]
  <2>1. d # Peer[b]
    BY <1>16 DEF Gate, h
  <2>2. GateRoute(table, b)
    BY <1>13, <1>16, <2>1
  <2>3. Gate(b) \in Host
    BY <1>16, Target
  <2>4. table'[Gate(b)][b] = table[Gate(b)][b]
    BY <1>4, <1>11, <1>16, <2>3
  <2>5. n # Owner[b]
    <3> SUFFICES ASSUME n = Owner[b]
                 PROVE  FALSE
      OBVIOUS
    <3>1. Peer[d] = b
      BY <1>16, PeerOwner, Target DEF n
    <3>2. d = Peer[b]
      BY <3>1, RoutingAssumption DEF RoutingAssumption
    <3> QED
      BY <2>1, <3>2
  <2> QED
    BY <2>2, <2>4, <2>5 DEF GateRoute
<1>17. b \in Targets => ttl - 1 <= Reach(h, b) /\ GateRoute(table', b)
  <2> SUFFICES ASSUME b \in Targets
               PROVE  ttl - 1 <= Reach(h, b) /\ GateRoute(table', b)
    OBVIOUS
  <2>1. ttl <= Reach(n, b)
    BY <1>13
  <2>2. CASE h = Gate(b)
    <3>1. Reach(h, b) = ArpTtl - 1
      BY <1>8, <2>2 DEF Reach
    <3>2. ttl - 1 <= Reach(h, b)
      BY <1>4, <1>7, <1>14, <2>1, <3>1
    <3> QED
      BY <1>15, <2>2, <3>2
  <2>3. CASE h # Gate(b)
    <3>1. Reach(h, b) = ArpTtl - 2
      BY <1>8, <2>3 DEF Reach
    <3>2. Reach(n, b) \in Int /\ Reach(n, b) <= ArpTtl - 1
      BY <1>14, <1>16, <2>3
    <3>3. ttl - 1 <= Reach(h, b)
      BY <1>4, <1>7, <2>1, <3>1, <3>2
    <3> QED
      BY <1>16, <2>3, <3>3
  <2> QED
    BY <2>2, <2>3
<1>18. \A a \in Targets : GateRoute(table, a) => GateRoute(table', a)
  <2> SUFFICES ASSUME NEW a \in Targets, GateRoute(table, a)
               PROVE  GateRoute(table', a)
    OBVIOUS
  <2>1. CASE a = b
    BY <1>17, <2>1
  <2>2. CASE a # b
    <3>1. table'[Gate(a)][a] = table[Gate(a)][a]
      BY <1>11, <2>2, Target
    <3> QED
      BY <3>1 DEF GateRoute
  <2> QED
    BY <2>1, <2>2
<1>19. ASSUME NEW a \in Targets, NEW g \in Host, g # Owner[a], table[g][a] # NoRoute
       PROVE  table'[g][a] # NoRoute /\ Rank(table', g, a) >= Rank(table, g, a)
  <2>1. Rank(table, g, a) \in 0 .. ArpTtl
    BY <1>2, <1>19, RankBound
  <2>2. CASE table'[g][a] = table[g][a]
    BY <1>19, <2>1, <2>2 DEF Rank
  <2>3. CASE table'[g][a] # table[g][a]
    <3>1. g = h /\ a = b
      BY <1>11, <1>19, <2>3, Target
    <3>2. table[h][b].ttl < ttl /\ table'[h][b] = [out |-> d, ttl |-> ttl]
      BY <1>12, <1>19, <2>3, <3>1
    <3>3. h # Gate(b)
      BY <1>15, <1>19, <2>3, <3>1
    <3>4. table[h][b].ttl # StaticTtl /\ ttl # StaticTtl
      BY <1>4, <1>7, <1>10, <1>19, <3>1, <3>2
    <3>5. Rank(table, h, b) = table[h][b].ttl /\ Rank(table', h, b) = ttl
      BY <3>2, <3>3, <3>4 DEF Rank
    <3>6. ttl >= table[h][b].ttl
      BY <1>4, <1>10, <1>19, <3>1, <3>2
    <3> QED
      BY <1>9, <3>1, <3>2, <3>5, <3>6
  <2> QED
    BY <2>2, <2>3
<1>20. HopsOK(table')
  <2> SUFFICES ASSUME NEW g \in Host, NEW a \in Targets,
                      table'[g][a] # NoRoute, g # Owner[a]
               PROVE  HopOK(table', g, a)
    BY DEF HopsOK
  <2>1. CASE table'[g][a] = table[g][a]
    <3>1. HopOK(table, g, a)
      BY <1>2, <2>1 DEF HopsOK
    <3> QED
      BY <1>18, <2>1, <3>1 DEF HopOK
  <2>2. CASE table'[g][a] # table[g][a]
    <3>1. g = h /\ a = b
      BY <1>11, <2>2, Target
    <3>2. table'[h][b] = [out |-> d, ttl |-> ttl]
      BY <1>12, <2>2, <3>1
    <3>3. ttl # StaticTtl /\ ttl <= Reach(n, b)
      BY <1>4, <1>7, <1>13, <3>1
    <3> QED
      BY <1>17, <3>1, <3>2, <3>3 DEF HopOK, n
  <2> QED
    BY <2>1, <2>2
<1>21. Steady
  BY <1>18, <1>19 DEF Steady
<1> QED
  BY <1>17, <1>20, <1>21 DEF h, f, b, ttl

Counted == IsFiniteSet(Places(link)) /\ ExactlyOnce

Served == FramesOK(table, link) /\ HopsOK(table) /\ Counted

\* What a step must show that leaves both histories alone.
LEMMA CountKept ==
  ASSUME Counted, sent' = sent, delivered' = delivered,
         IsFiniteSet(Places(link')),
         Cardinality(Places(link')) = Cardinality(Places(link))
  PROVE  Counted'
  BY DEF Counted, ExactlyOnce

LEMMA SendArpServes ==
  ASSUME Delivers, DInv, Counted, NEW h \in Host, SendArp(h)
  PROVE  Served'
<1> DEFINE n == Len(currDevice[h])
           a == currDevice[h][(announced[h] % n) + 1]
<1>1. n \in Nat \ {0} /\ currDevice[h] \in Seq(Device)
  BY RoutingAssumption DEF RoutingAssumption
<1>2. TypeOK /\ FramesOK(table, link) /\ HopsOK(table)
  BY DEF DInv, IInv
<1>3. announced[h] % n \in 0 .. (n - 1)
  <2>1. announced[h] \in Int
    BY <1>2 DEF TypeOK
  <2> QED
    BY <1>1, <2>1, ModInRange, Zenon
<1>4. a \in Device /\ Owns(h, a)
  <2>1. (announced[h] % n) + 1 \in DOMAIN currDevice[h]
    BY <1>1, <1>3
  <2> QED
    BY <1>1, <2>1 DEF Owns
<1>5. SendMyArp(h, a, ArpTtl, link) /\ table' = table /\ sent' = sent /\ delivered' = delivered
  BY DEF SendArp
<1> HIDE DEF a
<1>6. ArpTtl \in -1 .. (Width - 1) /\ ArpTtl \in Int
  BY Ttls
<1>7. link \in [Device -> Seq(Frame)]
  BY <1>2 DEF TypeOK
<1>8. h = Owner[a]
  BY <1>4, OwnsIsOwner
<1>9. ArpTtl <= Reach(h, a)
  BY <1>6, <1>8 DEF Reach
<1>10. FramesOK(table, link')
  BY <1>2, <1>4, <1>5, <1>6, <1>7, <1>8, <1>9, SendMyArpOK
<1>11. /\ IsFiniteSet(Places(link'))
       /\ Cardinality(Places(link')) = Cardinality(Places(link))
  BY <1>4, <1>5, <1>6, <1>7, SendMyArpPlaces DEF Counted
<1>12. Counted'
  BY <1>5, <1>11, CountKept
<1> QED
  BY <1>2, <1>5, <1>10, <1>12 DEF Served

LEMMA SendServes ==
  ASSUME Delivers, DInv, Counted, NEW h \in Host, NEW a \in Targets, Send(h, a)
  PROVE  Served'
<1> DEFINE f == ConstructIPPacket("ip", Head(currDevice[h]), a, PacketTtl, Routed(a))
<1>1. TypeOK /\ FramesOK(table, link) /\ HopsOK(table) /\ RoutesLeadCloser
  BY DEF DInv, IInv
<1>2. a \in Device /\ a # Broadcast /\ h # Owner[a]
  <2>1. a \in Device /\ Broadcast \notin Device
    BY RoutingAssumption, Target DEF RoutingAssumption
  <2>2. ~Owns(h, a)
    BY DEF Send
  <2> QED
    BY <2>1, <2>2, OwnsIsOwner
<1>3. PacketTtl \in 0 .. (Width - 1) /\ Width \in Nat \ {0}
  BY Ttls
<1>4. f \in Frame
  <2>1. Head(currDevice[h]) \in Device /\ PacketTtl \in Int
    BY <1>3, RoutingAssumption DEF RoutingAssumption
  <2>2. Routed(a) \in BOOLEAN
    BY DEF Routed
  <2> QED
    BY <1>2, <2>1, <2>2, PacketType
<1>5. f.proto = "ip" /\ f.dst = a /\ f.ttl = PacketTtl /\ (f.routed <=> Known(table, a))
  <2>1. PacketTtl % Width = PacketTtl
    BY <1>3, ModOfTtl
  <2> QED
    BY <2>1 DEF ConstructIPPacket, Routed, Known
<1>6. /\ SendIPPacket(h, f, link) /\ sent' = Append(sent, f)
      /\ table' = table /\ delivered' = delivered
  BY DEF Send
<1> HIDE DEF f
<1>7. ASSUME f.routed
      PROVE  /\ table[h][a] # NoRoute /\ table[h][a].out \in Device
             /\ LookForRoute(h, a) = {table[h][a].out}
  <2>1. table[h][a] # NoRoute
    BY <1>2, <1>5, <1>7, OwnsIsOwner DEF Known
  <2> QED
    BY <1>1, <1>2, <2>1, RouteTtl DEF LookForRoute
<1>8. ASSUME NEW d \in Device, Peer[d] \in LookForRoute(h, f.dst), f.routed
      PROVE  Carries(table, d, f)
  <2>1. Peer[d] = table[h][a].out /\ table[h][a] # NoRoute
    BY <1>5, <1>7, <1>8
  <2>2. Peer[table[h][a].out] = d
    BY <2>1, RoutingAssumption DEF RoutingAssumption
  <2>3. d = a \/ Rank(table, Owner[d], a) > Rank(table, h, a)
    BY <1>1, <1>2, <1>5, <1>8, <2>1, <2>2, NextHopRank
  <2>4. CASE d = a
    BY <1>5, <1>8, <2>4 DEF Carries
  <2>5. CASE d # a
    <3>1. Rank(table, h, a) \in 0 .. ArpTtl
      BY <1>1, <1>2, <2>1, RankBound
    <3>2. Owner[d] \in Host /\ Owner[d] # Owner[a]
      BY <2>5, OwnerOfDevice, Target
    <3>3. table[Owner[d]][a] # NoRoute
      BY <1>2, <1>5, <1>8, <3>2, OwnsIsOwner DEF Known
    <3>4. Rank(table, Owner[d], a) \in 0 .. ArpTtl
      BY <1>1, <3>2, <3>3, RankBound
    <3>5. PacketTtl + Rank(table, Owner[d], a) > ArpTtl
      BY <2>3, <2>5, <3>1, <3>4, Ttls
    <3> QED
      BY <1>5, <1>8, <3>5 DEF Carries
  <2> QED
    BY <2>4, <2>5
<1>9. FramesOK(table, link')
  <2>1. \A d \in Device : Peer[d] \in LookForRoute(h, f.dst) => FrameOK(table, d, f)
    BY <1>5, <1>8 DEF FrameOK
  <2>2. link \in [Device -> Seq(Frame)]
    BY <1>1 DEF TypeOK
  <2> QED
    BY <1>1, <1>4, <1>6, <2>1, <2>2, SendOK
<1>10. /\ IsFiniteSet(Places(link'))
       /\ Cardinality(Places(link')) =
            Cardinality(Places(link)) + (IF f.routed THEN 1 ELSE 0)
  <2>1. link \in [Device -> Seq(Frame)] /\ IsFiniteSet(Places(link))
    BY <1>1 DEF TypeOK, Counted
  <2>2. f.routed => \E o \in Device : LookForRoute(h, f.dst) = {o}
    BY <1>5, <1>7
  <2> QED
    BY <1>4, <1>6, <2>1, <2>2, SendPlaces
<1>11. Counted'
  <2>1. sent \in Seq(Frame) /\ delivered \in Seq(Frame)
    BY <1>1 DEF TypeOK
  <2>2. Cardinality(RoutedIn(sent')) =
          Cardinality(RoutedIn(sent)) + (IF f.routed THEN 1 ELSE 0)
    BY <1>4, <1>6, <2>1, AppendRouted
  <2>3. /\ Cardinality(RoutedIn(sent)) \in Nat
        /\ Cardinality(RoutedIn(delivered)) \in Nat
        /\ Cardinality(Places(link)) \in Nat
    BY <2>1, RoutedFinite, FS_CardinalityType DEF Counted
  <2>4. Cardinality(Places(link)) + Cardinality(RoutedIn(delivered))
          = Cardinality(RoutedIn(sent))
    BY DEF Counted, ExactlyOnce
  <2>5. Cardinality(Places(link')) + Cardinality(RoutedIn(delivered'))
          = Cardinality(RoutedIn(sent'))
    BY <1>6, <1>10, <2>2, <2>3, <2>4
  <2> QED
    BY <1>10, <2>5 DEF Counted, ExactlyOnce
<1> QED
  BY <1>1, <1>6, <1>9, <1>11 DEF Served

\* A packet that has arrived leaves its link for the transport layer.
LEMMA ReceiveServes ==
  ASSUME DInv, Counted, NEW d \in Device, ReceiveHere(d)
  PROVE  Served'
<1> DEFINE f == Head(link[d])
<1>1. TypeOK /\ FramesOK(table, link) /\ HopsOK(table)
  BY DEF DInv, IInv
<1>2. /\ link[d] # <<>> /\ link' = Taken(d) /\ delivered' = Append(delivered, f)
      /\ table' = table /\ sent' = sent
  BY DEF ReceiveHere
<1>3. f \in Frame /\ FramesOK(table, Taken(d))
  BY <1>1, <1>2, TakenOK, TakenType
<1>4. /\ IsFiniteSet(Places(link'))
      /\ Cardinality(Places(link')) =
           Cardinality(Places(link)) - (IF f.routed THEN 1 ELSE 0)
  BY <1>1, <1>2, TakenPlaces DEF Counted
<1> HIDE DEF f
<1>5. sent \in Seq(Frame) /\ delivered \in Seq(Frame)
  BY <1>1 DEF TypeOK
<1>6. Cardinality(RoutedIn(delivered')) =
        Cardinality(RoutedIn(delivered)) + (IF f.routed THEN 1 ELSE 0)
  BY <1>2, <1>3, <1>5, AppendRouted
<1>7. /\ Cardinality(RoutedIn(sent)) \in Nat
      /\ Cardinality(RoutedIn(delivered)) \in Nat
      /\ Cardinality(Places(link)) \in Nat
  BY <1>5, RoutedFinite, FS_CardinalityType DEF Counted
<1>8. Cardinality(Places(link)) + Cardinality(RoutedIn(delivered))
        = Cardinality(RoutedIn(sent))
  BY DEF Counted, ExactlyOnce
<1>9. Cardinality(Places(link')) + Cardinality(RoutedIn(delivered'))
        = Cardinality(RoutedIn(sent'))
  BY <1>2, <1>4, <1>6, <1>7, <1>8
<1>10. Counted'
  BY <1>4, <1>9 DEF Counted, ExactlyOnce
<1> QED
  BY <1>1, <1>2, <1>3, <1>10 DEF Served

\* Announcements are not routed packets.
LEMMA ArpNotRouted ==
  ASSUME DInv, NEW d \in Device, link[d] # <<>>, Head(link[d]).proto = "myarp"
  PROVE  ~Head(link[d]).routed
<1>1. FrameOK(table, d, Head(link[d]))
  BY TakenOK DEF DInv, IInv
<1> QED
  BY <1>1 DEF FrameOK, Carries

LEMMA TakenArpPlaces ==
  ASSUME DInv, Counted, NEW d \in Device, link[d] # <<>>, Head(link[d]).proto = "myarp"
  PROVE  /\ IsFiniteSet(Places(Taken(d)))
         /\ Cardinality(Places(Taken(d))) = Cardinality(Places(link))
<1>1. TypeOK /\ IsFiniteSet(Places(link))
  BY DEF DInv, IInv, Counted
<1>2. /\ IsFiniteSet(Places(Taken(d)))
      /\ Cardinality(Places(Taken(d))) =
           Cardinality(Places(link)) - (IF Head(link[d]).routed THEN 1 ELSE 0)
  BY <1>1, TakenPlaces
<1>3. ~Head(link[d]).routed
  BY ArpNotRouted
<1>4. Cardinality(Places(link)) \in Nat
  BY <1>1, FS_CardinalityType
<1> QED
  BY <1>2, <1>3, <1>4

LEMMA RecvOwnArpServes ==
  ASSUME DInv, Counted, NEW d \in Device, RecvOwnArp(d)
  PROVE  Served'
<1>1. TypeOK /\ FramesOK(table, link) /\ HopsOK(table)
  BY DEF DInv, IInv
<1>2. /\ link[d] # <<>> /\ link' = Taken(d) /\ Head(link[d]).proto = "myarp"
      /\ table' = table /\ sent' = sent /\ delivered' = delivered
  BY DEF RecvOwnArp
<1>3. FramesOK(table, link')
  BY <1>1, <1>2, TakenOK
<1>4. Counted'
  BY <1>2, TakenArpPlaces, CountKept
<1> QED
  BY <1>1, <1>2, <1>3, <1>4 DEF Served

LEMMA RecvArpServes ==
  ASSUME Delivers, DInv, Counted, TypeOK', NEW d \in Device, RecvArp(d)
  PROVE  Served'
<1> DEFINE h == Owner[d]
           f == Head(link[d])
<1>1. TypeOK /\ FramesOK(table, link) /\ HopsOK(table)
  BY DEF DInv, IInv
<1>2. /\ link[d] # <<>> /\ f.proto = "myarp"
      /\ SendMyArp(h, f.src, f.ttl - 1, Taken(d))
      /\ sent' = sent /\ delivered' = delivered
  BY DEF RecvArp, HopTtl
<1>3. Taken(d) \in [Device -> Seq(Frame)] /\ f \in Frame /\ h \in Host
  BY <1>1, <1>2, TakenType, OwnerOfDevice
<1>4. f.src \in Device /\ f.ttl \in 0 .. (Width - 1)
  BY <1>3 DEF Frame, Ttl
<1>5. /\ Steady /\ HopsOK(table')
      /\ f.src \in Targets => f.ttl - 1 <= Reach(h, f.src) /\ GateRoute(table', f.src)
  BY RecvArpRoutes
<1>6. FramesOK(table', Taken(d))
  <2>1. FramesOK(table', link)
    BY <1>1, <1>5, FramesStayOK
  <2> QED
    BY <1>1, <1>2, <2>1, TakenOK
<1>7. /\ IsFiniteSet(Places(Taken(d)))
      /\ Cardinality(Places(Taken(d))) = Cardinality(Places(link))
  BY <1>2, TakenArpPlaces
<1>8. f.ttl - 1 \in -1 .. (Width - 1) /\ f.ttl - 1 \in Int
  <2>1. Width \in Nat
    BY Ttls
  <2> QED
    BY <1>4, <2>1
<1> HIDE DEF h, f
<1>9. FramesOK(table', link')
  BY <1>2, <1>3, <1>4, <1>5, <1>6, <1>8, SendMyArpOK
<1>10. /\ IsFiniteSet(Places(link'))
       /\ Cardinality(Places(link')) = Cardinality(Places(Taken(d)))
  BY <1>2, <1>3, <1>4, <1>7, <1>8, SendMyArpPlaces
<1>11. Counted'
  BY <1>2, <1>7, <1>10, CountKept
<1> QED
  BY <1>5, <1>9, <1>11 DEF Served

\* A routed packet for somebody else has a ttl left, and goes out through one
\* device, to its owner or to a host that ranks higher.
LEMMA ForwardServes ==
  ASSUME Delivers, DInv, Counted, NEW d \in Device, Forward(d)
  PROVE  Served'
<1> DEFINE f == Head(link[d])
           h == Owner[d]
           a == f.dst
           g == ConstructIPPacket("ip", f.src, a, f.ttl - 1, f.routed)
<1>1. TypeOK /\ FramesOK(table, link) /\ HopsOK(table) /\ RoutesLeadCloser
  BY DEF DInv, IInv
<1>2. /\ link[d] # <<>> /\ a # d
      /\ IF f.ttl = 0 THEN link' = Taken(d) ELSE SendIPPacket(h, g, Taken(d))
      /\ table' = table /\ sent' = sent /\ delivered' = delivered
  BY DEF Forward
<1>3. /\ Taken(d) \in [Device -> Seq(Frame)] /\ f \in Frame /\ h \in Host
      /\ FramesOK(table, Taken(d)) /\ FrameOK(table, d, f)
  BY <1>1, <1>2, TakenOK, TakenType, OwnerOfDevice
<1>4. /\ f.src \in Device /\ a \in Device \cup {Broadcast}
      /\ f.ttl \in 0 .. (Width - 1) /\ f.ttl \in Int /\ f.routed \in BOOLEAN
  BY <1>3 DEF Frame, Ttl
<1>5. f.ttl - 1 \in Int
  BY <1>4
<1>6. g \in Frame
  BY <1>4, <1>5, PacketType
<1>7. g.proto = "ip" /\ g.dst = a /\ g.routed = f.routed /\ g.ttl = (f.ttl - 1) % Width
  BY DEF ConstructIPPacket
<1>8. /\ IsFiniteSet(Places(Taken(d)))
      /\ Cardinality(Places(Taken(d))) =
           Cardinality(Places(link)) - (IF f.routed THEN 1 ELSE 0)
  BY <1>1, <1>2, TakenPlaces DEF Counted
<1>9. Cardinality(Places(link)) \in Nat /\ Cardinality(Places(Taken(d))) \in Nat
  BY <1>8, FS_CardinalityType DEF Counted
<1> HIDE DEF f, g
<1>10. ASSUME f.routed
       PROVE  /\ a \in Targets /\ Known(table, a) /\ h # Owner[a]
              /\ table[h][a] # NoRoute
              /\ LookForRoute(h, a) = {table[h][a].out}
              /\ table[h][a].out \in Device
              /\ f.ttl > 0 /\ f.ttl + Rank(table, h, a) > ArpTtl
              /\ Rank(table, h, a) \in 0 .. ArpTtl
  <2>1. /\ a \in Targets /\ Known(table, a)
        /\ f.ttl + Rank(table, h, a) > ArpTtl
    BY <1>2, <1>3, <1>10 DEF FrameOK, Carries
  <2>2. a \in Device /\ a # Broadcast
    BY <2>1, Target, RoutingAssumption DEF RoutingAssumption
  <2>3. h # Owner[a]
    BY <1>2, <2>1, Target
  <2>4. table[h][a] # NoRoute
    BY <1>3, <2>1, <2>2, <2>3, OwnsIsOwner DEF Known
  <2>5. table[h][a].out \in Device
    BY <1>1, <1>3, <2>2, <2>4, RouteTtl
  <2>6. Rank(table, h, a) \in 0 .. ArpTtl
    BY <1>1, <1>3, <2>1, <2>3, <2>4, RankBound
  <2>7. f.ttl > 0
    BY <1>4, <2>1, <2>6, Ttls
  <2> QED
    BY <2>1, <2>2, <2>3, <2>4, <2>5, <2>6, <2>7 DEF LookForRoute
<1>11. ASSUME NEW e \in Device, Peer[e] \in LookForRoute(h, a), f.routed
       PROVE  Carries(table, e, g)
  <2>1. Peer[e] = table[h][a].out
    BY <1>10, <1>11
  <2>2. Peer[table[h][a].out] = e
    BY <2>1, RoutingAssumption DEF RoutingAssumption
  <2>3. e = a \/ Rank(table, Owner[e], a) > Rank(table, h, a)
    BY <1>1, <1>3, <1>10, <1>11, <2>2, NextHopRank, Zenon
  <2>4. CASE e = a
    BY <1>7, <1>10, <1>11, <2>4 DEF Carries
  <2>5. CASE e # a
    <3>1. Owner[e] \in Host /\ Owner[e] # Owner[a] /\ a \in Device
      BY <1>10, <1>11, <2>5, OwnerOfDevice, Target
    <3>2. table[Owner[e]][a] # NoRoute
      BY <1>10, <1>11, <3>1, OwnsIsOwner DEF Known
    <3>3. Rank(table, Owner[e], a) \in 0 .. ArpTtl
      BY <1>1, <1>10, <1>11, <3>1, <3>2, RankBound
    <3>4. g.ttl = f.ttl - 1
      <4>1. f.ttl - 1 \in 0 .. (Width - 1) /\ Width \in Nat \ {0}
        BY <1>4, <1>10, <1>11, Ttls
      <4> QED
        BY <1>7, <4>1, ModOfTtl
    <3>5. g.ttl + Rank(table, Owner[e], a) > ArpTtl
      BY <1>4, <1>10, <1>11, <2>3, <2>5, <3>3, <3>4, Ttls
    <3> QED
      BY <1>7, <1>10, <1>11, <3>5 DEF Carries
  <2> QED
    BY <2>4, <2>5
<1> HIDE DEF a, h
<1>12. FramesOK(table, link')
  <2>1. CASE f.ttl = 0
    BY <1>2, <1>3, <2>1
  <2>2. CASE f.ttl # 0
    <3>1. \A e \in Device : Peer[e] \in LookForRoute(h, g.dst) => FrameOK(table, e, g)
      BY <1>7, <1>11 DEF FrameOK
    <3>2. SendIPPacket(h, g, Taken(d))
      BY <1>2, <2>2
    <3> QED
      BY <1>3, <1>6, <3>1, <3>2, SendOK
  <2> QED
    BY <2>1, <2>2
<1>13. /\ IsFiniteSet(Places(link'))
       /\ Cardinality(Places(link')) = Cardinality(Places(link))
  <2>1. CASE f.ttl = 0
    <3>1. ~f.routed
      BY <1>10, <2>1
    <3> QED
      BY <1>2, <1>8, <1>9, <2>1, <3>1
  <2>2. CASE f.ttl # 0
    <3>1. SendIPPacket(h, g, Taken(d))
      BY <1>2, <2>2
    <3>2. g.routed => \E o \in Device : LookForRoute(h, g.dst) = {o}
      BY <1>7, <1>10
    <3>3. /\ IsFiniteSet(Places(link'))
          /\ Cardinality(Places(link')) =
               Cardinality(Places(Taken(d))) + (IF g.routed THEN 1 ELSE 0)
      BY <1>3, <1>6, <1>8, <3>1, <3>2, SendPlaces
    <3> QED
      BY <1>7, <1>8, <1>9, <3>3
  <2> QED
    BY <2>1, <2>2
<1>14. Counted'
  BY <1>2, <1>13, CountKept
<1> QED
  BY <1>1, <1>2, <1>12, <1>14 DEF Served

LEMMA DeliversInit ==
  ASSUME Delivers, Init
  PROVE  DInv /\ Counted
<1>1. FramesOK(table, link)
  BY DEF Init, FramesOK
<1>2. ASSUME NEW h \in Host, NEW a \in Targets, table[h][a] # NoRoute
      PROVE  /\ <<h, a, table[h][a].out>> \in Static /\ table[h][a].out \in Device
             /\ table[h][a].ttl = StaticTtl
  <2>1. a \in Device
    BY Target
  <2>2. CASE \E d \in Device : <<h, a, d>> \in Static
    <3> DEFINE d == CHOOSE d \in Device : <<h, a, d>> \in Static
    <3>1. d \in Device /\ <<h, a, d>> \in Static
      BY <2>2
    <3>2. table[h][a] = [out |-> d, ttl |-> StaticTtl]
      BY <2>1, <2>2, Zenon DEF Init
    <3> HIDE DEF d
    <3> QED
      BY <3>1, <3>2
  <2>3. CASE ~ \E d \in Device : <<h, a, d>> \in Static
    BY <1>2, <2>1, <2>3 DEF Init
  <2> QED
    BY <2>2, <2>3, Zenon
<1>3. HopsOK(table)
  <2> SUFFICES ASSUME NEW h \in Host, NEW a \in Targets,
                      table[h][a] # NoRoute, h # Owner[a]
               PROVE  HopOK(table, h, a)
    BY DEF HopsOK
  <2> DEFINE o == table[h][a].out
  <2>1. <<h, a, o>> \in Static /\ o \in Device /\ table[h][a].ttl = StaticTtl
    BY <1>2
  <2>2. o = Peer[a] \/ Owner[Peer[o]] = Gate(a)
    BY <2>1 DEF Delivers, StaticToGate
  <2>3. Owner[o] = h
    <3>1. o \in Devices[h]
      BY <2>1, RoutingAssumption, Zenon DEF RoutingAssumption
    <3> QED
      BY <3>1, OneOwner
  <2>4. Owner[Peer[o]] # Owner[o]
    BY <2>1, RoutingAssumption, Zenon DEF RoutingAssumption
  <2>5. ArpTtl \in Nat /\ StaticTtl \in Nat /\ StaticTtl >= ArpTtl
    BY Ttls
  <2>6. CASE h = Gate(a)
    <3>1. o = Peer[a]
      BY <2>2, <2>3, <2>4, <2>6
    <3> QED
      BY <2>1, <2>5, <2>6, <3>1 DEF HopOK, GateRoute
  <2>7. CASE h # Gate(a)
    <3>1. Owner[Peer[o]] = Gate(a)
      BY <2>2, <2>3, <2>7 DEF Gate
    <3> QED
      BY <2>1, <2>7, <3>1 DEF HopOK
  <2> QED
    BY <2>6, <2>7
<1>4. Places(link) = {}
  BY DEF Init, Places, RoutedIn
<1>5. RoutedIn(sent) = {} /\ RoutedIn(delivered) = {}
  BY DEF Init, RoutedIn
<1>6. Counted
  BY <1>4, <1>5, FS_EmptySet DEF Counted, ExactlyOnce
<1> QED
  BY <1>1, <1>3, <1>6, InitCloser DEF DInv

LEMMA DeliversStep ==
  ASSUME Delivers, DInv, Counted, [Next]_vars
  PROVE  DInv' /\ Counted'
<1>1. NoWrap /\ IInv
  BY DEF Delivers, DInv
<1>2. IInv'
  BY <1>1, Inductive
<1>3. TypeOK'
  BY <1>2 DEF IInv
<1>4. Served'
  <2>1. ASSUME NEW h \in Host, SendArp(h)
        PROVE  Served'
    BY <2>1, SendArpServes
  <2>2. ASSUME NEW h \in Host, NEW a \in Targets, Send(h, a)
        PROVE  Served'
    BY <2>2, SendServes
  <2>3. ASSUME NEW d \in Device, RecvFrame(d)
        PROVE  Served'
    BY <1>3, <2>3, ReceiveServes, RecvOwnArpServes, RecvArpServes, ForwardServes
       DEF RecvFrame
  <2>4. CASE UNCHANGED vars
    BY <2>4 DEF vars, Served, DInv, Counted, ExactlyOnce
  <2> QED
    BY <2>1, <2>2, <2>3, <2>4 DEF Next
<1> QED
  BY <1>2, <1>4 DEF Served, DInv

\* In every network of that kind, for every number of packets and however the
\* tables change while they are on their way: a packet sent when every host
\* has a route to its address is neither dropped nor doubled, and is delivered
\* once.  Without RoutesLeadCloser it could go in a circle until its ttl is 0.
THEOREM RoutedPacketsArriveOnce ==
  ASSUME Delivers
  PROVE  Spec => []ExactlyOnce
<1>1. Init => DInv /\ Counted
  BY DeliversInit
<1>2. DInv /\ Counted /\ [Next]_vars => (DInv /\ Counted)'
  BY DeliversStep
<1>3. DInv /\ Counted => ExactlyOnce
  BY DEF Counted
<1> QED
  BY <1>1, <1>2, <1>3, PTL DEF Spec
=============================================================================
