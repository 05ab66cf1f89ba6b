------------------------------ MODULE Routing ------------------------------
(***************************************************************************)
(* The iTCP network layer: the routing table of src/include/ip.h, the      *)
(* announcements that fill it (src/src/myArp.cc), and receiving, sending   *)
(* and forwarding of IP packets (src/src/ip.cc, src/src/forward.cc).       *)
(*                                                                         *)
(* Hosts are joined by veth pairs, each end a device with one address, so  *)
(* a device stands for its own address and for its MAC, the next hop of a  *)
(* route is the peer of the device it names, and the check of a frame's    *)
(* source MAC only drops a host's copies of what it sent itself.           *)
(*                                                                         *)
(* Two threads of a host are at work here: the announcer, and the main     *)
(* thread, which takes one frame at a time.  Only the main thread writes   *)
(* the table, and rt_m covers each access, so a frame is one action.       *)
(***************************************************************************)
EXTENDS Integers, Sequences, FiniteSets

CONSTANTS
  Host,         \* network namespaces
  Device,       \* ends of veth pairs, and their addresses
  currDevice,   \* the devices of each host, in the order of addAll
  Peer,         \* the other end of each device's pair
  Broadcast,    \* the address 255.255.255.255
  NoRoute,
  Static,       \* <<host, address, device>>: routes that main() sets
  StaticTtl,    \* their ttl (1024), beyond what an announcement can have
  ArpTtl,       \* ttl of a new announcement (8)
  PacketTtl,    \* ttl of a new packet (10)
  Width,        \* values of the header's ttl field (256)
  Followed,     \* bound: the ttls of the announcements that are followed
  Rounds,       \* how often each host announces itself (2)
  Announcing,   \* bound: the hosts whose announcements are followed
  Targets,      \* bound: addresses that packets are sent to
  MaxPackets    \* bound: how many packets are sent

Owns(h, a) == \E i \in DOMAIN currDevice[h] : currDevice[h][i] = a
Owner == [a \in Device |-> CHOOSE h \in Host : Owns(h, a)]
Devices == [h \in Host |-> {d \in Device : Owns(h, d)}]

Ttl == 0 .. (Width - 1)

ASSUME RoutingAssumption ==
  /\ currDevice \in [Host -> Seq(Device) \ {<<>>}]
  /\ \A d \in Device : \E h \in Host : Owns(h, d)
  /\ \A g, h \in Host : g # h => Devices[g] \cap Devices[h] = {}
  /\ Peer \in [Device -> Device]
  /\ \A d \in Device : Peer[Peer[d]] = d /\ Owner[Peer[d]] # Owner[d]
  /\ Broadcast \notin Device
  /\ Width \in Nat /\ ArpTtl \in Ttl /\ PacketTtl \in Ttl
  /\ Followed \subseteq Ttl
  /\ StaticTtl \in Nat /\ StaticTtl >= Width
  /\ \A s \in Static : /\ s \in Host \X Device \X Device
                       /\ s[3] \in Devices[s[1]]
  /\ Rounds \in Nat /\ MaxPackets \in Nat
  /\ Announcing \subseteq Host /\ Targets \subseteq Device

\* routed is history: every host had a route when the packet left.
Frame == [proto : {"myarp", "ip"}, src : Device, dst : Device \cup {Broadcast},
          ttl : Ttl, routed : BOOLEAN]

Route == [out : Device, ttl : Ttl \cup {StaticTtl}]

ASSUME NoRouteAssumption == NoRoute \notin Route

VARIABLES
  table,       \* routeTable of each host
  link,        \* frames on their way to a device or waiting at its host
  announced,   \* how many announcements each host has sent
  sent,        \* packets that hosts have sent (history)
  delivered    \* packets handed to the transport layer (history)

vars == <<table, link, announced, sent, delivered>>
-----------------------------------------------------------------------------
Init ==
  /\ table = [h \in Host |-> [a \in Device |->
       IF \E d \in Device : <<h, a, d>> \in Static
       THEN [out |-> CHOOSE d \in Device : <<h, a, d>> \in Static,
             ttl |-> StaticTtl]
       ELSE NoRoute]]
  /\ link = [d \in Device |-> <<>>]
  /\ announced = [h \in Host |-> 0]
  /\ sent = <<>> /\ delivered = <<>>

\* The devices a packet for a leaves through: all of them without a route.
LookForRouteAll(h, a) == Devices[h]    \* mutant: the table is not used

LookForRoute(h, a) ==
  IF a # Broadcast /\ table[h][a] # NoRoute THEN {table[h][a].out} ELSE Devices[h]

\* A packet whose header has room for Width ttls.
ConstructIPPacket(proto, src, dst, ttl, routed) ==
  [proto |-> proto, src |-> src, dst |-> dst, ttl |-> ttl % Width, routed |-> routed]

\* Host h sends f, after it has taken the frames of `links`.
SendIPPacket(h, f, links) ==
  LET outs == LookForRoute(h, f.dst)
  IN  link' = [d \in Device |-> IF Peer[d] \in outs THEN Append(links[d], f)
                                ELSE links[d]]

\* The links when the first frame at d has been taken.
Taken(d) == [link EXCEPT ![d] = Tail(@)]

\* Host h announces address a; beyond the bound the announcement is lost.
SendMyArp(h, a, ttl, links) ==
  LET f == ConstructIPPacket("myarp", a, Broadcast, ttl, FALSE)
  IN  IF f.ttl \in Followed THEN SendIPPacket(h, f, links) ELSE link' = links

\* sendArp: the host announces the address of its next device.
SendArp(h) ==
  /\ h \in Announcing
  /\ announced[h] < Rounds * Len(currDevice[h])
  /\ LET i == announced[h] % Len(currDevice[h])
     IN  SendMyArp(h, currDevice[h][i + 1], ArpTtl, link)
  /\ announced' = [announced EXCEPT ![h] = @ + 1]
  /\ UNCHANGED <<table, sent, delivered>>

\* Every host has a route to a.
Routed(a) == \A h \in Host : Owns(h, a) \/ table[h][a] # NoRoute

\* The transport layer of h sends a packet to address a.
Send(h, a) ==
  /\ Len(sent) < MaxPackets
  /\ a \in Targets /\ ~Owns(h, a)
  /\ LET f == ConstructIPPacket("ip", Head(currDevice[h]), a, PacketTtl, Routed(a))
     IN  SendIPPacket(h, f, link) /\ sent' = Append(sent, f)
  /\ UNCHANGED <<table, announced, delivered>>
-----------------------------------------------------------------------------
(* recvFrame: the main thread takes the next frame that came in through d. *)

\* It is for the address of that device: not for another one of the host's.
ReceiveHere(d) ==
  /\ link[d] # <<>>
  /\ Head(link[d]).dst = d
  /\ delivered' = Append(delivered, Head(link[d]))
  /\ link' = Taken(d)
  /\ UNCHANGED <<table, announced, sent>>

\* Announcements of the host's own addresses come back, and end here.
RecvOwnArp(d) ==
  /\ link[d] # <<>>
  /\ Head(link[d]).dst # d /\ Head(link[d]).proto = "myarp"
  /\ Owns(Owner[d], Head(link[d]).src)
  /\ link' = Taken(d)
  /\ UNCHANGED <<table, announced, sent, delivered>>

\* An announcement is taken for a route, or a better one than the one known.
IsBetter(known, ttl) == known = NoRoute \/ known.ttl < ttl

\* mutant: the route leads through the address announced
RouteViaSource(d, f) == [out |-> f.src, ttl |-> f.ttl]

\* setRoutingTable: back through the device that the announcement f came in by.
RouteBack(d, f) == [out |-> d, ttl |-> f.ttl]

\* mutant: the announcement is sent on with the ttl it came with
HopTtlKept(ttl) == ttl

HopTtl(ttl) == ttl - 1

\* mutant: the first announcement of an address is learned from but not sent on
RecvArpFirstEnds(d) ==
  /\ link[d] # <<>>
  /\ Head(link[d]).dst # d /\ Head(link[d]).proto = "myarp"
  /\ LET h == Owner[d]
         f == Head(link[d])
     IN  /\ ~Owns(h, f.src)
         /\ IF IsBetter(table[h][f.src], f.ttl)
            THEN table' = [table EXCEPT ![h][f.src] = RouteBack(d, f)]
            ELSE UNCHANGED table
         /\ IF table[h][f.src] = NoRoute THEN link' = Taken(d)
            ELSE SendMyArp(h, f.src, HopTtl(f.ttl), Taken(d))
  /\ UNCHANGED <<announced, sent, delivered>>

\* Any other announcement is sent on, whether it was news or not and whatever
\* its ttl.
RecvArp(d) ==
  /\ link[d] # <<>>
  /\ Head(link[d]).dst # d /\ Head(link[d]).proto = "myarp"
  /\ LET h == Owner[d]
         f == Head(link[d])
     IN  /\ ~Owns(h, f.src)
         /\ IF IsBetter(table[h][f.src], f.ttl)
            THEN table' = [table EXCEPT ![h][f.src] = RouteBack(d, f)]
            ELSE UNCHANGED table
         /\ SendMyArp(h, f.src, HopTtl(f.ttl), Taken(d))
  /\ UNCHANGED <<announced, sent, delivered>>

\* A packet for somebody else is sent on, or dropped when its ttl is 0.
Forward(d) ==
  /\ link[d] # <<>>
  /\ Head(link[d]).dst # d /\ Head(link[d]).proto = "ip"
  /\ LET f == Head(link[d])
     IN  IF f.ttl = 0 THEN link' = Taken(d)
         ELSE SendIPPacket(Owner[d],
                ConstructIPPacket("ip", f.src, f.dst, f.ttl - 1, f.routed), Taken(d))
  /\ UNCHANGED <<table, announced, sent, delivered>>

RecvFrame(d) == ReceiveHere(d) \/ RecvOwnArp(d) \/ RecvArp(d) \/ Forward(d)

Next ==
  \/ \E h \in Host : SendArp(h) \/ (\E a \in Targets : Send(h, a))
  \/ \E d \in Device : RecvFrame(d)

Spec == Init /\ [][Next]_vars

\* Both threads are scheduled again and again, and no device starves: each has
\* a thread of its own that puts its frames into the queue of the main thread.
Fairness ==
  /\ \A h \in Host : WF_vars(SendArp(h))
  /\ \A d \in Device : WF_vars(RecvFrame(d))

FairSpec == Spec /\ Fairness
-----------------------------------------------------------------------------
(* Properties. *)

\* The type invariant: a route leaves through a device of its host.
TypeOK ==
  /\ table \in [Host -> [Device -> Route \cup {NoRoute}]]
  /\ \A h \in Host, a \in Device :
       table[h][a] # NoRoute => table[h][a].out \in Devices[h]
  /\ link \in [Device -> Seq(Frame)]
  /\ announced \in [Host -> Nat]
  /\ \A h \in Host : announced[h] <= Rounds * Len(currDevice[h])
  /\ sent \in Seq(Frame)
  /\ delivered \in Seq(Frame)

\* The host at the other end of the link that h's route to a takes.
NextHop(h, a) == Owner[Peer[table[h][a].out]]

\* A learned route leads to the owner of the address, or to a host whose own
\* route is better by at least a hop: following routes never goes round in a
\* circle.  It is what recvArp compares ttls for; true until an announcement
\* wraps, and so with the bound `Followed` only.
RoutesLeadCloser ==
  \A h \in Host, a \in Device :
    table[h][a] # NoRoute /\ table[h][a].ttl # StaticTtl =>
      LET n == NextHop(h, a)
      IN  \/ Owns(n, a)
          \/ table[n][a] # NoRoute /\ table[n][a].ttl > table[h][a].ttl

\* A packet sent when every host has a route to its address is on exactly one
\* link until it is delivered, and is delivered once.
RoutedIn(frames) == {i \in DOMAIN frames : frames[i].routed}

\* Where routed packets are: the i-th frame of link d.
Places(links) == UNION {{d} \X RoutedIn(links[d]) : d \in Device}

ExactlyOnce ==
  Cardinality(Places(link)) + Cardinality(RoutedIn(delivered))
    = Cardinality(RoutedIn(sent))
=============================================================================
