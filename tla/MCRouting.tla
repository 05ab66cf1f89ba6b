----------------------------- MODULE MCRouting -----------------------------
(***************************************************************************)
(* Small networks of routers.                                              *)
(***************************************************************************)
EXTENDS Routing

CONSTANTS
  hostA, hostB, hostC, hostD,
  a, b, b1, b2, c, c1, d, d1     \* devices: a is A's, b, b1 and b2 are B's, ...

\* a --- b  B  b1 --- c
LineHost == {hostA, hostB, hostC}
LineDevices ==
  [h \in LineHost |-> CASE h = hostA -> <<a>> [] h = hostB -> <<b, b1>>
                        [] h = hostC -> <<c>>]
LineDevice == {a, b, b1, c}
LinePeer ==
  [e \in LineDevice |-> CASE e = a -> b [] e = b -> a [] e = b1 -> c [] e = c -> b1]

\* The line, and a fourth host that closes a triangle with B and C.
RingHost == LineHost \cup {hostD}
RingDevices ==
  [h \in RingHost |-> CASE h = hostA -> <<a>> [] h = hostB -> <<b, b1, b2>>
                        [] h = hostC -> <<c, c1>> [] h = hostD -> <<d, d1>>]
RingDevice == {a, b, b1, b2, c, c1, d, d1}
RingPeer ==
  [e \in RingDevice |->
     CASE e = a -> b [] e = b -> a [] e = b1 -> c [] e = c -> b1
       [] e = b2 -> d [] e = d -> b2 [] e = c1 -> d1 [] e = d1 -> c1]

NoStatic == {}
\* Like sender.cc, D starts with a route to the address it will talk to.
StaticAtD == {<<hostD, a, d>>}
BeforeWrap == 0 .. ArpTtl
Always == 0 .. (Width - 1)
OnlyA == {hostA}
ToA == {a}
-----------------------------------------------------------------------------
\* The hosts that reach address x over at most n links.
Within[n \in Nat, x \in Device] ==
  IF n = 0 THEN {Owner[x]}
  ELSE Within[n - 1, x] \cup
         {h \in Host : \E e \in Devices[h] : Owner[Peer[e]] \in Within[n - 1, x]}

Distance == [h \in Host, x \in Device |->
  CHOOSE n \in 0 .. Cardinality(Host) :
    h \in Within[n, x] /\ \A m \in 0 .. (n - 1) : h \notin Within[m, x]]

\* A flood reaches everyone: in the end each host has a route to the addresses
\* that others announce.  What is sent on after ttl 0, which `Followed` leaves
\* out, could only make more hosts learn, and no route is ever deleted.
EveryoneLearnsARoute ==
  <>[](\A g \in Announcing, h \in Host : \A x \in Devices[g] :
         g # h => table[h][x] # NoRoute)

\* myArp.cc takes a larger ttl for a shorter path: a route that has been
\* learned is never replaced by one that leads to a host farther away.
LargerTtlIsShorter ==
  [][\A h \in Host, x \in Device :
       table[h][x] # NoRoute /\ table'[h][x] # table[h][x] =>
         Distance[NextHop(h, x)', x] <= Distance[NextHop(h, x), x]]_vars
=============================================================================
