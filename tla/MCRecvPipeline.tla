--------------------------- MODULE MCRecvPipeline ---------------------------
(* RecvPipeline for TLC: interface lists and the frames of a small network. *)
EXTENDS RecvPipeline

Packet(name, mac) == [family |-> "packet", name |-> name, addr |-> mac]
Inet(name, ip) == [family |-> "inet", name |-> name, addr |-> ip]

\* The order that Linux uses, and a lone device with two addresses, of which
\* one comes before its "packet" entry.
Lists ==
  { << Packet("lo", "m0"), Packet("v1", "m1"), Packet("v2", "m2"),
       Inet("lo", "i0"), Inet("v1", "i1"), Inet("v2", "i2") >>,
    << Inet("v1", "i2"), Packet("v1", "m1"), Inet("v1", "i1") >> }

\* Segments for the two sockets, and a frame that the device v1 sees leave and
\* v2 takes for another host's.
Wires ==
  { [src |-> "peer", dst |-> "i1", sock |-> 100],
    [src |-> "peer", dst |-> "i2", sock |-> 101],
    [src |-> "m1", dst |-> "i1", sock |-> 100] }

Capacities == [f \in Fd |-> IF f = 100 THEN 1 ELSE 2]
=============================================================================
