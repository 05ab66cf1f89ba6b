----------------------------- MODULE MCTcpMany -----------------------------
(***************************************************************************)
(* The two programs of MCTcp beside a third one, on a host of its own.     *)
(***************************************************************************)
EXTENDS MCTcp

CONSTANTS other, oport       \* the third host and its endpoint

ManyHost == MCHost \cup {other}
ManyEndpoint == MCEndpoint \cup {oport}
ManyHostOf ==
  [e \in ManyEndpoint |-> IF e = oport THEN other ELSE MCHostOf[e]]

\* It connects to the server of MCTcp.
Rival == <<MakeSocket, [op |-> "connect", from |-> oport, to |-> sport]>>

RivalScript ==
  [h \in ManyHost |-> IF h = other THEN Rival
                      ELSE IF h = sender THEN Client(<<>>) ELSE Server(<<>>)]

\* It listens, and connects through a second socket: on a table with room for
\* one, socket() has returned a descriptor without a socket.
Overfull ==
  <<MakeSocket, [op |-> "bind", at |-> oport], [op |-> "listen"]>> \o Rival

OverfullScript ==
  [h \in ManyHost |-> IF h = other THEN Overfull ELSE L4Script[h]]
=============================================================================
