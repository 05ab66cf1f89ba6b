------------------------------- MODULE MCTcp -------------------------------
(***************************************************************************)
(* The transport layer at work between the two programs of L4Test.sh:      *)
(* sender.cc (connect, write, write, close) and recver.cc (bind, accept,   *)
(* read all of it, close), with the sizes scaled down, and variations on   *)
(* their scripts.                                                          *)
(***************************************************************************)
EXTENDS Tcp

CONSTANTS sender, recver,    \* hosts
          cport, sport,      \* their endpoints
          none               \* NoEndpoint

MCHost == {sender, recver}
MCEndpoint == {cport, sport}
MCHostOf == [e \in MCEndpoint |-> IF e = cport THEN sender ELSE recver]

MakeSocket == [op |-> "socket"]
WriteEach(datas) == [k \in DOMAIN datas |-> [op |-> "write", data |-> datas[k]]]
ReadEach(sizes) == [k \in DOMAIN sizes |-> [op |-> "read", n |-> sizes[k]]]

Client(calls) ==
  <<MakeSocket, [op |-> "connect", from |-> cport, to |-> sport]>>
    \o calls \o <<[op |-> "close"]>>

Server(calls) ==
  <<MakeSocket, [op |-> "bind", at |-> sport], [op |-> "accept"]>>
    \o calls \o <<[op |-> "close"]>>

\* Two programs, one on each host.
Programs(client, server) ==
  [h \in MCHost |-> IF h = sender THEN client ELSE server]

\* sender.cc and recver.cc: each write is more than a segment.
L4Script == Programs(Client(WriteEach(<<<<1, 2, 3>>, <<4, 5, 6>>>>)),
                     Server(ReadEach(<<6>>)))

\* Writes that fit a segment return before they are acknowledged.
SmallScript == Programs(Client(WriteEach(<<<<1, 2>>, <<3>>, <<4>>>>)),
                        Server(ReadEach(<<1, 3>>)))

\* A write that returns at once, before one that waits for its
\* acknowledgements: the first may be lost for good.
GapScript == Programs(Client(WriteEach(<<<<1>>, <<2, 3, 4>>>>)),
                      Server(ReadEach(<<3, 1>>)))

\* acc_ack_ready is tested by accept() alone, on the socket it will return, which
\* is a copy of the listener: states that differ in that flag of other sockets
\* have the same future.
Untested(h, f) == ~(h = recver /\ f = app[h].cfd)
View ==
  <<[h \in Host |-> [f \in Fd |->
       IF Untested(h, f) THEN [sock[h][f] EXCEPT !.ready = @ \ {"ack"}]
       ELSE sock[h][f]]],
    queue, unsolved, wire, app, rx, got, up, faults>>

\* A server that calls listen() before accept(), as POSIX programs do.
ListenScript ==
  [L4Script EXCEPT ![recver] =
     <<MakeSocket, [op |-> "bind", at |-> sport], [op |-> "listen"]>>
       \o Tail(Tail(@))]

\* A server that accepts a connection and then asks for another socket.
OneMoreScript ==
  Programs(Client(<<>>),
           <<MakeSocket, [op |-> "bind", at |-> sport], [op |-> "accept"],
             MakeSocket>>)

ClientFd == FirstFd          \* what the sender's socket() returns
ServerFd == FirstFd + 1      \* what the receiver's accept() returns
ClientSock == sock[sender][ClientFd]
ServerSock == sock[recver][ServerFd]
-----------------------------------------------------------------------------
(* The refinement of Connection. *)

ClientEnd ==
  CASE Committed(sender, ClientFd) \in {"FREE", "NONE", "SYNSENT"} -> "idle"
    [] Committed(sender, ClientFd) \in {"FINWAIT1", "FINWAIT2", "CLOSING"} -> "closing"
    [] Committed(sender, ClientFd) = "TIMEWAIT" -> "closed"
    [] OTHER -> "open"

\* A socket without a peer has not been open.
ServerEnd ==
  IF ServerSock.remote = none THEN "idle"
  ELSE CASE Committed(recver, ServerFd) \in {"LISTEN", "SYNRCVD"} -> "idle"
         [] Committed(recver, ServerFd) = "LASTACK" -> "closing"
         [] Committed(recver, ServerFd) = "CLOSED" -> "closed"
         [] OTHER -> "open"

Sent == Slice(ClientSock.databuf, 0, ClientSock.sizep)
Received == got[recver][ServerFd]

Stream == INSTANCE Connection WITH
  client <- ClientEnd, server <- ServerEnd, sent <- Sent,
  arrived <- ServerSock.sizep, received <- Received

\* The sockets, queues and threads implement one connection: handshake,
\* bytes in order, and a close that loses nothing.
ImplementsConnection == Stream!Spec
-----------------------------------------------------------------------------
\* Where nothing is lost or reordered, read() returns what the peer wrote, in
\* order, without gaps.
ReadIntegrity == IsPrefix(Received, Sent)

\* Whatever the network loses, repeats and reorders, a byte that read() returns
\* is the byte of the stream at its place, or the zero that databuf began with
\* when sizep has passed over a segment that has not come.
NoWrongByte ==
  \A k \in DOMAIN Received : k <= Len(Sent) /\ Received[k] \in {Zero, Sent[k]}

\* What write() holds back until it is acknowledged; the bytes of a script are
\* distinct.
Acknowledged ==
  UNION {Range(c.data) : c \in {d \in Range(Script[sender]) :
                                  d.op = "write" /\ Len(d.data) > MSS}}

\* After a single fault only the writes that return at once can leave such a gap:
\* one that is longer than a segment is read whole. Two can spoil it: ACKs of an
\* earlier write, between its append and its send, have recvTCPPacket send its
\* bytes, and it returns before its last segment, sent twice, is acknowledged.
LongWritesIntact ==
  \A k \in DOMAIN Received \cap DOMAIN Sent :
    Sent[k] \in Acknowledged => Received[k] = Sent[k]

\* Packets of some kinds on a wire, in a queue or being processed.
InTransit(kinds) ==
  LET some == 1 .. 9
  IN  Cardinality({x \in Host \X Host \X some :
                     LET w == wire[x[1]][x[2]]
                     IN  x[3] \in DOMAIN w /\ w[x[3]].kind \in kinds})
      + Cardinality({x \in Host \X Fd \X some :
                     LET w == queue[x[1]][x[2]]
                     IN  x[3] \in DOMAIN w /\ w[x[3]].kind \in kinds})
      + Cardinality({h \in Host : rx[h].pc = "react" /\ rx[h].pkt.kind \in kinds})

\* While every write is longer than a segment, the data and acknowledgements
\* of an open connection are never more than one packet: no stale ACK can
\* move writep back.
StopAndWait ==
  ClientEnd = "open" /\ ServerEnd = "open" =>
    InTransit({"DATA", "ACK"}) <= 1

\* A write() that has returned has nothing left to send, so that the FIN of
\* close() never overtakes data.
AllSentBeforeClose ==
  ClientSock.status \in {"FINWAIT1", "FINWAIT2", "CLOSING", "TIMEWAIT"}
    => ClientSock.writep = ClientSock.sizep

\* Only a SYN that finds no listening socket kills a process, the server's.
DiesOnlyOnStraySyn ==
  /\ up[sender]
  /\ ~up[recver] => \A f \in Fd : sock[recver][f].status # "LISTEN"

\* A byte that has arrived is final: no resent, duplicated or late segment
\* changes it.
ArrivedIsFinal ==
  [][\A i \in DOMAIN ServerSock.databuf : ServerSock.databuf[i] # Zero =>
       ServerSock.databuf'[i] = ServerSock.databuf[i]]_vars

\* The descriptor that socket() or accept() gives its caller is a new socket's:
\* it named none before the call, and names one then.
GivesNewSocket ==
  [][\A h \in Host :
       /\ AtCall(h, "socket") \/ AtCall(h, "accept")
       /\ app'[h] # app[h]
       => LET f == app'[h].cfd
          IN  sock[h][f].status = "FREE" /\ sock'[h][f].status # "FREE"]_vars
=============================================================================
